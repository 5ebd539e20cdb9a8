--------------------------- MODULE GatewayProofs ---------------------------
(***************************************************************************)
(* Proofs about the gateway: the checks of the tools agree with the        *)
(* schemas they advertise, the frames of a session are handled in order    *)
(* whatever is read and written when, every step is a step of the          *)
(* campaigns and of the workspaces, and what a client is told of its call  *)
(* is what happened to the files.                                          *)
(***************************************************************************)
EXTENDS Gateway, GatewayPartsProofs, WellFoundedInduction, SequenceTheorems

-----------------------------------------------------------------------------
(* What the server checks and what it advertises, kind by kind *)

SchemaOf(kind) == CASE kind = "string"  -> StringProperty
                    [] kind = "boolean" -> BooleanProperty
                    [] kind = "integer" -> IntegerProperty
                    [] kind = "strings" -> StringsProperty
                    [] kind = "specs"   -> ListOf(SpecSchema)

Kinds == {"string", "boolean", "integer", "strings", "specs"}

LEMMA Scalars ==
    ASSUME NEW v
    PROVE  /\ IsOfType(v, StringProperty) <=> v.kind = "string"
           /\ FieldConforms(v, StringProperty) <=> v.kind = "string"
           /\ SpecConforms(v, StringProperty) <=> v.kind = "string"
           /\ ValueConforms(v, StringProperty) <=> v.kind = "string"
           /\ ValueConforms(v, BooleanProperty) <=> v.kind = "boolean"
           /\ ValueConforms(v, IntegerProperty) <=> v.kind = "integer"
<1>1. /\ StringProperty.types = {"string"} /\ BooleanProperty.types = {"boolean"}
      /\ IntegerProperty.types = {"integer"}
  BY DEF StringProperty, BooleanProperty, IntegerProperty, Schema
<1>2. IsOfType(v, StringProperty) <=> v.kind = "string"
  BY <1>1 DEF IsOfType
<1>3. FieldConforms(v, StringProperty) <=> v.kind = "string"
  BY <1>1 DEF FieldConforms, Meets
<1>4. SpecConforms(v, StringProperty) <=> v.kind = "string"
  BY <1>1 DEF SpecConforms, Meets
<1>5. /\ ValueConforms(v, StringProperty) <=> v.kind = "string"
      /\ ValueConforms(v, BooleanProperty) <=> v.kind = "boolean"
      /\ ValueConforms(v, IntegerProperty) <=> v.kind = "integer"
  BY <1>1 DEF ValueConforms, Meets
<1> QED BY <1>2, <1>3, <1>4, <1>5

LEMMA ListsOfStrings ==
    ASSUME NEW v
    PROVE  /\ FieldConforms(v, StringsProperty) <=> ValidField(v, "strings")
           /\ ValueConforms(v, StringsProperty) <=> ValidField(v, "strings")
<1>1. /\ StringsProperty.types = {"null", "array"}
      /\ StringsProperty.items # <<>> /\ StringsProperty.items[1] = StringProperty
  BY DEF StringsProperty, ListOf, Schema
<1>2. ValidField(v, "strings") <=>
         \/ v.kind = "null"
         \/ v.kind = "array" /\ \A i \in DOMAIN v.items : v.items[i].kind = "string"
  BY DEF ValidField, AllItems, IsString
<1> QED BY <1>1, <1>2, Scalars DEF FieldConforms, ValueConforms, Meets

\* Two objects: the fields of one are those of the other.
Alike(input, schema) ==
    /\ schema.types = {"object"} /\ schema.required = input.required
    /\ DOMAIN schema.properties = DOMAIN input.properties
    /\ \A n \in DOMAIN input.properties :
          /\ input.properties[n] \in Kinds
          /\ schema.properties[n] = SchemaOf(input.properties[n])

LEMMA SpecsAlike ==
    /\ Alike(SpecInput, SpecSchema)
    /\ \A n \in DOMAIN SpecInput.properties : SpecInput.properties[n] \in {"string", "strings"}
  BY DEF Alike, SpecInput, SpecSchema, Input, Closed, Schema, Kinds, SchemaOf

LEMMA SpecsConform == ASSUME NEW v PROVE SpecConforms(v, SpecSchema) <=> ValidSpec(v)
<1>1. ASSUME NEW n \in DOMAIN SpecInput.properties, NEW x
      PROVE  FieldConforms(x, SpecSchema.properties[n]) <=> ValidField(x, SpecInput.properties[n])
  BY SpecsAlike, Scalars, ListsOfStrings DEF Alike, SchemaOf, ValidField
<1>2. SpecConforms(v, SpecSchema) <=>
         /\ v.kind = "object"
         /\ DOMAIN v.members \subseteq DOMAIN SpecInput.properties
         /\ SpecInput.required \subseteq DOMAIN v.members
         /\ \A n \in DOMAIN v.members : FieldConforms(v.members[n], SpecSchema.properties[n])
  BY SpecsAlike DEF Alike, SpecConforms, Meets
<1>3. ValidSpec(v) <=>
         /\ v.kind = "object"
         /\ DOMAIN v.members \subseteq DOMAIN SpecInput.properties
         /\ SpecInput.required \subseteq DOMAIN v.members
         /\ \A n \in DOMAIN v.members \cap DOMAIN SpecInput.properties :
               ValidField(v.members[n], SpecInput.properties[n])
  BY DEF ValidSpec, ValidObject
<1> QED BY <1>1, <1>2, <1>3

LEMMA ValuesConform ==
    ASSUME NEW v, NEW kind \in Kinds
    PROVE  ValueConforms(v, SchemaOf(kind)) <=> ValidValue(v, kind)
<1>1. CASE kind = "specs"
  <2>1. ValidValue(v, kind) <=>
           v.kind = "null" \/ (v.kind = "array" /\ \A i \in DOMAIN v.items : ValidSpec(v.items[i]))
    BY <1>1 DEF ValidValue, AllItems
  <2>2. /\ SchemaOf(kind).types = {"null", "array"}
        /\ SchemaOf(kind).items # <<>> /\ SchemaOf(kind).items[1] = SpecSchema
    BY <1>1 DEF SchemaOf, ListOf, Schema
  <2> QED BY <2>1, <2>2, SpecsConform DEF ValueConforms, Meets
<1>2. CASE kind = "strings"
  BY <1>2, ListsOfStrings DEF ValidValue, SchemaOf
<1>3. CASE kind \in {"string", "boolean", "integer"}
  BY <1>3, Scalars DEF ValidValue, ValidField, SchemaOf
<1> QED BY <1>1, <1>2, <1>3 DEF Kinds

\* Arguments that were left out are an object without members.
Given(args) == IF args = Absent THEN Json("object") ELSE args

LEMMA ToolsAlike ==
    /\ DOMAIN Advertised = DOMAIN Inputs
    /\ \A t \in DOMAIN Inputs : Alike(Inputs[t], Advertised[t])
<1>1. Alike(CaptureInput, CaptureSchema)
  BY DEF Alike, CaptureInput, CaptureSchema, Input, Closed, Schema, Kinds, SchemaOf
<1>2. Alike(AskInput, AskSchema)
  BY DEF Alike, AskInput, AskSchema, Input, Closed, Schema, Kinds, SchemaOf
<1>3. Alike(CurrentInput, CurrentSchema) /\ Alike(StatusInput, StatusSchema)
  BY DEF Alike, CurrentInput, CurrentSchema, StatusInput, StatusSchema, Input, Closed, Schema,
         Kinds, SchemaOf
<1>4. Alike(ReindexInput, ReindexSchema) /\ Alike(NextInput, NextSchema)
  BY DEF Alike, ReindexInput, ReindexSchema, NextInput, NextSchema, Input, Closed, Schema,
         Kinds, SchemaOf
<1>5. Alike(DraftInput, DraftSchema)
  BY DEF Alike, DraftInput, DraftProperties, DraftSchema, Input, Closed, Schema, Kinds, SchemaOf
<1>6. Alike(LifecycleInput, LifecycleSchema)
  BY DEF Alike, LifecycleInput, LifecycleSchema, Input, Closed, Schema, Kinds, SchemaOf
<1>7. Alike(BeginInput, BeginSchema) /\ Alike(SubmitInput, SubmitSchema)
  BY DEF Alike, BeginInput, BeginSchema, SubmitInput, SubmitSchema, Input, Closed, Schema,
         Kinds, SchemaOf
<1> QED BY <1>1, <1>2, <1>3, <1>4, <1>5, <1>6, <1>7 DEF Inputs, Advertised

LEMMA ChecksAgree ==
    ASSUME NEW t \in DOMAIN Inputs, NEW args, args.kind = "absent" => args = Absent
    PROVE  ValidArguments(args, Inputs[t]) <=> Conforms(Given(args), Advertised[t])
<1> DEFINE input == Inputs[t]
           schema == Advertised[t]
<1>1. Alike(input, schema)
  BY ToolsAlike
<1> HIDE DEF input, schema
<1>2. ASSUME NEW v
      PROVE  Conforms(v, schema) <=> v.kind = "object" /\ ValidObject(v, input, ValidValue)
  <2>1. Conforms(v, schema) <=>
           /\ v.kind = "object"
           /\ DOMAIN v.members \subseteq DOMAIN input.properties
           /\ input.required \subseteq DOMAIN v.members
           /\ \A n \in DOMAIN v.members : ValueConforms(v.members[n], schema.properties[n])
    BY <1>1 DEF Alike, Conforms, Meets
  <2>2. \A n \in DOMAIN input.properties :
           ValueConforms(v.members[n], schema.properties[n])
              <=> ValidValue(v.members[n], input.properties[n])
    BY <1>1, ValuesConform DEF Alike
  <2> QED BY <2>1, <2>2 DEF ValidObject
<1>3. CASE args = Absent
  <2>1. args.kind = "absent"
    BY <1>3, Zenon DEF Absent, Json
  <2>2. Json("object").kind = "object" /\ Json("object").members = <<>>
    BY Zenon DEF Json
  <2>3. ValidObject(Json("object"), input, ValidValue) <=> input.required = {}
    <3>1. DOMAIN Json("object").members = {}
      BY <2>2
    <3> QED BY <3>1 DEF ValidObject
  <2> QED BY <1>2, <1>3, <2>1, <2>2, <2>3 DEF ValidArguments, Given, input, schema
<1>4. CASE args # Absent
  <2> QED BY <1>2, <1>4 DEF ValidArguments, Given, input, schema
<1> QED BY <1>3, <1>4
-----------------------------------------------------------------------------
(* Facts about the operators *)

LEMMA Least ==
    ASSUME NEW S \in SUBSET Nat, S # {}
    PROVE  \E x \in S : \A y \in S : x <= y
<1>1. PICK x \in S : \A y \in S : <<y, x>> \notin OpToRel(<, Nat)
  BY NatLessThanWellFounded, WFMin
<1>2. ASSUME NEW y \in S, y < x PROVE FALSE
  <2>1. <<y, x>> \in Nat \X Nat /\ <<y, x>>[1] = y /\ <<y, x>>[2] = x
    OBVIOUS
  <2> QED BY <1>1, <1>2, <2>1 DEF OpToRel
<1> QED BY <1>2

LEMMA ScriptFacts ==
    ASSUME script \in DOMAIN Scripts
    PROVE  /\ Len(Script) \in Nat /\ Len(Script) <= MaxFrames
           /\ \A n \in 1 .. Len(Script) : IsFrame(Script[n])
  BY ScriptsAssumption DEF Script

\* A request is the frame of the script, but for the item it submits.
LEMMA RequestFacts ==
    ASSUME script \in DOMAIN Scripts, NEW n \in 1 .. Len(Script)
    PROVE  /\ Req(n).method = Script[n].method /\ Req(n).id = Script[n].id
           /\ Req(n).era = Script[n].era /\ Req(n).id \in BOOLEAN
           /\ Req(n).era \in {"legacy", "new", "invalid", "unsupported"}
           /\ Req(n).params = Script[n].params /\ Req(n).tool = Script[n].tool
           /\ ~Script[n].follows => Req(n) = Script[n]
           /\ Script[n].follows => Req(n).tool = "campaign_submit_draft"
           /\ Req(n).args.kind = "absent" => Req(n).args = Absent
<1>1. IsFrame(Script[n])
  BY ScriptFacts
<1>2. CASE ~Script[n].follows
  BY <1>1, <1>2 DEF Req, IsFrame
<1>3. CASE Script[n].follows
  <2>1. PICK f : f = Script[n]
    OBVIOUS
  <2>2. PICK members : members = [f.args.members EXCEPT !["index"].number = sent[n].hint]
    OBVIOUS
  <2>3. Req(n) = [f EXCEPT !.args.members = members]
    BY <1>3, <2>1, <2>2 DEF Req
  <2>4. /\ DOMAIN f = {"method", "id", "era", "params", "uri", "tool", "args", "asks",
                       "size", "glued", "follows"}
        /\ DOMAIN f.args = {"kind", "text", "number", "items", "members"}
        /\ f.tool = "campaign_submit_draft" /\ f.args.kind = "object"
        /\ f.id \in BOOLEAN /\ f.era \in {"legacy", "new", "invalid", "unsupported"}
    BY <1>1, <1>3, <2>1 DEF IsFrame
  <2>5. PICK args : args = [f.args EXCEPT !.members = members]
    OBVIOUS
  <2>6. args.kind = "object"
    BY <2>4, <2>5
  <2>7. Req(n) = [f EXCEPT !.args = args]
    BY <2>3, <2>5
  <2>8. /\ Req(n).method = f.method /\ Req(n).id = f.id /\ Req(n).era = f.era
        /\ Req(n).params = f.params /\ Req(n).tool = f.tool /\ Req(n).args = args
    BY <2>4, <2>7
  <2> QED BY <1>3, <2>1, <2>4, <2>6, <2>8
<1> QED BY <1>2, <1>3
-----------------------------------------------------------------------------
(* The framing, of any buffer *)

Parts == [part : {"open", "body", "close", "gap", "junk"}, frame : Nat]

LEMMA StartFound ==
    ASSUME NEW b \in Seq(Parts)
    PROVE  /\ Start(b) \in 1 .. Len(b) + 1
           /\ \A j \in 1 .. Start(b) - 1 : b[j].part = "gap"
           /\ Start(b) <= Len(b) => b[Start(b)].part # "gap"
<1> DEFINE S == {i \in 1 .. Len(b) + 1 : i <= Len(b) => b[i].part # "gap"}
<1>1. Len(b) \in Nat
  OBVIOUS
<1>2. Len(b) + 1 \in S /\ S \in SUBSET Nat
  BY <1>1
<1>3. PICK x \in S : \A y \in S : x <= y
  BY <1>2, Least
<1>4. ASSUME NEW j \in 1 .. x - 1 PROVE b[j].part = "gap"
  <2>1. j \notin S /\ j \in 1 .. Len(b)
    BY <1>1, <1>3
  <2> QED BY <1>1, <2>1
<1>5. \E i \in 1 .. Len(b) + 1 :
         /\ \A j \in 1 .. i - 1 : b[j].part = "gap"
         /\ i <= Len(b) => b[i].part # "gap"
  BY <1>1, <1>3, <1>4
<1> QED BY <1>5 DEF Start

LEMMA Compacted ==
    ASSUME NEW b \in Seq(Parts)
    PROVE  /\ Compact(b) \in Seq(Parts)
           /\ Len(Compact(b)) = Len(b) - Start(b) + 1
           /\ \A i \in 1 .. Len(b) - Start(b) + 1 : Compact(b)[i] = b[Start(b) + i - 1]
<1>1. Start(b) \in 1 .. Len(b) + 1 /\ Len(b) \in Nat
  BY StartFound
<1>2. \A i \in Start(b) .. Len(b) : b[i] \in Parts
  BY <1>1
<1> HIDE DEF Parts
<1>3. PICK m \in Int, n \in Int : m = Start(b) /\ n = Len(b)
  BY <1>1
<1>4. Compact(b) = SubSeq(b, m, n)
  BY <1>3 DEF Compact
<1>5. /\ SubSeq(b, m, n) \in Seq(Parts)
      /\ Len(SubSeq(b, m, n)) = IF m <= n THEN n - m + 1 ELSE 0
      /\ \A i \in 1 .. n - m + 1 : SubSeq(b, m, n)[i] = b[m + i - 1]
  BY <1>2, <1>3, SubSeqProperties
<1> QED BY <1>1, <1>3, <1>4, <1>5

LEMMA FirstClose ==
    ASSUME NEW v \in Seq(Parts), Closes(v) # {}
    PROVE  /\ End(v) \in 1 .. Len(v) /\ v[End(v)].part = "close"
           /\ \A i \in 1 .. Len(v) : v[i].part = "close" => End(v) <= i
<1>1. Closes(v) \in SUBSET Nat /\ Len(v) \in Nat
  BY DEF Closes
<1>2. \E i \in Closes(v) : \A j \in Closes(v) : i <= j
  BY <1>1, Least
<1>3. End(v) \in Closes(v) /\ \A j \in Closes(v) : End(v) <= j
  BY <1>2 DEF End
<1> QED BY <1>1, <1>3 DEF Closes

\* The parts of a frame: one brace opens it, the last one closes it.
LEMMA ValueShape ==
    ASSUME NEW n \in Nat, NEW size \in Nat, size >= 2
    PROVE  /\ Value(n, size) \in Seq(Parts) /\ Len(Value(n, size)) = size
           /\ Value(n, size)[1] = Part("open", n) /\ Value(n, size)[size].part = "close"
           /\ \A i \in 2 .. size : Value(n, size)[i].part \in {"body", "close"}
<1> DEFINE e(i) == Part(IF i = 1 THEN "open" ELSE IF i = size THEN "close" ELSE "body", n)
<1>1. \A i \in 1 .. size : e(i) \in Parts
  BY DEF Part, Parts
<1>2. Value(n, size) = [i \in 1 .. size |-> e(i)]
  BY DEF Value
<1>3. e(1) = Part("open", n) /\ e(size).part = "close"
  BY DEF Part
<1>4. \A i \in 2 .. size : e(i).part \in {"body", "close"}
  BY DEF Part
<1> HIDE DEF e
<1>5. Value(n, size) \in Seq(Parts) /\ Len(Value(n, size)) = size
  BY <1>1, <1>2
<1> QED BY <1>2, <1>3, <1>4, <1>5

-----------------------------------------------------------------------------
(* The inductive invariant *)

Busies == {"handling", "submitting", "drafted"}
Hints  == Items \cup {-1}

GatewayTyped ==
    /\ script \in DOMAIN Scripts
    /\ DOMAIN session = {"version", "initialized"}
    /\ server \in Busies \cup {"reading", "ended", "failed", "dead"}
    /\ sent \in Seq([live : BOOLEAN, hint : Hints]) /\ Len(sent) <= Len(Script)
    /\ told \in [Frames -> Answers \cup {"none", "silent"}]
    /\ hint \in Hints
    /\ buf \in Seq(Parts) /\ wire \in Seq(Parts)

\* The server is at work on one frame, sent and not dealt with, or on none.
Answering ==
    /\ \A n \in Frames : Dealt(n) => n \in Numbered
    /\ IF server \in Busies THEN call \in Numbered /\ ~Dealt(call) ELSE call = 0

\* The parts on their way to the server, in the order it will see them.
Passing  == Len(buf) + Len(wire)
At(i)    == IF i <= Len(buf) THEN buf[i] ELSE wire[i - Len(buf)]
Begins   == {i \in 1 .. Passing : At(i).part = "open"}

\* Nothing was done for a frame that is on its way, nor for one sent after it.
InFront == \A i \in Begins :
    /\ At(i).frame \in Numbered
    /\ \A n \in Numbered : n >= At(i).frame => ~Dealt(n) /\ call # n /\ MadeBy(n) = {}

\* The frames come in the order they were sent, each one whole before the next.
Spaced == \A i, j \in Begins : i < j =>
    At(i).frame < At(j).frame /\ \E c \in i .. j : At(c).part = "close"

\* A client that may write more has finished what it began.
Finished == open => \A i \in Begins : \E c \in i .. Passing : At(c).part = "close"

\* What was sent in this session to its end is dealt with, at work or on its way.
Carried == Running => \A n \in Numbered :
    sent[n].live /\ ~Dealt(n) /\ call # n => \E i \in Begins : At(i).frame = n

\* A claim was made for one call at most, and for the call at work when its tool
\* has made one; no call of the other process is numbered.
Accounted ==
    /\ \A c \in Claims : origin[c].call \in 0 .. Len(sent)
    /\ \A c, d \in Claims : origin[c].call = origin[d].call /\ origin[c].call # 0 => c = d
    /\ server # "submitting" <=> cpc[Srv] = "idle"
    /\ server = "handling" => MadeBy(call) = {}
    /\ server = "drafted" => MadeBy(call) # {} /\ Reaches(Request, "claim_draft")
    /\ server = "submitting" =>
          /\ Reaches(Request, "campaign_submit_draft") /\ cjob[Srv].call = call
          /\ cpc[Srv] = "claim" => MadeBy(call) = {}
          /\ cpc[Srv] = "checkpoint" => origin[cjob[Srv].claim].call = call
    /\ cjob[Other].call = 0 /\ (cpc[Other] = "checkpoint" => origin[cjob[Other].claim].call = 0)

\* What a run file names exists, and what its owner put there was made for no call.
OnRecord ==
    \A r \in Runs, k \in Items :
        LET d == run[r].drafts[k]
        IN  /\ d.st = "pending" => d.claim = Nobody
            /\ d.st # "pending" => d.claim \in Claims /\ claim[d.claim] # Nobody
            /\ d.st = "superseded_by_owner" => origin[d.claim] = NoClaim

-----------------------------------------------------------------------------
(* What the server does with the frame at hand *)

Turned == {"plain", "no_method", "invalid_request", "invalid_params",
           "unsupported"}

LEMMA AnswersAre == Answers = Turned \cup {"ok", "refused", "failed", "malformed", "timeout"}
BY DEF Answers, Turned

LEMMA SevenGates ==
    ASSUME NEW s, NEW req
    PROVE  /\ DOMAIN Gates(s, req) = 1 .. 7
           /\ \A i \in 1 .. 7 : Gates(s, req)[i].code \in Turned
           /\ req.era = "invalid" => Gates(s, req)[1].stops
           /\ req.era = "unsupported" => Gates(s, req)[2].stops
           /\ ~NewEra(req) /\ s.version = "none" /\ req.method \notin Handshakes
              => Gates(s, req)[4].stops
           /\ (req.method \in Notifications) = req.id => Gates(s, req)[6].stops
<1> DEFINE g == Gates(s, req)
<1>1. /\ DOMAIN g = 1 .. 7
      /\ g[1] = Gate(req.era = "invalid", "invalid_params")
      /\ g[2] = Gate(req.era = "unsupported", "unsupported")
      /\ g[3] = Gate(~EraFits(req), "no_method")
      /\ g[4] = Gate(~NewEra(req) /\ s.version = "none" /\ req.method \notin Handshakes, "plain")
      /\ g[5] = Gate(req.method \notin Known, "no_method")
      /\ g[6] = Gate((req.method \in Notifications) = req.id, "invalid_request")
      /\ g[7] = Gate(req.method \in NeedsParams /\ req.params = "absent", "invalid_request")
  BY DEF Gates
<1>2. \A b, c : Gate(b, c).stops = b /\ Gate(b, c).code = c
  BY DEF Gate
<1> HIDE DEF g
<1>3. \A i \in 1 .. 7 : i = 1 \/ i = 2 \/ i = 3 \/ i = 4 \/ i = 5 \/ i = 6 \/ i = 7
  OBVIOUS
<1>4. \A i \in 1 .. 7 : g[i].code \in Turned
  <2>1. g[1].code = "invalid_params"
    BY <1>1 DEF Gate
  <2>2. g[2].code = "unsupported"
    BY <1>1 DEF Gate
  <2>3. g[3].code = "no_method"
    BY <1>1 DEF Gate
  <2>4. g[4].code = "plain"
    BY <1>1 DEF Gate
  <2>5. g[5].code = "no_method"
    BY <1>1 DEF Gate
  <2>6. g[6].code = "invalid_request"
    BY <1>1 DEF Gate
  <2>7. g[7].code = "invalid_request"
    BY <1>1 DEF Gate
  <2> QED BY <1>3, <2>1, <2>2, <2>3, <2>4, <2>5, <2>6, <2>7 DEF Turned
<1>5. req.era = "invalid" => g[1].stops
  BY <1>1, <1>2, Zenon
<1>6. req.era = "unsupported" => g[2].stops
  BY <1>1, <1>2, Zenon
<1>7. ~NewEra(req) /\ s.version = "none" /\ req.method \notin Handshakes => g[4].stops
  BY <1>1, <1>2, Zenon
<1>8. (req.method \in Notifications) = req.id => g[6].stops
  BY <1>1, <1>2, Zenon
<1> QED BY <1>1, <1>4, <1>5, <1>6, <1>7, <1>8, Zenon DEF g

LEMMA Refusals ==
    ASSUME NEW s, NEW req, ~Admitted(s, req)
    PROVE  Refusal(s, req) \in Turned
<1>1. DOMAIN Gates(s, req) = 1 .. 7 /\ \A i \in 1 .. 7 : Gates(s, req)[i].code \in Turned
  BY SevenGates
<1>3. Stopping(s, req) \in SUBSET Nat /\ Stopping(s, req) # {}
  BY <1>1 DEF Stopping, Admitted
<1>4. \E x \in Stopping(s, req) : \A y \in Stopping(s, req) : x <= y
  BY <1>3, Least
<1>5. (CHOOSE i \in Stopping(s, req) : \A j \in Stopping(s, req) : i <= j) \in Stopping(s, req)
  BY <1>4
<1> QED BY <1>1, <1>5 DEF Refusal, Stopping

\* A call of a tool is only let in with an id, and in a session.
LEMMA Admission ==
    ASSUME NEW s, NEW req, Admitted(s, req), IsTool(req), req.id \in BOOLEAN,
           DOMAIN s = {"version", "initialized"},
           req.era \in {"legacy", "new", "invalid", "unsupported"}
    PROVE  req.id /\ req.era \in {"legacy", "new"} /\ Enter(s, req).version # "none"
<1>2. \A i \in 1 .. 7 : ~Gates(s, req)[i].stops
  BY SevenGates DEF Admitted, Stopping
<1>3. /\ req.era # "invalid" /\ req.era # "unsupported"
      /\ ~(~NewEra(req) /\ s.version = "none" /\ req.method \notin Handshakes)
      /\ ~((req.method \in Notifications) = req.id)
  <2>1. 1 \in 1 .. 7 /\ 2 \in 1 .. 7 /\ 4 \in 1 .. 7 /\ 6 \in 1 .. 7
    OBVIOUS
  <2>2. /\ ~Gates(s, req)[1].stops /\ ~Gates(s, req)[2].stops
        /\ ~Gates(s, req)[4].stops /\ ~Gates(s, req)[6].stops
    BY <1>2, <2>1, Zenon
  <2> QED BY <2>2, SevenGates, Zenon
<1>4. req.method = "tools/call"
  BY DEF IsTool
<1>5. req.method \notin Notifications /\ req.method \notin Handshakes
  BY <1>4 DEF Notifications, Handshakes, LegacyOnly
<1>6. req.id
  BY <1>3, <1>5
<1>7. Enter(s, req).version # "none"
  BY <1>3, <1>5 DEF Enter, Opens, NewEra
<1> QED BY <1>3, <1>6, <1>7

LEMMA Outcomes ==
    ASSUME NEW s, NEW req
    PROVE  Outcome(s, req) \in Turned \cup {"ok"}
BY DEF Outcome, ReadResource, Turned

\* How the work on a frame goes on ...
GoesOn ==
    /\ call' = call /\ told' = told /\ UNCHANGED <<workspacesVars, script, sent>>
    /\ \/ /\ server = "handling" /\ server' = "submitting" /\ Calling
          /\ Reaches(Request, "campaign_submit_draft")
          /\ \E r \in Runs, k \in Items : StartSubmit(Srv, r, k, call)
       \/ /\ server = "submitting" /\ server' = "submitting" /\ session' = session
          /\ WriteClaim(Srv)
       \/ /\ server = "handling" /\ server' = "drafted" /\ Calling
          /\ Reaches(Request, "claim_draft") /\ \E e \in Cites : WriteDraft(e, call)

\* ... and how it ends.
Ends(what) ==
    \/ /\ server = "handling" /\ UNCHANGED campaignVars
       /\ \/ what \in Turned
          \/ what = "ok" /\ ~IsTool(Request)
          \/ what = "malformed" /\ Malformed(Request)
          \/ /\ what \in {"refused", "failed", "timeout"}
             /\ \E t \in {"campaign_submit_draft", "claim_draft"} : Reaches(Request, t)
    \/ /\ server = "handling" /\ what \in {"ok", "refused", "failed", "timeout"}
       /\ \E t \in DOMAIN Inputs \ {"campaign_submit_draft", "claim_draft"} : Reaches(Request, t)
       /\ \/ UNCHANGED campaignVars
          \/ \E r \in Runs, f \in [Items -> Cites] : BeginCampaign(r, f)
    \/ server = "submitting" /\ Checkpoint(Srv) /\ what \in {"ok", "failed", "timeout"}
    \/ /\ server = "submitting" /\ (WriteClaimFails(Srv) \/ LoseCheckpoint(Srv))
       /\ what \in {"failed", "timeout"}
    \/ /\ server = "drafted" /\ UNCHANGED campaignVars
       /\ what \in {"ok", "failed", "timeout"}

Handles ==
    \/ Refuse \/ HandleSession \/ RefuseCall \/ CallBegin \/ CallNext \/ CallSubmit
    \/ CallDraft \/ CallOther \/ SubmitWrites \/ SubmitEnds \/ DraftEnds

LEMMA NextPendingIs ==
    ASSUME NEW r
    PROVE  NextPending(r) \in Hints
<1>1. Pendings(r) \in SUBSET Nat /\ Pendings(r) \subseteq Items
  BY CampaignAssumption DEF Pendings
<1>2. CASE Pendings(r) # {}
  <2>1. \E x \in Pendings(r) : \A y \in Pendings(r) : x <= y
    BY <1>1, <1>2, Least
  <2>2. (CHOOSE k \in Pendings(r) : \A n \in Pendings(r) : k <= n) \in Pendings(r)
    BY <2>1
  <2> QED BY <1>1, <1>2, <2>2 DEF NextPending, Hints
<1> QED BY <1>2 DEF NextPending, Hints

\* The frame at hand, as it is in the script unless it follows campaign_next.
LEMMA AtHand ==
    ASSUME GatewayTyped, Answering, server \in Busies
    PROVE  /\ call \in 1 .. Len(Script) /\ call \in Frames
           /\ Request.id = Script[call].id /\ Request.id \in BOOLEAN
           /\ Request.era \in {"legacy", "new", "invalid", "unsupported"}
           /\ Request.tool # "campaign_submit_draft" => Request = Script[call]
<1>1. Len(sent) \in Nat /\ script \in DOMAIN Scripts /\ Len(sent) <= Len(Script)
  BY DEF GatewayTyped
<1>2. call \in 1 .. Len(Script) /\ call \in Frames
  BY <1>1, ScriptFacts, GatewayAssumption DEF Answering, Numbered, Frames
<1> QED BY <1>1, <1>2, RequestFacts DEF Request

\* The specs and drafts of the scripts cite what may be cited.
LEMMA DraftCites ==
    ASSUME GatewayTyped, Answering, server = "handling", Reaches(Request, "claim_draft"),
           Draftable(Args)
    PROVE  Citation(Args) \in Cites
<1>1. Request.tool = "claim_draft"
  BY DEF Reaches
<1>2. Request = Script[call] /\ call \in 1 .. Len(Script)
  BY <1>1, AtHand DEF Busies
<1> QED BY <1>2, CitesAssumption DEF Args, Script, GatewayTyped

LEMMA SpecCites ==
    ASSUME GatewayTyped, Answering, server = "handling", Reaches(Request, "campaign_begin"),
           Specs(Args) # <<>>, \A i \in DOMAIN Specs(Args) : Draftable(Specs(Args)[i])
    PROVE  [k \in Items |-> Citation(Specs(Args)[k + 1])] \in [Items -> Cites]
<1>1. Request.tool = "campaign_begin"
  BY DEF Reaches
<1>2. Request = Script[call] /\ call \in 1 .. Len(Script)
  BY <1>1, AtHand DEF Busies
<1>3. \A k \in Items : Citation(Specs(Args)[k + 1]) \in Cites
  BY <1>2, CitesAssumption DEF Args, Script, GatewayTyped
<1> QED BY <1>3

\* The tools that reach their body are those that were called.
LEMMA OneTool ==
    ASSUME NEW req, NEW t, Reaches(req, t)
    PROVE  req.tool = t /\ t \in DOMAIN Inputs /\ IsTool(req) /\ ~Malformed(req)
BY DEF Reaches, Misused

Shape == /\ server \in Busies /\ UNCHANGED framing /\ script' = script /\ sent' = sent
         /\ UNCHANGED workspacesVars
         /\ GoesOn \/ \E what \in Answers : Done(what) /\ Ends(what)

\* Whatever the server does with a frame, it goes on with it or answers it.
LEMMA Handling ==
    ASSUME GatewayTyped, Answering, Accounted, CampaignTypeOK, Handles
    PROVE  Shape /\ hint' \in Hints /\ DOMAIN session' = {"version", "initialized"}
<1> USE DEF apart, Busies
<1>s. DOMAIN session = {"version", "initialized"} /\ hint \in Hints
  BY DEF GatewayTyped
<1>e. DOMAIN Enter(session, Request) = {"version", "initialized"}
  BY <1>s DEF Enter
<1>d. ASSUME NEW what, Done(what)
      PROVE  script' = script /\ sent' = sent /\ UNCHANGED workspacesVars
  BY <1>d DEF Done
<1>1. CASE Refuse
  <2>1. Refusal(session, Request) \in Turned
    BY <1>1, Refusals DEF Refuse
  <2>2. Ends(Refusal(session, Request)) /\ Refusal(session, Request) \in Answers
    BY <1>1, <2>1, AnswersAre DEF Refuse, Ends
  <2> QED BY <1>1, <1>s, <1>e, <1>d, <2>2 DEF Refuse, Shape
<1>2. CASE HandleSession
  <2>1. Outcome(session, Request) \in Turned \cup {"ok"}
    BY Outcomes
  <2>2. Ends(Outcome(session, Request)) /\ Outcome(session, Request) \in Answers
    BY <1>2, <2>1, AnswersAre DEF HandleSession, Ends
  <2>3. DOMAIN Dispatch(session, Request) = {"version", "initialized"}
    BY <1>s, <1>e DEF Dispatch
  <2> QED BY <1>2, <1>s, <1>d, <2>2, <2>3 DEF HandleSession, Shape
<1>3. CASE RefuseCall
  <2>1. Ends("invalid_params") /\ "invalid_params" \in Answers
    BY <1>3, AnswersAre DEF RefuseCall, Calling, Ends, Turned
  <2>2. Malformed(Request) => Ends("malformed") /\ "malformed" \in Answers
    BY <1>3, AnswersAre DEF RefuseCall, Calling, Ends
  <2> QED BY <1>3, <1>s, <1>e, <1>d, <2>1, <2>2 DEF RefuseCall, Calling, Shape
<1>4. CASE CallBegin
  <2>0. server = "handling" /\ UNCHANGED framing /\ session' = Enter(session, Request)
        /\ Reaches(Request, "campaign_begin")
    BY <1>4 DEF CallBegin, Calling
  <2>1. \E t \in DOMAIN Inputs \ {"campaign_submit_draft", "claim_draft"} : Reaches(Request, t)
    BY <2>0, OneTool
  <2>2. hint' = hint
    BY <1>4 DEF CallBegin, Reply, Breaks
  <2>3. \/ UNCHANGED campaignVars
        \/ \E r \in Runs, f \in [Items -> Cites] : BeginCampaign(r, f)
    <3>1. CASE /\ Resolved /\ Specs(Args) # <<>>
               /\ \A i \in DOMAIN Specs(Args) : Draftable(Specs(Args)[i])
      <4>1. [k \in Items |-> Citation(Specs(Args)[k + 1])] \in [Items -> Cites]
        BY <2>0, <3>1, SpecCites
      <4> QED BY <1>4, <3>1, <4>1 DEF CallBegin, Breaks
    <3>2. CASE ~(/\ Resolved /\ Specs(Args) # <<>>
                 /\ \A i \in DOMAIN Specs(Args) : Draftable(Specs(Args)[i]))
      BY <1>4, <3>2 DEF CallBegin, Reply
    <3> QED BY <3>1, <3>2
  <2>4. \E what \in {"ok", "refused", "failed", "timeout"} : Done(what)
    BY <1>4 DEF CallBegin, Reply, Breaks, Finish
  <2> QED BY <1>s, <1>e, <1>d, <2>0, <2>1, <2>2, <2>3, <2>4, AnswersAre DEF Shape, Ends
<1>5. CASE CallNext
  <2>0. server = "handling" /\ UNCHANGED framing /\ session' = Enter(session, Request)
        /\ Reaches(Request, "campaign_next")
    BY <1>5 DEF CallNext, Calling
  <2>1. \E t \in DOMAIN Inputs \ {"campaign_submit_draft", "claim_draft"} : Reaches(Request, t)
    BY <2>0, OneTool
  <2>2. hint' \in Hints
    BY <1>5, <1>s, NextPendingIs DEF CallNext, Reply
  <2>3. UNCHANGED campaignVars
    BY <1>5 DEF CallNext, Reply, Resume
  <2>4. \E what \in {"ok", "refused", "timeout"} : Done(what)
    BY <1>5 DEF CallNext, Reply, Finish
  <2> QED BY <1>s, <1>e, <1>d, <2>0, <2>1, <2>2, <2>3, <2>4, AnswersAre DEF Shape, Ends
<1>6. CASE CallSubmit
  <2>0. /\ server = "handling" /\ UNCHANGED framing /\ session' = Enter(session, Request)
        /\ Reaches(Request, "campaign_submit_draft") /\ Calling /\ hint' = hint
    BY <1>6 DEF CallSubmit, Calling, Reply
  <2>1. CASE /\ RunId \in Runs /\ StartSubmit(Srv, RunId, Index(Args), call)
             /\ server' = "submitting" /\ UNCHANGED <<apart, call, sent, told>>
    <3>1. Index(Args) \in Items
      BY <2>1 DEF StartSubmit, Accepts
    <3>2. GoesOn
      BY <2>0, <2>1, <3>1 DEF GoesOn
    <3> QED BY <1>s, <1>e, <2>0, <2>1, <3>2 DEF Shape
  <2>2. CASE UNCHANGED campaignVars /\ \E what \in {"refused", "timeout"} : Done(what)
    BY <1>s, <1>e, <1>d, <2>0, <2>2, AnswersAre DEF Shape, Ends
  <2> QED BY <1>6, <2>1, <2>2 DEF CallSubmit, RefuseSubmit, Reply, Finish
<1>7. CASE CallDraft
  <2>0. /\ server = "handling" /\ UNCHANGED framing /\ session' = Enter(session, Request)
        /\ Reaches(Request, "claim_draft") /\ Calling /\ hint' = hint
    BY <1>7 DEF CallDraft, Calling, Reply, Breaks
  <2>1. CASE /\ Draftable(Args) /\ WriteDraft(Citation(Args), call)
             /\ server' = "drafted" /\ UNCHANGED <<apart, call, sent, told>>
    <3>1. Citation(Args) \in Cites
      BY <2>0, <2>1, DraftCites
    <3>2. GoesOn
      BY <2>0, <2>1, <3>1 DEF GoesOn
    <3> QED BY <1>s, <1>e, <2>0, <2>1, <3>2 DEF Shape
  <2>2. CASE UNCHANGED campaignVars /\ \E what \in {"refused", "failed", "timeout"} : Done(what)
    BY <1>s, <1>e, <1>d, <2>0, <2>2, AnswersAre DEF Shape, Ends
  <2> QED BY <1>7, <2>1, <2>2 DEF CallDraft, Reply, Breaks, Finish
<1>8. CASE CallOther
  <2>1. \E t \in DOMAIN Inputs \ {"campaign_submit_draft", "claim_draft"} : Reaches(Request, t)
    BY <1>8 DEF CallOther
  <2>2. /\ server = "handling" /\ UNCHANGED framing /\ session' = Enter(session, Request)
        /\ hint' = hint /\ UNCHANGED campaignVars
    BY <1>8 DEF CallOther, Calling, Reply, Breaks
  <2>3. \E what \in {"ok", "refused", "failed", "timeout", "invalid_params"} : Done(what)
    BY <1>8 DEF CallOther, Reply, Breaks, Finish
  <2> QED BY <1>s, <1>e, <1>d, <2>1, <2>2, <2>3, AnswersAre DEF Shape, Ends, Turned
<1>9. CASE SubmitWrites
  BY <1>9, <1>s DEF SubmitWrites, Shape, GoesOn, gatewayVars
<1>10. CASE SubmitEnds
  <2>1. CASE Checkpoint(Srv) /\ \E what \in {"ok", "failed", "timeout"} : Done(what)
    BY <1>10, <1>s, <1>d, <2>1, AnswersAre DEF SubmitEnds, Shape, Ends
  <2>2. CASE /\ WriteClaimFails(Srv) \/ LoseCheckpoint(Srv)
             /\ \E what \in {"failed", "timeout"} : Done(what)
    BY <1>10, <1>s, <1>d, <2>2, AnswersAre DEF SubmitEnds, Shape, Ends
  <2> QED BY <1>10, <2>1, <2>2 DEF SubmitEnds, Finish
<1>11. CASE DraftEnds
  <2>1. \E what \in {"ok", "failed", "timeout"} : Done(what)
    BY <1>11 DEF DraftEnds, Reply, Breaks, Finish
  <2> QED BY <1>11, <1>s, <1>d, <2>1, AnswersAre DEF DraftEnds, Reply, Breaks, Shape, Ends
<1> QED BY <1>1, <1>2, <1>3, <1>4, <1>5, <1>6, <1>7, <1>8, <1>9, <1>10, <1>11 DEF Handles

\* What is done, is done for the frame at hand.
LEMMA DoneIs ==
    ASSUME GatewayTyped, Answering, server \in Busies, NEW what, Done(what)
    PROVE  /\ server' = "reading" /\ call' = 0 /\ script' = script /\ sent' = sent
           /\ told' = [told EXCEPT ![call] = IF Script[call].id THEN what ELSE "silent"]
           /\ call \in Numbered /\ call \in Frames
<1>1. call \in Numbered /\ call \in Frames
  BY AtHand DEF Answering
<1> QED BY <1>1 DEF Done, Answer, apart

-----------------------------------------------------------------------------
(* What a step does to the parts on their way *)

\* The first d parts are gone, the others keep their order.
Shifted(d) == /\ d \in 0 .. Passing /\ Passing' = Passing - d
              /\ \A i \in 1 .. Passing - d : At(i)' = At(i + d)

LEMMA PassingParts ==
    ASSUME GatewayTyped
    PROVE  /\ Len(buf) \in Nat /\ Len(wire) \in Nat /\ Passing \in Nat /\ Len(sent) \in Nat
           /\ \A i \in 1 .. Passing : At(i) \in Parts
<1>1. buf \in Seq(Parts) /\ wire \in Seq(Parts)
  BY DEF GatewayTyped
<1>2. Len(sent) \in Nat
  BY DEF GatewayTyped
<1> HIDE DEF Parts
<1> QED BY <1>1, <1>2 DEF Passing, At

\* A read moves a part of what was written behind what is held; of that, only the
\* gaps in front go.
LEMMA FillShifts ==
    ASSUME GatewayTyped, NEW n \in 1 .. Chunk, Fill(n)
    PROVE  /\ buf' \in Seq(Parts) /\ wire' \in Seq(Parts) /\ open' = open
           /\ Len(buf') <= MaxBuffer + Chunk
           /\ Start(buf) - 1 \in Nat /\ Shifted(Start(buf) - 1)
           /\ \A i \in 1 .. Start(buf) - 1 : At(i).part = "gap"
<1>1. buf \in Seq(Parts) /\ wire \in Seq(Parts)
  BY DEF GatewayTyped
<1>2. /\ Start(buf) \in 1 .. Len(buf) + 1
      /\ \A j \in 1 .. Start(buf) - 1 : buf[j].part = "gap"
      /\ Compact(buf) \in Seq(Parts) /\ Len(Compact(buf)) = Len(buf) - Start(buf) + 1
      /\ \A i \in 1 .. Len(buf) - Start(buf) + 1 : Compact(buf)[i] = buf[Start(buf) + i - 1]
  BY <1>1, StartFound, Compacted
<1> HIDE DEF Parts
<1>3. /\ n <= Len(wire) /\ buf' = Compact(buf) \o SubSeq(wire, 1, n)
      /\ wire' = SubSeq(wire, n + 1, Len(wire)) /\ open' = open /\ Looks = "read"
  BY DEF Fill
<1>4. PICK d \in Nat, k \in Nat, w \in Nat : d = Start(buf) - 1 /\ k = Len(buf) - d /\ w = Len(wire)
  <2>1. Len(buf) \in Nat /\ Len(wire) \in Nat
    BY <1>1
  <2>2. Start(buf) \in 1 .. Len(buf) + 1
    BY <1>2
  <2>3. Start(buf) - 1 \in Nat /\ Len(buf) - (Start(buf) - 1) \in Nat
    BY <2>1, <2>2
  <2> QED BY <2>1, <2>3
<1>5. Len(buf) = d + k /\ Start(buf) = d + 1 /\ Len(wire) = w /\ n <= w /\ n \in Nat
  <2>1. Len(buf) \in Nat /\ Start(buf) \in Int /\ Len(wire) = w /\ n <= w /\ n \in Nat
    BY <1>1, <1>2, <1>3, <1>4
  <2>2. Len(buf) = d + k
    <3>1. PICK b \in Nat : b = Len(buf)
      BY <2>1
    <3>2. k = b - d
      BY <1>4, <3>1
    <3>3. b = d + k
      BY <3>2
    <3> QED BY <3>1, <3>3
  <2>3. Start(buf) = d + 1
    BY <1>4, <2>1
  <2> QED BY <2>1, <2>2, <2>3
<1>6. /\ \A i \in 1 .. d : buf[i].part = "gap"
      /\ \E c \in Seq(Parts) : c = Compact(buf) /\ Len(c) = k /\ \A i \in 1 .. k : c[i] = buf[i + d]
  <2>1. \A i \in 1 .. d : buf[i].part = "gap"
    <3>1. Start(buf) - 1 = d
      BY <1>4
    <3> QED BY <1>2, <3>1
  <2>2. Compact(buf) \in Seq(Parts) /\ Len(Compact(buf)) = k
    BY <1>2, <1>5
  <2>3. ASSUME NEW i \in 1 .. k PROVE Compact(buf)[i] = buf[i + d]
    <3>1. i \in 1 .. Len(buf) - Start(buf) + 1 /\ Start(buf) + i - 1 = i + d
      BY <1>5
    <3> QED BY <1>2, <3>1
  <2> QED BY <2>1, <2>2, <2>3
<1>7. PICK c \in Seq(Parts) : c = Compact(buf) /\ Len(c) = k /\ \A i \in 1 .. k : c[i] = buf[i + d]
  BY <1>6
<1>8. PICK r \in Seq(Parts) :
         r = SubSeq(wire, 1, n) /\ Len(r) = n /\ \A i \in 1 .. n : r[i] = wire[i]
  <2>1. \A i \in 1 .. n : wire[i] \in Parts
    BY <1>1, <1>5
  <2>2. /\ SubSeq(wire, 1, n) \in Seq(Parts) /\ Len(SubSeq(wire, 1, n)) = n
        /\ \A i \in 1 .. n : SubSeq(wire, 1, n)[i] = wire[1 + i - 1]
    <3>1. 1 \in Int /\ n \in Int /\ n - 1 + 1 = n /\ 1 <= n
      BY <1>5
    <3> QED BY <2>1, <3>1, SubSeqProperties
  <2>3. \A i \in 1 .. n : 1 + i - 1 = i
    OBVIOUS
  <2> QED BY <2>2, <2>3
<1>9. /\ wire' \in Seq(Parts) /\ Len(wire') = w - n
      /\ \A i \in 1 .. w - n : wire'[i] = wire[n + i]
  <2>1. \A i \in n + 1 .. w : wire[i] \in Parts
    BY <1>1, <1>5
  <2>2. wire' = SubSeq(wire, n + 1, w)
    BY <1>3, <1>5
  <2>3. n + 1 \in Int /\ w \in Int
    BY <1>5
  <2>4. /\ wire' \in Seq(Parts) /\ Len(wire') = IF n + 1 <= w THEN w - (n + 1) + 1 ELSE 0
        /\ \A i \in 1 .. w - (n + 1) + 1 : wire'[i] = wire[(n + 1) + i - 1]
    BY <2>1, <2>2, <2>3, SubSeqProperties
  <2>5. w - (n + 1) + 1 = w - n /\ \A i \in 1 .. w - n : (n + 1) + i - 1 = n + i
    BY <1>5
  <2> QED BY <1>5, <2>4, <2>5
<1>10. /\ buf' \in Seq(Parts) /\ Len(buf') = k + n
       /\ \A i \in 1 .. k : buf'[i] = buf[i + d]
       /\ \A i \in k + 1 .. k + n : buf'[i] = wire[i - k]
  <2>1. buf' = c \o r
    BY <1>3, <1>7, <1>8
  <2>2. /\ buf' \in Seq(Parts) /\ Len(buf') = k + n
        /\ \A i \in 1 .. k + n : buf'[i] = IF i <= k THEN c[i] ELSE r[i - k]
    BY <1>5, <1>7, <1>8, <2>1
  <2>3. \A i \in k + 1 .. k + n : i - k \in 1 .. n /\ ~(i <= k) /\ i \in 1 .. k + n
    BY <1>5
  <2>4. \A i \in 1 .. k : i <= k /\ i \in 1 .. k + n
    BY <1>5
  <2> QED BY <1>7, <1>8, <2>2, <2>3, <2>4
<1>11. ASSUME NEW i \in 1 .. (d + k + w) - d
       PROVE  At(i)' = At(i + d)
  <2>0. i \in Nat /\ i + d \in Nat /\ Len(buf') = k + n /\ Len(buf) = d + k
    BY <1>5, <1>10
  <2>1. CASE i <= k
    BY <2>0, <2>1, <1>5, <1>10 DEF At
  <2>2. CASE i > k /\ i <= k + n
    <3>1. At(i)' = wire[i - k]
      BY <1>5, <1>10, <2>0, <2>2 DEF At
    <3>2. At(i + d) = wire[(i + d) - (d + k)]
      BY <2>0, <2>2 DEF At
    <3>3. i - k = (i + d) - (d + k)
      BY <2>0
    <3> QED BY <3>1, <3>2, <3>3
  <2>3. CASE i > k + n
    <3>1. At(i)' = wire'[i - (k + n)]
      BY <2>0, <2>3, <1>5 DEF At
    <3>2. i - (k + n) \in 1 .. w - n
      BY <2>0, <2>3, <1>5
    <3>3. wire'[i - (k + n)] = wire[n + (i - (k + n))]
      BY <1>9, <3>2
    <3>4. At(i + d) = wire[(i + d) - (d + k)]
      BY <2>0, <2>3, <1>5 DEF At
    <3>5. n + (i - (k + n)) = (i + d) - (d + k)
      BY <2>0, <1>5
    <3> QED BY <3>1, <3>3, <3>4, <3>5
  <2> QED BY <1>5, <2>0, <2>1, <2>2, <2>3
<1>12. Passing = d + k + w /\ Passing' = (k + n) + (w - n)
  BY <1>5, <1>9, <1>10 DEF Passing
<1>13. Shifted(d)
  <2>1. d \in 0 .. d + k + w /\ (k + n) + (w - n) = (d + k + w) - d
    BY <1>5
  <2> QED BY <1>11, <1>12, <2>1 DEF Shifted
<1>14. \A i \in 1 .. d : At(i).part = "gap"
  BY <1>5, <1>6 DEF At
<1>15. Len(buf') <= MaxBuffer + Chunk
  <2>1. ~Oversize
    BY <1>3 DEF Looks
  <2> QED BY <1>5, <1>10, <2>1, FramingAssumption DEF Oversize
<1>16. Start(buf) - 1 = d
  BY <1>5
<1> QED BY <1>3, <1>9, <1>10, <1>13, <1>14, <1>15, <1>16

LEMMA FillEofShifts ==
    ASSUME GatewayTyped, FillEof
    PROVE  /\ buf' \in Seq(Parts) /\ wire' \in Seq(Parts) /\ open' = open
           /\ Len(buf') <= Len(buf)
           /\ Start(buf) - 1 \in Nat /\ Shifted(Start(buf) - 1)
           /\ \A i \in 1 .. Start(buf) - 1 : At(i).part = "gap"
<1>1. buf \in Seq(Parts) /\ wire = <<>> /\ wire' = <<>> /\ open' = open /\ buf' = Compact(buf)
  BY DEF GatewayTyped, FillEof
<1>2. /\ Start(buf) \in 1 .. Len(buf) + 1
      /\ \A j \in 1 .. Start(buf) - 1 : buf[j].part = "gap"
      /\ Compact(buf) \in Seq(Parts) /\ Len(Compact(buf)) = Len(buf) - Start(buf) + 1
      /\ \A i \in 1 .. Len(buf) - Start(buf) + 1 : Compact(buf)[i] = buf[Start(buf) + i - 1]
  BY <1>1, StartFound, Compacted
<1> HIDE DEF Parts
<1>3. Len(wire) = 0 /\ Len(wire') = 0 /\ Len(buf) \in Nat
  BY <1>1
<1>4. ASSUME NEW i \in 1 .. Passing - (Start(buf) - 1)
      PROVE  At(i)' = At(i + (Start(buf) - 1))
  BY <1>1, <1>2, <1>3 DEF At, Passing
<1>5. Shifted(Start(buf) - 1)
  BY <1>1, <1>2, <1>3, <1>4 DEF Shifted, Passing
<1> QED BY <1>1, <1>2, <1>3, <1>5 DEF At

\* Taking a frame removes it, the gaps in front of it and the one behind it.
LEMMA TakeShifts ==
    ASSUME GatewayTyped, Take
    PROVE  /\ buf' \in Seq(Parts) /\ wire' = wire /\ open' = open /\ Len(buf') <= Len(buf)
           /\ \E d, b, e \in 1 .. Passing :
                 /\ Shifted(d) /\ b <= e /\ e <= d
                 /\ \A i \in 1 .. b - 1 : At(i).part = "gap"
                 /\ At(b).part = "open" /\ At(b).frame = Next1 /\ At(e).part = "close"
                 /\ \A i \in b .. e - 1 : At(i).part # "close"
                 /\ \A i \in e + 1 .. d : At(i).part = "gap"
<1>1. buf \in Seq(Parts) /\ wire \in Seq(Parts)
  BY DEF GatewayTyped
<1>2. /\ Start(buf) \in 1 .. Len(buf) + 1
      /\ \A j \in 1 .. Start(buf) - 1 : buf[j].part = "gap"
      /\ Compact(buf) \in Seq(Parts) /\ Len(Compact(buf)) = Len(buf) - Start(buf) + 1
      /\ \A i \in 1 .. Len(buf) - Start(buf) + 1 : Compact(buf)[i] = buf[Start(buf) + i - 1]
  BY <1>1, StartFound, Compacted
<1>3. /\ Looks = "value" /\ wire' = wire /\ open' = open
      /\ buf' = SubSeq(Compact(buf), End(Compact(buf)) + 2, Len(Compact(buf)))
  BY DEF Take
<1>4. PICK v \in Seq(Parts) : v = Compact(buf)
  BY <1>2
<1>7. /\ v # <<>> /\ v[1].part = "open" /\ Closes(v) # {}
      /\ End(v) = Len(v) \/ v[End(v) + 1].part = "gap"
  <2>1. Scan(v) = "complete"
    BY <1>3, <1>4 DEF Looks, Scan
  <2> QED BY <1>3, <1>4, <2>1 DEF Looks, Scan
<1>8. /\ End(v) \in 1 .. Len(v) /\ v[End(v)].part = "close"
      /\ \A i \in 1 .. Len(v) : v[i].part = "close" => End(v) <= i
  BY <1>7, FirstClose
<1> HIDE DEF Parts
<1>5. PICK o \in Nat, k \in Nat, w \in Nat : o = Start(buf) - 1 /\ k = Len(buf) - o /\ w = Len(wire)
  <2>1. Len(buf) \in Nat /\ Len(wire) \in Nat
    BY <1>1
  <2>2. Start(buf) \in 1 .. Len(buf) + 1
    BY <1>2
  <2>3. Start(buf) - 1 \in Nat /\ Len(buf) - (Start(buf) - 1) \in Nat
    BY <2>1, <2>2
  <2> QED BY <2>1, <2>3
<1>6. Len(buf) = o + k /\ Start(buf) = o + 1 /\ Len(wire) = w
  <2>1. Len(buf) \in Nat
    BY <1>1
  <2>2. Start(buf) \in Nat
    BY <1>2, <2>1
  <2>3. o = Start(buf) - 1 /\ k = Len(buf) - o /\ w = Len(wire)
    BY <1>5
  <2>4. Start(buf) = o + 1
    BY <2>2, <2>3
  <2>5. Len(buf) = o + k
    BY <2>1, <2>3
  <2> QED BY <2>3, <2>4, <2>5
<1>9. /\ \A i \in 1 .. o : buf[i].part = "gap"
      /\ Len(v) = k /\ \A i \in 1 .. k : v[i] = buf[i + o]
  <2>1. \A i \in 1 .. o : buf[i].part = "gap"
    <3>1. Start(buf) - 1 = o
      BY <1>5
    <3> QED BY <1>2, <3>1
  <2>2. Len(v) = k
    BY <1>2, <1>4, <1>6
  <2>3. ASSUME NEW i \in 1 .. k PROVE v[i] = buf[i + o]
    <3>1. i \in 1 .. Len(buf) - Start(buf) + 1 /\ Start(buf) + i - 1 = i + o
      BY <1>6
    <3> QED BY <1>2, <1>4, <3>1
  <2> QED BY <2>1, <2>2, <2>3
<1>10. PICK e \in 1 .. k : e = End(v)
  BY <1>8, <1>9
<1>11. PICK g \in e .. k : g = IF e = k THEN e ELSE e + 1
  <2>1. (IF e = k THEN e ELSE e + 1) \in e .. k
    OBVIOUS
  <2> QED BY <2>1
<1>12. buf' \in Seq(Parts) /\ Len(buf') = k - g /\ \A i \in 1 .. k - g : buf'[i] = v[i + g]
  <2>1. buf' = SubSeq(v, e + 2, k)
    BY <1>3, <1>4, <1>9, <1>10
  <2>2. \A i \in e + 2 .. k : v[i] \in Parts
    BY <1>4, <1>9
  <2>3. e + 2 \in Int /\ k \in Int
    OBVIOUS
  <2>4. /\ buf' \in Seq(Parts)
        /\ Len(buf') = IF e + 2 <= k THEN k - (e + 2) + 1 ELSE 0
        /\ \A i \in 1 .. k - (e + 2) + 1 : buf'[i] = v[(e + 2) + i - 1]
    BY <2>1, <2>2, <2>3, SubSeqProperties
  <2>5. CASE e = k
    BY <1>11, <2>4, <2>5
  <2>6. CASE e # k
    <3>1. g = e + 1 /\ e + 1 <= k
      BY <1>11, <2>6
    <3>2. Len(buf') = k - g
      BY <2>4, <3>1
    <3>3. ASSUME NEW i \in 1 .. k - g PROVE buf'[i] = v[i + g]
      <4>1. i \in 1 .. k - (e + 2) + 1 /\ (e + 2) + i - 1 = i + g
        BY <3>1
      <4> QED BY <2>4, <4>1
    <3> QED BY <2>4, <3>2, <3>3
  <2> QED BY <2>5, <2>6
<1>13. Passing = o + k + w /\ Passing' = (k - g) + w
  BY <1>3, <1>6, <1>12 DEF Passing
<1>14. ASSUME NEW i \in 1 .. k PROVE At(i + o) = v[i]
  <2>1. i + o <= Len(buf)
    BY <1>6
  <2> QED BY <1>9, <2>1 DEF At
<1>15. Shifted(g + o)
  <2>1. ASSUME NEW i \in 1 .. (o + k + w) - (g + o)
        PROVE  At(i)' = At(i + (g + o))
    <3>0. i \in Nat /\ g \in Nat /\ i + (g + o) \in Nat
      OBVIOUS
    <3>1. CASE i <= k - g
      <4>1. At(i)' = v[i + g]
        BY <1>12, <3>1 DEF At
      <4>2. i + g \in 1 .. k /\ (i + g) + o = i + (g + o)
        BY <3>0, <3>1
      <4>3. At((i + g) + o) = v[i + g]
        BY <1>14, <4>2
      <4> QED BY <4>1, <4>2, <4>3
    <3>2. CASE i > k - g
      <4>0. ~(i <= Len(buf'))
        BY <1>12, <3>0, <3>2
      <4>1. At(i)' = wire[i - (k - g)]
        BY <1>3, <1>12, <4>0 DEF At
      <4>2. ~(i + (g + o) <= o + k)
        BY <3>0, <3>2
      <4>3. At(i + (g + o)) = wire[(i + (g + o)) - (o + k)]
        BY <1>6, <4>2 DEF At
      <4>4. i - (k - g) = (i + (g + o)) - (o + k)
        BY <3>0
      <4> QED BY <4>1, <4>3, <4>4
    <3> QED BY <3>0, <3>1, <3>2
  <2>2. g + o \in 0 .. o + k + w /\ (k - g) + w = (o + k + w) - (g + o)
    OBVIOUS
  <2> QED BY <1>13, <2>1, <2>2 DEF Shifted
<1>16. At(1 + o) = v[1] /\ At(e + o) = v[e]
  <2>1. 1 \in 1 .. k
    OBVIOUS
  <2> QED BY <1>14, <2>1
<1>17. ASSUME NEW i \in 1 + o .. (e + o) - 1 PROVE At(i).part # "close"
  <2>1. i - o \in 1 .. k /\ (i - o) + o = i /\ ~(e <= i - o)
    OBVIOUS
  <2>2. At(i) = v[i - o]
    BY <1>14, <2>1
  <2> QED BY <1>8, <1>9, <1>10, <2>1, <2>2
<1>18. ASSUME NEW i \in (e + o) + 1 .. g + o PROVE At(i).part = "gap"
  <2>1. e # k /\ g = e + 1
    BY <1>11
  <2>2. i = (e + 1) + o /\ e + 1 \in 1 .. k
    BY <2>1
  <2>3. At(i) = v[e + 1]
    BY <1>14, <2>2
  <2> QED BY <1>7, <1>9, <1>10, <2>1, <2>3
<1>19. \A i \in 1 .. (1 + o) - 1 : At(i).part = "gap"
  <2>1. \A i \in 1 .. (1 + o) - 1 : i \in 1 .. o /\ i <= o + k
    OBVIOUS
  <2> QED BY <1>6, <1>9, <2>1 DEF At
<1>20. /\ g + o \in 1 .. o + k + w /\ 1 + o \in 1 .. o + k + w /\ e + o \in 1 .. o + k + w
       /\ 1 + o <= e + o /\ e + o <= g + o
  OBVIOUS
<1>21. Len(buf') <= Len(buf)
  BY <1>6, <1>12
<1>22. At(1 + o).part = "open" /\ At(1 + o).frame = Next1 /\ At(e + o).part = "close"
  BY <1>4, <1>7, <1>8, <1>10, <1>16 DEF Next1
<1>23. \E d, b, f \in 1 .. Passing :
          /\ Shifted(d) /\ b <= f /\ f <= d
          /\ \A i \in 1 .. b - 1 : At(i).part = "gap"
          /\ At(b).part = "open" /\ At(b).frame = Next1 /\ At(f).part = "close"
          /\ \A i \in b .. f - 1 : At(i).part # "close"
          /\ \A i \in f + 1 .. d : At(i).part = "gap"
  <2>1. /\ g + o \in 1 .. Passing /\ 1 + o \in 1 .. Passing /\ e + o \in 1 .. Passing
    BY <1>13, <1>20
  <2> QED BY <1>15, <1>17, <1>18, <1>19, <1>20, <1>22, <2>1
<1> QED BY <1>3, <1>12, <1>21, <1>23

\* What a client writes: nothing, or the parts of its next frame from the first on.
Wrote(p) ==
    /\ p \in Seq(Parts) /\ wire' = wire \o p /\ buf' = buf /\ open
    /\ p # <<>> => p[1] = Part("open", Len(sent) + 1)
    /\ \A i \in 2 .. Len(p) : p[i].part # "open"
    /\ open' => \E c \in 1 .. Len(p) : p[c].part = "close"

LEMMA SendWrites ==
    ASSUME GatewayTyped, Send
    PROVE  \E p : p # <<>> /\ Wrote(p)
<1>1. Coming = Script[Len(sent) + 1] /\ Len(sent) + 1 \in 1 .. Len(Script)
  <2>1. Len(sent) \in Nat /\ Len(sent) < Len(Script) /\ Len(Script) \in Nat
    BY ScriptFacts, PassingParts DEF Send, More, GatewayTyped
  <2> QED BY <2>1 DEF Coming
<1>2. Coming.size \in Nat /\ Coming.size >= 2
  BY <1>1, ScriptFacts DEF GatewayTyped, IsFrame
<1>3. PICK n \in Nat, size \in Nat : n = Len(sent) + 1 /\ size = Coming.size
  BY <1>1, <1>2
<1>v. PICK v : v = Value(n, size)
  OBVIOUS
<1>4. /\ v \in Seq(Parts) /\ Len(v) = size /\ v[1] = Part("open", n) /\ v[size].part = "close"
      /\ \A i \in 2 .. size : v[i].part \in {"body", "close"}
  BY <1>2, <1>3, <1>v, ValueShape
<1>5. PICK last \in Parts :
         last = (IF Coming.glued THEN Part("junk", 0) ELSE Gap) /\ last.part # "open"
  <2>1. /\ Part("junk", 0) \in Parts /\ Part("junk", 0).part # "open"
        /\ Gap \in Parts /\ Gap.part # "open"
    BY DEF Part, Gap, Parts
  <2> QED BY <2>1, Zenon
<1> DEFINE p == v \o <<last>>
<1>6. Bytes = v
  BY <1>3, <1>v DEF Bytes
<1>7. wire' = wire \o p /\ buf' = buf /\ open
  BY <1>5, <1>6 DEF Send, Write
<1> HIDE DEF Parts
<1>8. /\ p \in Seq(Parts) /\ Len(p) = size + 1
      /\ \A i \in 1 .. size : p[i] = v[i]
      /\ p[size + 1] = last
  BY <1>4, <1>5
<1>9. p[1] = Part("open", n) /\ p[size].part = "close" /\ 1 \in 1 .. Len(p) /\ size \in 1 .. Len(p)
  <2>1. size >= 2 /\ 1 \in 1 .. size /\ size \in 1 .. size
    BY <1>2, <1>3
  <2>2. 1 \in 1 .. Len(p) /\ size \in 1 .. Len(p)
    BY <1>8, <2>1
  <2>3. p[1] = v[1] /\ p[size] = v[size]
    BY <1>8, <2>1
  <2> QED BY <1>4, <2>2, <2>3
<1>10. \A i \in 2 .. Len(p) : p[i].part # "open"
  <2>1. \A i \in 2 .. Len(p) : i \in 2 .. size \/ i = size + 1
    BY <1>8
  <2>2. \A i \in 2 .. size : p[i].part # "open"
    BY <1>4, <1>8
  <2> QED BY <1>5, <1>8, <2>1, <2>2
<1>11. p # <<>>
  BY <1>8
<1> HIDE DEF p
<1> QED BY <1>3, <1>7, <1>8, <1>9, <1>10, <1>11 DEF Wrote

LEMMA HangWrites ==
    ASSUME GatewayTyped, Hangs
    PROVE  \/ Wrote(<<>>) /\ sent' = sent
           \/ \E p : p # <<>> /\ Wrote(p) /\ More /\
                \E live \in BOOLEAN : sent' = Append(sent, [live |-> live, hint |-> hint])
<1>1. CASE Close(<<>>) /\ UNCHANGED sent
  <2>1. open /\ ~open' /\ wire' = wire \o <<>> /\ buf' = buf
    BY <1>1 DEF Close
  <2> QED BY <1>1, <2>1 DEF Wrote
<1>2. ASSUME More, NEW k \in 1 .. Coming.size, Close(SubSeq(Bytes, 1, k)),
             sent' = Append(sent, [live |-> k = Coming.size, hint |-> hint])
      PROVE  \E p : p # <<>> /\ Wrote(p) /\
                \E live \in BOOLEAN : sent' = Append(sent, [live |-> live, hint |-> hint])
  <2>1. Coming = Script[Len(sent) + 1] /\ Len(sent) + 1 \in 1 .. Len(Script)
    <3>1. Len(sent) \in Nat /\ Len(sent) < Len(Script) /\ Len(Script) \in Nat
      BY <1>2, ScriptFacts, PassingParts DEF More, GatewayTyped
    <3> QED BY <3>1 DEF Coming
  <2>2. Coming.size \in Nat /\ Coming.size >= 2
    BY <2>1, ScriptFacts DEF GatewayTyped, IsFrame
  <2>3. PICK n \in Nat, size \in Nat : n = Len(sent) + 1 /\ size = Coming.size
    BY <2>1, <2>2
  <2>v. PICK v : v = Value(n, size)
    OBVIOUS
  <2>4. /\ v \in Seq(Parts) /\ Len(v) = size /\ v[1] = Part("open", n)
        /\ \A i \in 2 .. size : v[i].part \in {"body", "close"}
    BY <2>2, <2>3, <2>v, ValueShape
  <2> HIDE DEF Parts
  <2>5. PICK p : p = SubSeq(v, 1, k)
    OBVIOUS
  <2>6. k \in Int /\ 1 <= k /\ k <= size
    BY <2>2, <2>3
  <2>7. /\ p \in Seq(Parts) /\ Len(p) = k /\ \A i \in 1 .. k : p[i] = v[i]
    <3>1. \A i \in 1 .. k : v[i] \in Parts
      BY <2>4, <2>6
    <3>2. /\ p \in Seq(Parts) /\ Len(p) = IF 1 <= k THEN k - 1 + 1 ELSE 0
          /\ \A i \in 1 .. k - 1 + 1 : p[i] = v[1 + i - 1]
      BY <2>5, <2>6, <3>1, SubSeqProperties
    <3>3. k - 1 + 1 = k /\ \A i \in 1 .. k : 1 + i - 1 = i
      BY <2>6
    <3> QED BY <2>6, <3>2, <3>3
  <2>8. p[1] = Part("open", n) /\ \A i \in 2 .. Len(p) : p[i].part # "open"
    <3>1. 1 \in 1 .. k /\ \A i \in 2 .. k : i \in 1 .. k /\ i \in 2 .. size
      BY <2>6
    <3> QED BY <2>4, <2>7, <3>1
  <2>9. open /\ ~open' /\ wire' = wire \o p /\ buf' = buf
    BY <1>2, <2>3, <2>5, <2>v DEF Close, Bytes
  <2>10. Wrote(p) /\ p # <<>>
    BY <2>3, <2>6, <2>7, <2>8, <2>9 DEF Wrote
  <2>11. (k = Coming.size) \in BOOLEAN
    OBVIOUS
  <2> QED BY <1>2, <2>10, <2>11
<1> QED BY <1>1, <1>2 DEF Hangs

\* It comes behind what is on its way.
LEMMA WroteExtends ==
    ASSUME GatewayTyped, NEW p, Wrote(p)
    PROVE  /\ wire' \in Seq(Parts) /\ Len(p) \in Nat /\ Passing' = Passing + Len(p)
           /\ \A i \in 1 .. Passing : At(i)' = At(i)
           /\ \A i \in Passing + 1 .. Passing + Len(p) : At(i)' = p[i - Passing]
<1>1. /\ buf \in Seq(Parts) /\ wire \in Seq(Parts) /\ p \in Seq(Parts)
      /\ wire' = wire \o p /\ buf' = buf
  BY DEF GatewayTyped, Wrote
<1> HIDE DEF Parts
<1>2. PICK b \in Nat, w \in Nat, k \in Nat : b = Len(buf) /\ w = Len(wire) /\ k = Len(p)
  BY <1>1
<1>3. /\ wire' \in Seq(Parts) /\ Len(wire') = w + k
      /\ \A i \in 1 .. w : wire'[i] = wire[i]
      /\ \A i \in 1 .. k : wire'[w + i] = p[i]
  BY <1>1, <1>2
<1>4. Passing = b + w /\ Passing' = b + (w + k)
  BY <1>1, <1>2, <1>3 DEF Passing
<1>5. ASSUME NEW i \in 1 .. b + w PROVE At(i)' = At(i)
  BY <1>1, <1>2, <1>3 DEF At
<1>6. ASSUME NEW i \in (b + w) + 1 .. (b + w) + k PROVE At(i)' = p[i - (b + w)]
  <2>1. ~(i <= b) /\ i - b = w + (i - (b + w)) /\ i - (b + w) \in 1 .. k
    OBVIOUS
  <2>2. At(i)' = wire'[i - b]
    BY <1>1, <1>2, <2>1 DEF At
  <2> QED BY <1>3, <2>1, <2>2
<1> QED BY <1>2, <1>3, <1>4, <1>5, <1>6

-----------------------------------------------------------------------------
(* The frames on their way stay whole and in order *)

LEMMA ShiftedBegins ==
    ASSUME GatewayTyped, NEW d, Shifted(d), NEW i
    PROVE  i \in Begins' <=> i \in 1 .. Passing - d /\ i + d \in Begins
<1>1. Passing \in Nat /\ d \in 0 .. Passing
  BY PassingParts DEF Shifted
<1>2. i \in 1 .. Passing - d => i + d \in 1 .. Passing /\ At(i)' = At(i + d)
  BY <1>1 DEF Shifted
<1>3. Begins' = {j \in 1 .. Passing - d : At(j)'.part = "open"}
  BY DEF Begins, Shifted
<1> QED BY <1>2, <1>3 DEF Begins

LEMMA ShiftedKeeps ==
    ASSUME GatewayTyped, Spaced, Finished, NEW d, Shifted(d), open' = open
    PROVE  Spaced' /\ Finished'
<1>1. Passing \in Nat /\ d \in 0 .. Passing /\ Passing' = Passing - d
      /\ \A i \in 1 .. Passing - d : At(i)' = At(i + d)
  BY PassingParts DEF Shifted
<1>2. ASSUME NEW i \in Begins', NEW j \in Begins', i < j
      PROVE  At(i)'.frame < At(j)'.frame /\ \E c \in i .. j : At(c)'.part = "close"
  <2>1. /\ i \in 1 .. Passing - d /\ j \in 1 .. Passing - d
        /\ i + d \in Begins /\ j + d \in Begins
    BY <1>2, ShiftedBegins
  <2>2. i + d < j + d
    BY <1>1, <1>2, <2>1
  <2>3. PICK c \in i + d .. j + d : At(c).part = "close"
    BY <2>1, <2>2 DEF Spaced
  <2>4. c - d \in i .. j /\ c - d \in 1 .. Passing - d /\ (c - d) + d = c
    BY <1>1, <2>1
  <2>5. At(c - d)' = At(c)
    BY <1>1, <2>4
  <2>6. At(i + d).frame < At(j + d).frame
    BY <2>1, <2>2 DEF Spaced
  <2> QED BY <1>1, <2>1, <2>3, <2>4, <2>5, <2>6
<1>3. ASSUME open', NEW i \in Begins'
      PROVE  \E c \in i .. Passing' : At(c)'.part = "close"
  <2>1. i \in 1 .. Passing - d /\ i + d \in Begins
    BY ShiftedBegins
  <2>2. PICK c \in i + d .. Passing : At(c).part = "close"
    BY <1>3, <2>1 DEF Finished
  <2>3. c - d \in i .. Passing - d /\ c - d \in 1 .. Passing - d /\ (c - d) + d = c
    BY <1>1, <2>1
  <2> QED BY <1>1, <2>2, <2>3
<1> QED BY <1>2, <1>3 DEF Spaced, Finished

LEMMA WroteBegins ==
    ASSUME GatewayTyped, NEW p, Wrote(p), NEW i \in Begins'
    PROVE  \/ i \in Begins /\ At(i)' = At(i)
           \/ p # <<>> /\ i = Passing + 1 /\ At(i)' = Part("open", Len(sent) + 1)
<1>1. /\ Len(p) \in Nat /\ Passing' = Passing + Len(p) /\ Passing \in Nat
      /\ \A j \in 1 .. Passing : At(j)' = At(j)
      /\ \A j \in Passing + 1 .. Passing + Len(p) : At(j)' = p[j - Passing]
  BY WroteExtends, PassingParts
<1>2. i \in 1 .. Passing + Len(p) /\ At(i)'.part = "open"
  BY <1>1 DEF Begins
<1>3. CASE i <= Passing
  BY <1>1, <1>2, <1>3 DEF Begins
<1>4. CASE i > Passing
  <2>1. i \in Passing + 1 .. Passing + Len(p) /\ i - Passing \in 1 .. Len(p)
    BY <1>1, <1>2, <1>4
  <2>0. At(i)' = p[i - Passing]
    BY <1>1, <2>1
  <2>2. p[i - Passing].part = "open"
    BY <1>2, <2>0
  <2>3. ~(i - Passing \in 2 .. Len(p))
    BY <2>2 DEF Wrote
  <2>4. i - Passing = 1
    BY <2>1, <2>3
  <2>5. p # <<>> /\ i = Passing + 1
    <3>1. Len(p) # 0
      BY <1>1, <2>1
    <3>2. Len(<<>>) = 0
      OBVIOUS
    <3> QED BY <1>1, <1>2, <2>1, <2>4, <3>1, <3>2
  <2> QED BY <2>0, <2>4, <2>5 DEF Wrote
<1> QED BY <1>1, <1>2, <1>3, <1>4

LEMMA WroteKeeps ==
    ASSUME GatewayTyped, InFront, Spaced, Finished, NEW p, Wrote(p)
    PROVE  Spaced' /\ Finished'
<1>1. /\ Len(p) \in Nat /\ Passing' = Passing + Len(p) /\ Passing \in Nat /\ Len(sent) \in Nat
      /\ \A j \in 1 .. Passing : At(j)' = At(j)
      /\ \A j \in Passing + 1 .. Passing + Len(p) : At(j)' = p[j - Passing]
  BY WroteExtends, PassingParts
<1>o. open
  BY DEF Wrote
<1>2. ASSUME NEW i \in Begins', NEW j \in Begins', i < j
      PROVE  At(i)'.frame < At(j)'.frame /\ \E c \in i .. j : At(c)'.part = "close"
  <2>1. Begins \subseteq 1 .. Passing
    BY DEF Begins
  <2>2. i \in Begins /\ At(i)' = At(i)
    <3>1. j \in 1 .. Passing + Len(p) /\ i \in 1 .. Passing + Len(p)
      BY <1>1 DEF Begins
    <3>2. j \in Begins \/ j = Passing + 1
      BY WroteBegins
    <3>3. (i \in Begins /\ At(i)' = At(i)) \/ i = Passing + 1
      BY WroteBegins
    <3>4. i # Passing + 1
      BY <1>1, <1>2, <2>1, <3>1, <3>2
    <3> QED BY <3>3, <3>4
  <2>3. CASE j \in Begins /\ At(j)' = At(j)
    <3>1. PICK c \in i .. j : At(c).part = "close"
      BY <1>2, <2>2, <2>3 DEF Spaced
    <3>2. c \in 1 .. Passing
      BY <1>1, <2>1, <2>2, <2>3
    <3> QED BY <1>1, <1>2, <2>2, <2>3, <3>1, <3>2 DEF Spaced
  <2>4. CASE j = Passing + 1 /\ At(j)' = Part("open", Len(sent) + 1)
    <3>1. PICK c \in i .. Passing : At(c).part = "close"
      BY <1>o, <2>2 DEF Finished
    <3>2. c \in 1 .. Passing /\ c \in i .. j
      BY <1>1, <2>1, <2>2, <2>4
    <3>3. At(i).frame \in 1 .. Len(sent)
      BY <2>2 DEF InFront, Numbered
    <3>4. At(j)'.frame = Len(sent) + 1
      BY <2>4 DEF Part
    <3> QED BY <1>1, <2>2, <3>1, <3>2, <3>3, <3>4
  <2> QED BY <2>3, <2>4, WroteBegins
<1>3. ASSUME open', NEW i \in Begins'
      PROVE  \E c \in i .. Passing' : At(c)'.part = "close"
  <2>1. PICK c \in 1 .. Len(p) : p[c].part = "close"
    BY <1>3 DEF Wrote
  <2>2. i <= Passing + 1 /\ i \in 1 .. Passing + Len(p)
    <3>1. Begins \subseteq 1 .. Passing /\ i \in 1 .. Passing + Len(p)
      BY <1>1 DEF Begins
    <3>2. i \in Begins \/ i = Passing + 1
      BY WroteBegins
    <3> QED BY <1>1, <3>1, <3>2
  <2>3. PICK q \in i .. Passing + Len(p) : q = Passing + c
    BY <1>1, <2>2
  <2>4. q \in Passing + 1 .. Passing + Len(p) /\ q - Passing = c
    BY <1>1, <2>3
  <2>5. At(q)' = p[q - Passing]
    BY <1>1, <2>4
  <2>6. At(q)'.part = "close"
    BY <2>1, <2>4, <2>5
  <2> QED BY <1>1, <2>3, <2>6
<1> QED BY <1>2, <1>3 DEF Spaced, Finished

-----------------------------------------------------------------------------
(* The claims that are made *)

\* A new claim is made for call x, under an id nothing was made for.
MakesFor(x) == \E c \in Claims :
    /\ claim[c] = Nobody /\ origin[c] = NoClaim
    /\ origin'[c].call = x /\ \A b \in Claims \ {c} : origin'[b] = origin[b]

LEMMA WritesMake ==
    ASSUME CampaignInv
    PROVE  /\ \A p \in Clients : WriteClaim(p) =>
                 MakesFor(cjob[p].call) /\ origin'[cjob'[p].claim].call = cjob[p].call
           /\ \A e \in Cites, n \in Nat : WriteDraft(e, n) => MakesFor(n)
<1>0. origin \in [Claims -> [run : Runs \cup {Nobody}, item : Items \cup {-1}, call : Nat]]
      /\ cjob \in [Clients -> [run : Runs \cup {Nobody}, item : Items \cup {-1},
                               claim : Claims \cup {Nobody}, call : Nat]]
  BY DEF CampaignInv, CampaignTypeOK
<1>1. ASSUME NEW p \in Clients, WriteClaim(p)
      PROVE  MakesFor(cjob[p].call) /\ origin'[cjob'[p].claim].call = cjob[p].call
  <2>1. NewId \in Claims /\ claim[NewId] = Nobody /\ origin[NewId] = NoClaim
    BY <1>1, NewIdIsUnused DEF WriteClaim, CampaignInv, Fresh
  <2>2. PICK c \in Claims : c = NewId
    BY <2>1
  <2>3. /\ origin' = [origin EXCEPT ![c] = [run |-> cjob[p].run, item |-> cjob[p].item,
                                            call |-> cjob[p].call]]
        /\ cjob' = [cjob EXCEPT ![p].claim = c]
    BY <1>1, <2>2 DEF WriteClaim
  <2>4. origin'[c].call = cjob[p].call /\ \A b \in Claims \ {c} : origin'[b] = origin[b]
    BY <1>0, <2>3
  <2>5. cjob'[p].claim = c
    BY <1>0, <2>3
  <2> QED BY <2>1, <2>2, <2>4, <2>5 DEF MakesFor
<1>2. ASSUME NEW e \in Cites, NEW n \in Nat, WriteDraft(e, n) PROVE MakesFor(n)
  <2>1. NewId \in Claims /\ claim[NewId] = Nobody /\ origin[NewId] = NoClaim
    BY <1>2, NewIdIsUnused DEF WriteDraft, CampaignInv, Fresh
  <2>2. PICK c \in Claims : c = NewId
    BY <2>1
  <2>3. origin' = [origin EXCEPT ![c] = [NoClaim EXCEPT !.call = n]]
    BY <1>2, <2>2 DEF WriteDraft
  <2>4. origin'[c].call = n /\ \A b \in Claims \ {c} : origin'[b] = origin[b]
    BY <1>0, <2>3 DEF NoClaim
  <2> QED BY <2>1, <2>2, <2>4 DEF MakesFor
<1> QED BY <1>1, <1>2

LEMMA OthersKeepOrigin ==
    ASSUME NEW p, NEW r, NEW k, NEW n,
           \/ UNCHANGED campaignVars \/ (\E f \in [Items -> Cites] : BeginCampaign(r, f))
           \/ StartSubmit(p, r, k, n) \/ WriteClaimFails(p) \/ Checkpoint(p) \/ LoseCheckpoint(p)
           \/ FinishCampaign(r) \/ Supersede(r, k) \/ DamageRun(r)
    PROVE  origin' = origin
BY DEF campaignVars, BeginCampaign, StartSubmit, WriteClaimFails, Checkpoint, LoseCheckpoint,
       FinishCampaign, Supersede, DamageRun

\* What a call has made, after a step that makes at most one claim.
LEMMA MadeAfter ==
    ASSUME NEW x, MakesFor(x), NEW n \in Nat, n # 0
    PROVE  /\ n # x => MadeBy(n)' = MadeBy(n)
           /\ n = x => \E c \in Claims : origin[c] = NoClaim /\ MadeBy(n)' = MadeBy(n) \cup {c}
<1>1. PICK c \in Claims :
         /\ origin[c] = NoClaim
         /\ origin'[c].call = x /\ \A b \in Claims \ {c} : origin'[b] = origin[b]
  BY DEF MakesFor
<1>2. c \notin MadeBy(n)
  BY <1>1 DEF MadeBy, NoClaim
<1>3. n # x => MadeBy(n)' = MadeBy(n)
  BY <1>1, <1>2 DEF MadeBy
<1>4. n = x => MadeBy(n)' = MadeBy(n) \cup {c}
  BY <1>1 DEF MadeBy
<1> QED BY <1>1, <1>3, <1>4

LEMMA MadeSame ==
    ASSUME origin' = origin, NEW n
    PROVE  MadeBy(n)' = MadeBy(n)
BY DEF MadeBy

\* What the server does to the claims: it makes one for the frame at hand at most.
LEMMA ServerMakes ==
    ASSUME CampaignInv, Accounted, GatewayTyped, Answering, Shape
    PROVE  /\ origin' = origin \/ MakesFor(call)
           /\ call' = 0 => origin' = origin
<1>0. Srv \in Clients /\ call \in Nat /\ call # 0
  <2>1. Len(sent) \in Nat /\ call \in Numbered
    BY PassingParts DEF Answering, Shape
  <2> QED BY <2>1, GatewayAssumption DEF Numbered
<1>1. CASE GoesOn
  <2>1. CASE \E r \in Runs, k \in Items : StartSubmit(Srv, r, k, call)
    BY <2>1, OthersKeepOrigin
  <2>2. CASE server = "submitting" /\ WriteClaim(Srv)
    BY <1>0, <1>1, <2>2, WritesMake DEF Accounted, GoesOn
  <2>3. CASE \E e \in Cites : WriteDraft(e, call)
    BY <1>0, <1>1, <2>3, WritesMake DEF GoesOn
  <2> QED BY <1>1, <2>1, <2>2, <2>3 DEF GoesOn
<1>2. ASSUME NEW what, Ends(what) PROVE origin' = origin
  BY <1>2, OthersKeepOrigin DEF Ends
<1> QED BY <1>1, <1>2 DEF Shape

-----------------------------------------------------------------------------
(* The parts of the gateway are the components *)

LEMMA ServerIsCampaign ==
    ASSUME GatewayTyped, Answering, Accounted, CampaignTypeOK, Shape
    PROVE  [CampaignNext]_campaignVars
<1>0. Srv \in Clients /\ call \in Nat
  <2>1. Len(sent) \in Nat /\ call \in Numbered
    BY PassingParts DEF Answering, Shape
  <2> QED BY <2>1, GatewayAssumption DEF Numbered
<1>1. CASE GoesOn
  BY <1>0, <1>1 DEF GoesOn, CampaignNext
<1>2. ASSUME NEW what, Ends(what) PROVE [CampaignNext]_campaignVars
  BY <1>0, <1>2 DEF Ends, CampaignNext
<1> QED BY <1>1, <1>2 DEF Shape

OtherMoves == OtherBegins \/ OtherSubmits \/ OtherWrites \/ OtherEnds \/ OtherFinishes \/ OwnerEdits

LEMMA OtherIsCampaign ==
    ASSUME OtherMoves
    PROVE  CampaignNext
<1>1. Other \in Clients /\ 0 \in Nat
  BY GatewayAssumption
<1>2. CASE OtherBegins
  BY <1>2 DEF OtherBegins, CampaignNext
<1>3. CASE OtherSubmits
  BY <1>1, <1>3 DEF OtherSubmits, CampaignNext
<1>4. CASE OtherWrites
  BY <1>1, <1>4 DEF OtherWrites, CampaignNext
<1>5. CASE OtherEnds
  BY <1>1, <1>5 DEF OtherEnds, CampaignNext
<1>6. CASE OtherFinishes
  BY <1>6 DEF OtherFinishes, CampaignNext
<1>7. CASE OwnerEdits
  BY <1>7 DEF OwnerEdits, CampaignNext
<1> QED BY <1>2, <1>3, <1>4, <1>5, <1>6, <1>7 DEF OtherMoves

\* The kinds of steps.
LEMMA StepKinds ==
    ASSUME Next
    PROVE  \/ Moves \/ (\E n \in 1 .. Chunk : ReadSome(n)) \/ ReadEnd \/ TakeFrame \/ Stop
           \/ Handles \/ Die \/ Send \/ Hangs \/ Reconnect \/ (Elsewhere /\ OtherMoves)
BY DEF Next, ServerStep, Handles, OtherMoves

LEMMA StepIsCampaign ==
    ASSUME GatewayTyped, Answering, Accounted, CampaignTypeOK, [Next]_vars
    PROVE  [CampaignNext]_campaignVars
<1>1. CASE UNCHANGED vars
  BY <1>1 DEF vars, campaignVars
<1>2. CASE Handles
  BY <1>2, Handling, ServerIsCampaign
<1>3. CASE Die
  <2>1. Srv \in Clients
    BY GatewayAssumption
  <2> QED BY <1>3, <2>1 DEF Die, CampaignNext
<1>4. CASE Elsewhere /\ OtherMoves
  BY <1>4, OtherIsCampaign
<1>5. CASE Moves \/ (\E n \in 1 .. Chunk : ReadSome(n)) \/ ReadEnd \/ TakeFrame \/ Stop
           \/ Send \/ Hangs \/ Reconnect
  BY <1>5 DEF Moves, ReadSome, ReadEnd, TakeFrame, Stop, Send, Hangs, Reconnect
<1> QED BY <1>1, <1>2, <1>3, <1>4, <1>5, StepKinds

LEMMA StepIsWorkspaces ==
    ASSUME GatewayTyped, Answering, Accounted, CampaignTypeOK, [Next]_vars
    PROVE  [WorkspacesNext]_workspacesVars
<1>1. CASE UNCHANGED vars
  BY <1>1 DEF vars, gatewayVars, apart
<1>2. CASE Handles
  BY <1>2, Handling DEF Shape
<1>3. CASE Moves
  BY <1>3 DEF Moves, WorkspacesNext
<1>4. CASE Elsewhere
  BY <1>4 DEF Elsewhere, apart
<1>5. CASE (\E n \in 1 .. Chunk : ReadSome(n)) \/ ReadEnd \/ TakeFrame \/ Stop \/ Die
           \/ Send \/ Hangs \/ Reconnect
  BY <1>5 DEF ReadSome, ReadEnd, TakeFrame, Stop, Die, Send, Hangs, Reconnect, gatewayVars, apart
<1> QED BY <1>1, <1>2, <1>3, <1>4, <1>5, StepKinds

-----------------------------------------------------------------------------
(* The order of the frames, step by step *)

Orderly == GatewayTyped /\ Answering /\ InFront /\ Spaced /\ Finished /\ Carried

LEMMA SameStream ==
    ASSUME UNCHANGED framing
    PROVE  /\ Begins' = Begins /\ Passing' = Passing /\ \A i : At(i)' = At(i)
           /\ Spaced => Spaced'
           /\ Finished => Finished'
<1>1. /\ Passing' = Passing /\ \A i : At(i)' = At(i)
  BY DEF framing, Passing, At
<1>2. Begins' = Begins
  BY <1>1 DEF Begins
<1>3. open' = open
  BY DEF framing
<1>4. Spaced => Spaced'
  BY <1>1, <1>2 DEF Spaced
<1>5. Finished => Finished'
  BY <1>1, <1>2, <1>3 DEF Finished
<1> QED BY <1>1, <1>2, <1>4, <1>5

LEMMA InitOrderly == Init => Orderly
<1> SUFFICES ASSUME Init PROVE Orderly
  OBVIOUS
<1>1. /\ script \in DOMAIN Scripts /\ sent = <<>> /\ told = [n \in Frames |-> "none"]
      /\ hint = -1 /\ server = "reading" /\ call = 0 /\ session = NoSession
      /\ buf = <<>> /\ wire = <<>> /\ origin = [c \in Claims |-> NoClaim]
  BY DEF Init, FramingInit, CampaignInit
<1>2. Len(sent) = 0 /\ Len(sent) <= Len(Script)
  BY <1>1, ScriptFacts
<1>3. GatewayTyped
  <2>1. DOMAIN session = {"version", "initialized"}
    BY <1>1 DEF NoSession
  <2>2. buf \in Seq(Parts) /\ wire \in Seq(Parts)
    BY <1>1
  <2>3. sent \in Seq([live : BOOLEAN, hint : Hints])
    BY <1>1
  <2>4. told \in [Frames -> Answers \cup {"none", "silent"}]
    BY <1>1
  <2>5. hint \in Hints
    BY <1>1 DEF Hints
  <2> QED BY <1>1, <1>2, <2>1, <2>2, <2>3, <2>4, <2>5 DEF GatewayTyped
<1>4. Answering
  BY <1>1 DEF Answering, Dealt, Busies
<1>5. Passing = 0
  BY <1>1 DEF Passing
<1>6. Begins = {}
  BY <1>5 DEF Begins
<1>7. Numbered = {}
  BY <1>2 DEF Numbered
<1> QED BY <1>3, <1>4, <1>6, <1>7 DEF Orderly, InFront, Spaced, Finished, Carried

\* When only gaps go from the front, every frame on its way is still on its way.
LEMMA GapsGo ==
    ASSUME GatewayTyped, InFront, Carried, NEW d, Shifted(d),
           \A i \in 1 .. d : At(i).part = "gap",
           UNCHANGED <<server, call, sent, told, origin>>
    PROVE  InFront' /\ Carried'
<1>1. /\ Passing \in Nat /\ d \in 0 .. Passing
      /\ \A i \in 1 .. Passing - d : At(i)' = At(i + d)
  BY PassingParts DEF Shifted
<1>2. ASSUME NEW i \in Begins'
      PROVE  /\ At(i)'.frame \in Numbered'
             /\ \A n \in Numbered' : n >= At(i)'.frame =>
                    ~Dealt(n)' /\ call' # n /\ MadeBy(n)' = {}
  <2>1. i + d \in Begins /\ At(i)' = At(i + d)
    BY <1>1, <1>2, ShiftedBegins
  <2> QED BY <2>1, MadeSame DEF InFront, Numbered, Dealt
<1>3. ASSUME Running', NEW n \in Numbered', sent'[n].live, ~Dealt(n)', call' # n
      PROVE  \E i \in Begins' : At(i)'.frame = n
  <2>1. PICK i \in Begins : At(i).frame = n
    BY <1>3 DEF Carried, Running, Numbered, Dealt
  <2>2. i \in 1 .. Passing /\ ~(i \in 1 .. d)
    BY <2>1 DEF Begins
  <2>3. PICK j \in 1 .. Passing - d : j + d = i
    <3>1. i - d \in 1 .. Passing - d /\ (i - d) + d = i
      BY <1>1, <2>2
    <3> QED BY <3>1
  <2>4. j \in Begins' /\ At(j)' = At(i)
    BY <1>1, <2>1, <2>3, ShiftedBegins
  <2> QED BY <2>1, <2>4
<1> QED BY <1>2, <1>3 DEF InFront, Carried

LEMMA ReadOrderly ==
    ASSUME Orderly, (\E n \in 1 .. Chunk : ReadSome(n)) \/ ReadEnd
    PROVE  Orderly'
<1> USE DEF Orderly
<1>1. UNCHANGED <<campaignVars, gatewayVars>>
  BY DEF ReadSome, ReadEnd
<1>2. PICK d : /\ buf' \in Seq(Parts) /\ wire' \in Seq(Parts) /\ open' = open
               /\ Shifted(d) /\ \A i \in 1 .. d : At(i).part = "gap"
  <2>1. CASE \E n \in 1 .. Chunk : ReadSome(n)
    BY <2>1, FillShifts DEF ReadSome
  <2>2. CASE ReadEnd
    BY <2>2, FillEofShifts DEF ReadEnd
  <2> QED BY <2>1, <2>2
<1>3. UNCHANGED <<server, call, sent, told, origin, script, session, hint>>
  BY <1>1 DEF campaignVars, gatewayVars, apart
<1>4. GatewayTyped'
  BY <1>2, <1>3 DEF GatewayTyped, Script
<1>5. Answering'
  BY <1>3 DEF Answering, Dealt, Numbered
<1> QED BY <1>2, <1>3, <1>4, <1>5, GapsGo, ShiftedKeeps

\* The frame that is taken is the first that was not dealt with.
LEMMA TakenFirst ==
    ASSUME Orderly, TakeFrame
    PROVE  /\ Next1 \in Numbered /\ ~Dealt(Next1) /\ MadeBy(Next1) = {}
           /\ \A n \in Numbered : n >= Next1 => ~Dealt(n) /\ MadeBy(n) = {}
           /\ \A m \in Numbered : sent[m].live /\ ~Dealt(m) => m >= Next1
<1> USE DEF Orderly
<1>1. PICK b \in 1 .. Passing :
         /\ \A i \in 1 .. b - 1 : At(i).part = "gap"
         /\ At(b).part = "open" /\ At(b).frame = Next1
  BY TakeShifts DEF TakeFrame
<1>2. b \in Begins
  BY <1>1 DEF Begins
<1>3. Next1 \in Numbered /\ \A n \in Numbered : n >= Next1 => ~Dealt(n) /\ MadeBy(n) = {}
  BY <1>1, <1>2 DEF InFront
<1>4. Len(sent) \in Nat /\ Next1 \in Nat /\ Passing \in Nat
  BY <1>3, PassingParts DEF Numbered
<1>5. ASSUME NEW m \in Numbered, sent[m].live, ~Dealt(m) PROVE m >= Next1
  <2>1. server = "reading" /\ call = 0
    BY DEF TakeFrame, Answering, Busies
  <2>2. PICK i \in Begins : At(i).frame = m
    BY <1>4, <1>5, <2>1 DEF Carried, Running, Numbered
  <2>3. i \in 1 .. Passing /\ ~(i \in 1 .. b - 1)
    BY <1>1, <2>2 DEF Begins
  <2>4. i = b \/ b < i
    BY <1>4, <2>3
  <2> QED BY <1>1, <1>2, <1>4, <2>2, <2>4 DEF Spaced, Numbered
<1> QED BY <1>3, <1>4, <1>5

LEMMA TakeOrderly ==
    ASSUME Orderly, TakeFrame
    PROVE  Orderly'
<1> USE DEF Orderly
<1>1. /\ server = "reading" /\ call = 0 /\ Take
      /\ UNCHANGED <<campaignVars, script, session, sent, hint>>
  BY DEF TakeFrame, Answering, Busies, apart
<1>2. /\ buf' \in Seq(Parts) /\ wire' = wire /\ open' = open
      /\ \E d, b, e \in 1 .. Passing :
            /\ Shifted(d) /\ b <= e /\ e <= d
            /\ \A i \in 1 .. b - 1 : At(i).part = "gap"
            /\ At(b).part = "open" /\ At(b).frame = Next1 /\ At(e).part = "close"
            /\ \A i \in b .. e - 1 : At(i).part # "close"
            /\ \A i \in e + 1 .. d : At(i).part = "gap"
  BY <1>1, TakeShifts
<1>3. PICK d \in 1 .. Passing, b \in 1 .. Passing, e \in 1 .. Passing :
         /\ Shifted(d) /\ b <= e /\ e <= d
         /\ \A i \in 1 .. b - 1 : At(i).part = "gap"
         /\ At(b).part = "open" /\ At(b).frame = Next1 /\ At(e).part = "close"
         /\ \A i \in b .. e - 1 : At(i).part # "close"
         /\ \A i \in e + 1 .. d : At(i).part = "gap"
  BY <1>2
<1>4. /\ Passing \in Nat /\ Len(sent) \in Nat
      /\ \A i \in 1 .. Passing - d : At(i)' = At(i + d)
  BY <1>3, PassingParts DEF Shifted
<1>5. b \in Begins
  BY <1>3 DEF Begins
<1>6. PICK x \in Numbered : x = Next1 /\ ~Dealt(x)
  BY TakenFirst
<1>7. \/ call' = x /\ server' = "handling" /\ told' = told
      \/ call' = 0 /\ server' = "reading" /\ told' = [told EXCEPT ![x] = "silent"]
      \/ call' = 0 /\ server' = "failed" /\ told' = told
  BY <1>1, <1>6 DEF TakeFrame
<1>8. x \in Frames /\ x # 0
  <2>1. Len(sent) <= Len(Script) /\ Len(Script) <= MaxFrames /\ Len(Script) \in Nat
    BY ScriptFacts DEF GatewayTyped
  <2> QED BY <1>4, <2>1, GatewayAssumption DEF Frames, Numbered
<1>9. /\ told' \in [Frames -> Answers \cup {"none", "silent"}]
      /\ \A n \in Frames : n # x => told'[n] = told[n]
  BY <1>7, <1>8 DEF GatewayTyped
<1>10. GatewayTyped'
  <2>1. wire' \in Seq(Parts) /\ buf' \in Seq(Parts)
    BY <1>2 DEF GatewayTyped
  <2>2. server' \in Busies \cup {"reading", "ended", "failed", "dead"}
    BY <1>7 DEF Busies
  <2> QED BY <1>1, <1>9, <2>1, <2>2 DEF GatewayTyped, Script
<1>11. Answering'
  <2>1. \A n \in Frames : Dealt(n)' => n \in Numbered'
    BY <1>1, <1>6, <1>9 DEF Answering, Dealt, Numbered
  <2>2. IF server' \in Busies THEN call' \in Numbered' /\ ~Dealt(call)' ELSE call' = 0
    BY <1>1, <1>6, <1>7 DEF Busies, Numbered, Dealt
  <2> QED BY <2>1, <2>2 DEF Answering
<1>12. ASSUME NEW i \in Begins'
       PROVE  /\ At(i)'.frame \in Numbered'
              /\ \A n \in Numbered' : n >= At(i)'.frame =>
                     ~Dealt(n)' /\ call' # n /\ MadeBy(n)' = {}
  <2>1. i \in 1 .. Passing - d /\ i + d \in Begins /\ At(i)' = At(i + d)
    BY <1>3, <1>4, <1>12, ShiftedBegins
  <2>2. b < i + d
    BY <1>3, <1>4, <2>1
  <2>3. x < At(i + d).frame /\ At(i + d).frame \in Numbered
    BY <1>3, <1>5, <1>6, <2>1, <2>2 DEF Spaced, InFront
  <2>4. ASSUME NEW n \in Numbered, n >= At(i + d).frame
        PROVE  ~Dealt(n)' /\ call' # n /\ MadeBy(n)' = {}
    <3>1. n # x /\ n # 0
      BY <1>4, <1>6, <2>3, <2>4 DEF Numbered
    <3>2. ~Dealt(n) /\ MadeBy(n) = {}
      BY <2>1, <2>4 DEF InFront
    <3>3. n \in Frames
      <4>1. Len(sent) <= Len(Script) /\ Len(Script) <= MaxFrames /\ Len(Script) \in Nat
        BY ScriptFacts DEF GatewayTyped
      <4> QED BY <1>4, <4>1, GatewayAssumption DEF Frames, Numbered
    <3>4. origin' = origin
      BY <1>1 DEF campaignVars
    <3> QED BY <1>7, <1>9, <3>1, <3>2, <3>3, <3>4, MadeSame DEF Dealt
  <2>5. Numbered' = Numbered
    BY <1>1 DEF Numbered
  <2> QED BY <2>1, <2>3, <2>4, <2>5
<1>13. ASSUME Running', NEW n \in Numbered', sent'[n].live, ~Dealt(n)', call' # n
       PROVE  \E i \in Begins' : At(i)'.frame = n
  <2>1. n \in Numbered /\ sent[n].live /\ n # 0 /\ n \in Frames
    <3>1. Len(sent) <= Len(Script) /\ Len(Script) <= MaxFrames /\ Len(Script) \in Nat
      BY ScriptFacts DEF GatewayTyped
    <3>2. n \in Numbered /\ sent[n].live
      BY <1>1, <1>13 DEF Numbered
    <3> QED BY <1>4, <3>1, <3>2, GatewayAssumption DEF Frames, Numbered
  <2>2. n # x
    <3>1. CASE call' = x
      BY <1>13, <3>1
    <3>2. CASE told' = [told EXCEPT ![x] = "silent"]
      BY <1>8, <1>13, <3>2 DEF Dealt, GatewayTyped
    <3>3. CASE server' = "failed"
      BY <1>13, <3>3 DEF Running
    <3> QED BY <1>7, <3>1, <3>2, <3>3
  <2>3. ~Dealt(n)
    BY <1>9, <1>13, <2>1, <2>2 DEF Dealt
  <2>4. PICK i \in Begins : At(i).frame = n
    BY <1>1, <2>1, <2>3 DEF Carried, Running
  <2>5. i \in 1 .. Passing /\ At(i).part = "open" /\ i # b
    BY <1>3, <1>6, <2>2, <2>4 DEF Begins
  <2>6. ~(i \in 1 .. b - 1) /\ ~(i \in e + 1 .. d) /\ i # e
    BY <1>3, <2>5
  <2>7. ~(i \in b + 1 .. e - 1)
    <3>1. SUFFICES ASSUME i \in b + 1 .. e - 1 PROVE FALSE
      OBVIOUS
    <3>2. b < i /\ \A c \in b .. i : c \in b .. e - 1
      BY <1>4, <3>1
    <3>3. \E c \in b .. i : At(c).part = "close"
      BY <1>5, <2>4, <3>2 DEF Spaced
    <3> QED BY <1>3, <3>2, <3>3
  <2>8. PICK j \in 1 .. Passing - d : j + d = i
    <3>1. i - d \in 1 .. Passing - d /\ (i - d) + d = i
      BY <1>3, <1>4, <2>5, <2>6, <2>7
    <3> QED BY <3>1
  <2>9. j \in Begins' /\ At(j)' = At(i)
    BY <1>3, <1>4, <2>4, <2>8, ShiftedBegins
  <2> QED BY <2>4, <2>9
<1>14. InFront' /\ Carried'
  BY <1>12, <1>13 DEF InFront, Carried
<1> QED BY <1>2, <1>3, <1>10, <1>11, <1>14, ShiftedKeeps

\* A step that reads and writes nothing only touches the frame at hand.
LEMMA AtHandOnly ==
    ASSUME GatewayTyped, Answering, InFront, Carried, UNCHANGED framing,
           script' = script, sent' = sent, NEW x, x = call, call' = x \/ call' = 0,
           \/ told' = told
           \/ x \in Frames /\ \E v \in Answers \cup {"silent"} : told' = [told EXCEPT ![x] = v],
           \A n \in Numbered : n # x => MadeBy(n)' = MadeBy(n),
           Running' => Running /\ (call' = x \/ told' # told)
    PROVE  /\ told' \in [Frames -> Answers \cup {"none", "silent"}]
           /\ \A n \in Frames : n # x => told'[n] = told[n]
           /\ told' # told => told'[x] # "none"
           /\ InFront' /\ Carried'
<1>1. /\ told' \in [Frames -> Answers \cup {"none", "silent"}]
      /\ \A n \in Frames : n # x => told'[n] = told[n]
  BY DEF GatewayTyped
<1>2. told' # told => told'[x] # "none"
  BY DEF GatewayTyped, Answers
<1>3. /\ Begins' = Begins /\ \A i : At(i)' = At(i)
  BY SameStream
<1>4. Numbered' = Numbered /\ Numbered \subseteq Frames /\ 0 \notin Numbered
  <2>1. /\ Len(sent) <= Len(Script) /\ Len(Script) <= MaxFrames /\ Len(Script) \in Nat
        /\ Len(sent) \in Nat
    BY ScriptFacts, PassingParts DEF GatewayTyped
  <2> QED BY <2>1, GatewayAssumption DEF Frames, Numbered
<1>5. ASSUME NEW i \in Begins, NEW n \in Numbered, n >= At(i).frame
      PROVE  ~Dealt(n)' /\ call' # n /\ MadeBy(n)' = {}
  <2>1. ~Dealt(n) /\ n # x /\ MadeBy(n) = {}
    BY <1>5 DEF InFront
  <2> QED BY <1>1, <1>4, <2>1 DEF Dealt
<1>6. InFront'
  BY <1>3, <1>4, <1>5 DEF InFront
<1>7. ASSUME Running', NEW n \in Numbered, sent[n].live, ~Dealt(n)', call' # n
      PROVE  \E i \in Begins : At(i).frame = n
  <2>1. n # x /\ ~Dealt(n)
    BY <1>1, <1>2, <1>4, <1>7 DEF Dealt
  <2> QED BY <1>7, <2>1 DEF Carried
<1>8. Carried'
  BY <1>3, <1>4, <1>7 DEF Carried
<1> QED BY <1>1, <1>2, <1>6, <1>8

LEMMA StepMade ==
    ASSUME GatewayTyped, Answering, CampaignInv, Accounted, Shape, NEW n \in Numbered, n # call
    PROVE  MadeBy(n)' = MadeBy(n)
<1>1. n \in Nat /\ n # 0
  BY PassingParts DEF Numbered
<1>2. PICK x : x = call
  OBVIOUS
<1>3. origin' = origin \/ MakesFor(x)
  BY <1>2, ServerMakes
<1> QED BY <1>1, <1>2, <1>3, MadeAfter, MadeSame

LEMMA HandleOrderly ==
    ASSUME Orderly, CampaignInv, Accounted, Handles
    PROVE  Orderly'
<1> USE DEF Orderly
<1>1. Shape /\ hint' \in Hints /\ DOMAIN session' = {"version", "initialized"}
  BY Handling DEF CampaignInv
<1>2. PICK x : x = call
  OBVIOUS
<1>3. x \in Numbered /\ x \in Frames /\ ~Dealt(x) /\ server \in Busies
  BY <1>1, <1>2, AtHand DEF Shape, Answering
<1>4. /\ UNCHANGED framing /\ script' = script /\ sent' = sent /\ Running
      /\ \/ call' = x /\ told' = told /\ server' \in {"submitting", "drafted"}
         \/ /\ call' = 0 /\ server' = "reading"
            /\ \E v \in Answers \cup {"silent"} : told' = [told EXCEPT ![x] = v]
  BY <1>1, <1>2 DEF Shape, GoesOn, Done, Answer, Running, Busies
<1>5. told' # told \/ call' = x
  BY <1>3, <1>4 DEF GatewayTyped, Dealt, Answers
<1>6. \A n \in Numbered : n # x => MadeBy(n)' = MadeBy(n)
  BY <1>1, <1>2, StepMade
<1>7. /\ told' \in [Frames -> Answers \cup {"none", "silent"}]
      /\ \A n \in Frames : n # x => told'[n] = told[n]
      /\ InFront' /\ Carried'
  BY <1>2, <1>3, <1>4, <1>5, <1>6, AtHandOnly
<1>8. GatewayTyped'
  BY <1>1, <1>4, <1>7 DEF GatewayTyped, Script, framing, Busies
<1>9. Answering'
  <2>1. Numbered' = Numbered
    BY <1>4 DEF Numbered
  <2>2. \A n \in Frames : Dealt(n)' => n \in Numbered'
    BY <1>3, <1>7, <2>1 DEF Answering, Dealt
  <2>3. IF server' \in Busies THEN call' \in Numbered' /\ ~Dealt(call)' ELSE call' = 0
    BY <1>3, <1>4, <2>1 DEF Busies, Dealt
  <2> QED BY <2>2, <2>3 DEF Answering
<1> QED BY <1>4, <1>7, <1>8, <1>9, SameStream

LEMMA OverOrderly ==
    ASSUME Orderly, Stop \/ Die
    PROVE  Orderly'
<1> USE DEF Orderly
<1>1. /\ UNCHANGED <<framing, script, session, sent, told, hint>> /\ call' = 0
      /\ server' \in {"ended", "failed", "dead"} /\ origin' = origin
  <2>1. CASE Stop
    <3>1. call = 0
      BY <2>1 DEF Stop, Answering, Busies
    <3> QED BY <2>1, <3>1 DEF Stop, apart, campaignVars
  <2>2. CASE Die
    <3>1. origin' = origin
      BY <2>2 DEF Die, campaignVars, WriteClaimFails, LoseCheckpoint
    <3> QED BY <2>2, <3>1 DEF Die, apart
  <2> QED BY <2>1, <2>2
<1>2. PICK x : x = call
  OBVIOUS
<1>3. ~Running'
  BY <1>1 DEF Running
<1>4. InFront' /\ Carried'
  BY <1>1, <1>2, <1>3, MadeSame, AtHandOnly
<1>5. GatewayTyped'
  BY <1>1 DEF GatewayTyped, Script, framing
<1>6. Answering'
  BY <1>1 DEF Answering, Dealt, Numbered, Busies
<1> QED BY <1>1, <1>4, <1>5, <1>6, SameStream

\* What other processes and the owner do, the server and the client do not see.
LEMMA OtherMade ==
    ASSUME CampaignInv, Accounted, Elsewhere, OtherMoves
    PROVE  origin' = origin \/ MakesFor(0)
<1>1. Other \in Clients
  BY GatewayAssumption
<1>2. CASE OtherWrites
  BY <1>1, <1>2, WritesMake DEF OtherWrites, Accounted
<1>3. CASE OtherBegins \/ OtherSubmits \/ OtherEnds \/ OtherFinishes \/ OwnerEdits
  BY <1>3, OthersKeepOrigin
     DEF OtherBegins, OtherSubmits, OtherEnds, OtherFinishes, OwnerEdits
<1> QED BY <1>2, <1>3 DEF OtherMoves

LEMMA ApartOrderly ==
    ASSUME Orderly, CampaignInv, Accounted, Moves \/ (Elsewhere /\ OtherMoves)
    PROVE  Orderly'
<1> USE DEF Orderly
<1>1. UNCHANGED <<framing, script, session, server, call, sent, told, hint>>
  BY DEF Moves, Elsewhere, apart
<1>2. origin' = origin \/ MakesFor(0)
  BY OtherMade DEF Moves, campaignVars
<1>3. ASSUME NEW n \in Numbered PROVE MadeBy(n)' = MadeBy(n)
  <2>1. n \in Nat /\ n # 0
    BY <1>3, PassingParts DEF Numbered
  <2> QED BY <1>2, <2>1, MadeAfter, MadeSame
<1>4. PICK x : x = call
  OBVIOUS
<1>5. InFront' /\ Carried'
  BY <1>1, <1>3, <1>4, AtHandOnly DEF Running
<1>6. GatewayTyped'
  BY <1>1 DEF GatewayTyped, Script, framing
<1>7. Answering'
  BY <1>1 DEF Answering, Dealt, Numbered, Busies
<1> QED BY <1>1, <1>5, <1>6, <1>7, SameStream

\* A frame that is sent is a new one, for which nothing was done.
LEMMA NewFrame ==
    ASSUME GatewayTyped, Answering, Accounted, More
    PROVE  LET n == Len(sent) + 1
           IN  n \in Frames /\ n \notin Numbered /\ told[n] = "none" /\ call # n /\ MadeBy(n) = {}
<1>1. /\ Len(sent) < Len(Script) /\ Len(Script) <= MaxFrames /\ Len(Script) \in Nat
      /\ Len(sent) \in Nat
  BY ScriptFacts, PassingParts DEF GatewayTyped, More
<1>2. Len(sent) + 1 \in Frames /\ Len(sent) + 1 \notin Numbered
  BY <1>1, GatewayAssumption DEF Frames, Numbered
<1>3. told[Len(sent) + 1] = "none"
  BY <1>2 DEF Answering, Dealt
<1>4. call # Len(sent) + 1
  BY <1>1, <1>2 DEF Answering
<1>5. MadeBy(Len(sent) + 1) = {}
  BY <1>1 DEF Accounted, MadeBy
<1> QED BY <1>2, <1>3, <1>4, <1>5

LEMMA SentOrderly ==
    ASSUME Orderly, Accounted, NEW p, p # <<>>, Wrote(p), More,
           \E live \in BOOLEAN : sent' = Append(sent, [live |-> live, hint |-> hint]),
           UNCHANGED <<script, session, server, call, told, hint, origin>>
    PROVE  Orderly'
<1> USE DEF Orderly
<1>1. PICK n : n = Len(sent) + 1
  OBVIOUS
<1>2. /\ n \in Frames /\ n \notin Numbered /\ told[n] = "none" /\ call # n /\ MadeBy(n) = {}
  BY <1>1, NewFrame
<1>3. PICK live \in BOOLEAN : sent' = Append(sent, [live |-> live, hint |-> hint])
  OBVIOUS
<1>4. /\ Len(sent) \in Nat /\ Len(sent') = n /\ sent'[n].live = live
      /\ \A m \in Numbered : sent'[m] = sent[m]
      /\ sent' \in Seq([live : BOOLEAN, hint : Hints])
  <2>1. PICK S : S = [live : BOOLEAN, hint : Hints]
    OBVIOUS
  <2>2. sent \in Seq(S) /\ hint \in Hints
    BY <2>1 DEF GatewayTyped
  <2>3. PICK e \in S : e = [live |-> live, hint |-> hint] /\ e.live = live
    <3>1. [live |-> live, hint |-> hint] \in S
      BY <2>1, <2>2, Zenon
    <3>2. [live |-> live, hint |-> hint].live = live
      BY Zenon
    <3> QED BY <3>1, <3>2, Zenon
  <2>4. sent' = Append(sent, e) /\ Len(sent) \in Nat
    BY <1>3, <2>2, <2>3
  <2>5. /\ sent' \in Seq(S) /\ Len(sent') = Len(sent) + 1 /\ sent'[Len(sent) + 1] = e
        /\ \A m \in 1 .. Len(sent) : sent'[m] = sent[m]
    BY <2>2, <2>4
  <2>6. Len(sent') = n /\ sent'[n] = e
    BY <1>1, <2>5
  <2>7. \A m \in Numbered : sent'[m] = sent[m]
    BY <2>5 DEF Numbered
  <2> QED BY <2>1, <2>3, <2>4, <2>5, <2>6, <2>7
<1>5. Numbered' = Numbered \cup {n}
  BY <1>1, <1>4 DEF Numbered
<1>6. /\ Len(p) \in Nat /\ Passing \in Nat /\ Passing' = Passing + Len(p) /\ wire' \in Seq(Parts)
      /\ \A i \in 1 .. Passing : At(i)' = At(i)
      /\ \A i \in Passing + 1 .. Passing + Len(p) : At(i)' = p[i - Passing]
  BY WroteExtends, PassingParts
<1>7. GatewayTyped'
  <2>1. Len(sent') <= Len(Script')
    <3>1. Len(sent) < Len(Script) /\ Len(Script) \in Nat
      BY ScriptFacts DEF More, GatewayTyped
    <3> QED BY <1>1, <1>4, <3>1 DEF Script
  <2>2. buf' \in Seq(Parts)
    BY DEF Wrote, GatewayTyped
  <2> QED BY <1>4, <1>6, <2>1, <2>2 DEF GatewayTyped
<1>8. Answering'
  BY <1>5 DEF Answering, Dealt
<1>9. ASSUME NEW i \in Begins'
      PROVE  /\ At(i)'.frame \in Numbered'
             /\ \A m \in Numbered' : m >= At(i)'.frame =>
                    ~Dealt(m)' /\ call' # m /\ MadeBy(m)' = {}
  <2>1. ~Dealt(n)' /\ call' # n /\ MadeBy(n)' = {}
    BY <1>2, MadeSame DEF Dealt
  <2>2. CASE i \in Begins /\ At(i)' = At(i)
    <3>1. \A m \in Numbered : m >= At(i).frame => ~Dealt(m)' /\ call' # m /\ MadeBy(m)' = {}
      BY <2>2, MadeSame DEF InFront, Dealt
    <3>2. At(i).frame \in Numbered
      BY <2>2 DEF InFront
    <3> QED BY <1>5, <2>1, <2>2, <3>1, <3>2
  <2>3. CASE At(i)' = Part("open", Len(sent) + 1)
    <3>1. At(i)'.frame = n
      BY <1>1, <2>3 DEF Part
    <3>2. \A m \in Numbered' : m >= n => m = n
      BY <1>1, <1>4 DEF Numbered
    <3> QED BY <1>5, <2>1, <3>1, <3>2
  <2> QED BY <2>2, <2>3, WroteBegins
<1>10. ASSUME Running', NEW m \in Numbered', sent'[m].live, ~Dealt(m)', call' # m
       PROVE  \E i \in Begins' : At(i)'.frame = m
  <2>1. CASE m \in Numbered
    <3>1. PICK i \in Begins : At(i).frame = m
      BY <1>4, <1>10, <2>1 DEF Carried, Running, Dealt
    <3>2. i \in 1 .. Passing /\ i \in 1 .. Passing' /\ At(i)' = At(i)
      BY <1>6, <3>1 DEF Begins
    <3>3. i \in Begins'
      BY <3>1, <3>2 DEF Begins
    <3> QED BY <3>1, <3>2, <3>3
  <2>2. CASE m = n
    <3>1. Len(p) >= 1
      <4>1. p \in Seq(Parts)
        BY DEF Wrote
      <4> HIDE DEF Parts
      <4> QED BY <4>1
    <3>2. PICK i \in Passing + 1 .. Passing + Len(p) : i = Passing + 1
      BY <1>6, <3>1
    <3>3. At(i)' = p[i - Passing] /\ i - Passing = 1
      BY <1>6, <3>2
    <3>4. At(i)' = Part("open", n)
      BY <1>1, <3>3 DEF Wrote
    <3>5. At(i)'.frame = m /\ At(i)'.part = "open"
      BY <2>2, <3>4 DEF Part
    <3>6. i \in 1 .. Passing'
      BY <1>6, <3>2
    <3> QED BY <3>5, <3>6 DEF Begins
  <2> QED BY <1>5, <2>1, <2>2
<1>11. InFront' /\ Carried'
  BY <1>9, <1>10 DEF InFront, Carried
<1> QED BY <1>7, <1>8, <1>11, WroteKeeps

LEMMA ClosedOrderly ==
    ASSUME Orderly, Wrote(<<>>),
           UNCHANGED <<script, session, server, call, sent, told, hint, origin>>
    PROVE  Orderly'
<1> USE DEF Orderly
<1>1. PICK p : p = <<>>
  OBVIOUS
<1>2. Wrote(p) /\ Len(p) = 0
  BY <1>1
<1>3. /\ Passing \in Nat /\ Passing' = Passing + Len(p) /\ wire' \in Seq(Parts)
      /\ \A i \in 1 .. Passing : At(i)' = At(i)
  BY <1>2, WroteExtends, PassingParts
<1>4. Begins' = Begins
  BY <1>2, <1>3 DEF Begins
<1>5. \A i \in Begins : At(i)' = At(i)
  BY <1>3 DEF Begins
<1>6. GatewayTyped'
  BY <1>2, <1>3 DEF GatewayTyped, Wrote, Script
<1>7. Answering'
  BY DEF Answering, Dealt, Numbered
<1>8. InFront'
  BY <1>4, <1>5, MadeSame DEF InFront, Dealt, Numbered
<1>9. Carried'
  BY <1>4, <1>5 DEF Carried, Running, Dealt, Numbered
<1> QED BY <1>2, <1>6, <1>7, <1>8, <1>9, WroteKeeps

LEMMA ClientOrderly ==
    ASSUME Orderly, Accounted, Send \/ Hangs
    PROVE  Orderly'
<1>1. UNCHANGED <<script, session, server, call, told, hint, origin>>
  BY DEF Send, Hangs, apart, campaignVars
<1>2. GatewayTyped
  BY DEF Orderly
<1>3. CASE Send
  <2>1. PICK p : p # <<>> /\ Wrote(p)
    BY <1>2, <1>3, SendWrites
  <2>2. More /\ \E live \in BOOLEAN : sent' = Append(sent, [live |-> live, hint |-> hint])
    BY <1>3 DEF Send
  <2> QED BY <1>1, <2>1, <2>2, SentOrderly
<1>4. CASE Hangs
  <2>1. CASE Wrote(<<>>) /\ sent' = sent
    BY <1>1, <2>1, ClosedOrderly
  <2>2. CASE \E p : p # <<>> /\ Wrote(p) /\ More /\
                \E live \in BOOLEAN : sent' = Append(sent, [live |-> live, hint |-> hint])
    <3>1. PICK p : p # <<>> /\ Wrote(p) /\ More /\
                \E live \in BOOLEAN : sent' = Append(sent, [live |-> live, hint |-> hint])
      BY <2>2
    <3> QED BY <1>1, <3>1, SentOrderly
  <2> QED BY <1>2, <1>4, <2>1, <2>2, HangWrites
<1> QED BY <1>3, <1>4

\* A new session begins with nothing on its way.
LEMMA ReconnectOrderly ==
    ASSUME Orderly, Reconnect
    PROVE  /\ Orderly' /\ \A n \in Numbered' : ~sent'[n].live
           /\ Numbered' = Numbered /\ \A n \in Numbered : sent'[n].hint = sent[n].hint
<1> USE DEF Orderly
<1>1. /\ wire' = <<>> /\ buf' = <<>> /\ session' = NoSession /\ server' = "reading" /\ call' = 0
      /\ UNCHANGED <<script, told, hint>>
      /\ sent' = [n \in Numbered |-> [sent[n] EXCEPT !.live = FALSE]]
  BY DEF Reconnect, apart
<1>2. /\ sent' \in Seq([live : BOOLEAN, hint : Hints]) /\ Len(sent') = Len(sent)
      /\ \A n \in Numbered : ~sent'[n].live /\ sent'[n].hint = sent[n].hint
  <2>1. sent \in Seq([live : BOOLEAN, hint : Hints]) /\ Len(sent) \in Nat
    BY PassingParts DEF GatewayTyped
  <2>2. PICK k \in Nat : k = Len(sent)
    BY <2>1
  <2>3. \A n \in 1 .. k : sent[n] \in [live : BOOLEAN, hint : Hints]
    <3>1. PICK S : S = [live : BOOLEAN, hint : Hints]
      OBVIOUS
    <3>2. sent \in Seq(S)
      BY <2>1, <3>1
    <3>3. \A n \in 1 .. k : sent[n] \in S
      BY <2>2, <3>2
    <3> QED BY <3>1, <3>3
  <2>4. \A n \in 1 .. k : /\ [sent[n] EXCEPT !.live = FALSE] \in [live : BOOLEAN, hint : Hints]
                          /\ ~[sent[n] EXCEPT !.live = FALSE].live
                          /\ [sent[n] EXCEPT !.live = FALSE].hint = sent[n].hint
    <3>1. ASSUME NEW x \in [live : BOOLEAN, hint : Hints]
          PROVE  /\ [x EXCEPT !.live = FALSE] \in [live : BOOLEAN, hint : Hints]
                 /\ ~[x EXCEPT !.live = FALSE].live
                 /\ [x EXCEPT !.live = FALSE].hint = x.hint
      BY Zenon
    <3> QED BY <2>3, <3>1, Zenon
  <2>5. sent' = [n \in 1 .. k |-> [sent[n] EXCEPT !.live = FALSE]]
    BY <1>1, <2>2 DEF Numbered
  <2> DEFINE e(n) == [sent[n] EXCEPT !.live = FALSE]  S == [live : BOOLEAN, hint : Hints]
  <2>6. (\A n \in 1 .. k : e(n) \in S) /\ sent' = [n \in 1 .. k |-> e(n)]
    BY <2>4, <2>5
  <2> HIDE DEF e, S
  <2>7. sent' \in Seq(S) /\ Len(sent') = k /\ \A n \in 1 .. k : sent'[n] = e(n)
    BY <2>6
  <2>8. \A n \in 1 .. k : ~e(n).live /\ e(n).hint = sent[n].hint
    BY <2>4 DEF e
  <2>9. \A n \in 1 .. k : ~sent'[n].live /\ sent'[n].hint = sent[n].hint
    BY <2>7, <2>8, Zenon
  <2>10. Numbered = 1 .. k
    BY <2>2 DEF Numbered
  <2> QED BY <2>2, <2>7, <2>9, <2>10 DEF S
<1>3. Numbered' = Numbered
  BY <1>2 DEF Numbered
<1>4. Passing' = 0
  BY <1>1 DEF Passing
<1>5. Begins' = {}
  BY <1>4 DEF Begins
<1>6. GatewayTyped'
  <2>1. DOMAIN session' = {"version", "initialized"}
    BY <1>1 DEF NoSession
  <2>2. buf' \in Seq(Parts) /\ wire' \in Seq(Parts)
    BY <1>1
  <2>3. Script' = Script /\ Len(sent') <= Len(Script')
    BY <1>1, <1>2 DEF GatewayTyped, Script
  <2> QED BY <1>1, <1>2, <2>1, <2>2, <2>3 DEF GatewayTyped
<1>7. Answering'
  BY <1>1, <1>3 DEF Answering, Dealt, Busies
<1>8. InFront' /\ Spaced' /\ Finished'
  BY <1>5 DEF InFront, Spaced, Finished
<1>9. Carried'
  BY <1>2, <1>3 DEF Carried
<1> QED BY <1>2, <1>3, <1>6, <1>7, <1>8, <1>9

LEMMA OrderlyStep ==
    ASSUME Orderly, CampaignInv, Accounted, [Next]_vars
    PROVE  Orderly'
<1>1. CASE UNCHANGED vars
  <2>1. UNCHANGED <<framing, script, session, server, call, sent, told, hint, origin>>
    BY <1>1 DEF vars, gatewayVars, campaignVars, apart
  <2>2. Begins' = Begins /\ \A i : At(i)' = At(i)
    BY <2>1, SameStream
  <2>3. GatewayTyped' /\ Answering'
    BY <2>1 DEF Orderly, GatewayTyped, Script, framing, Answering, Dealt, Numbered
  <2>4. InFront'
    BY <2>1, <2>2, MadeSame DEF Orderly, InFront, Dealt, Numbered
  <2>5. Carried'
    BY <2>1, <2>2 DEF Orderly, Carried, Running, Dealt, Numbered
  <2> QED BY <2>1, <2>3, <2>4, <2>5, SameStream DEF Orderly
<1>2. CASE Next
  BY <1>2, StepKinds, ReadOrderly, TakeOrderly, HandleOrderly, OverOrderly, ApartOrderly,
     ClientOrderly, ReconnectOrderly
<1> QED BY <1>1, <1>2

-----------------------------------------------------------------------------
(* What a step does to the frames *)

LEMMA FramesAre ==
    ASSUME GatewayTyped
    PROVE  Numbered \subseteq Frames /\ 0 \notin Numbered /\ Numbered \subseteq 1 .. Len(Script)
<1>1. /\ Len(sent) <= Len(Script) /\ Len(Script) <= MaxFrames /\ Len(Script) \in Nat
      /\ Len(sent) \in Nat
  BY ScriptFacts, PassingParts DEF GatewayTyped
<1> QED BY <1>1, GatewayAssumption DEF Frames, Numbered

LEMMA HandleShape ==
    ASSUME Orderly, CampaignInv, Accounted, Handles
    PROVE  Shape
BY Handling DEF Orderly, CampaignInv

\* A frame stays what it was, and a session that is over is not resumed.
LEMMA SentKept ==
    ASSUME Orderly, CampaignInv, Accounted, [Next]_vars
    PROVE  /\ script' = script /\ Numbered \subseteq Numbered'
           /\ \A n \in Numbered : /\ sent'[n].live => sent[n].live
                                  /\ Req(n)' = Req(n)
<1>0. GatewayTyped
  BY DEF Orderly
<1>1. ASSUME script' = script, Numbered \subseteq Numbered',
             \A n \in Numbered : sent'[n].hint = sent[n].hint /\ (sent'[n].live => sent[n].live)
      PROVE  /\ script' = script /\ Numbered \subseteq Numbered'
             /\ \A n \in Numbered : /\ sent'[n].live => sent[n].live
                                    /\ Req(n)' = Req(n)
  <2>1. ASSUME NEW n \in Numbered PROVE Req(n)' = Req(n)
    <3>1. PICK h : h = sent[n].hint
      OBVIOUS
    <3>2. sent'[n].hint = h /\ Script' = Script
      BY <1>1, <2>1, <3>1 DEF Script
    <3> QED BY <3>1, <3>2 DEF Req
  <2> QED BY <1>1, <2>1
<1>2. CASE script' = script /\ sent' = sent
  BY <1>1, <1>2 DEF Numbered
<1>3. ASSUME script' = script, NEW live, sent' = Append(sent, [live |-> live, hint |-> hint])
      PROVE  Numbered \subseteq Numbered' /\ \A n \in Numbered : sent'[n] = sent[n]
  <2>1. PICK S : sent \in Seq(S)
    BY <1>0 DEF GatewayTyped
  <2>2. PICK e : e = [live |-> live, hint |-> hint]
    OBVIOUS
  <2>3. sent' = Append(sent, e)
    BY <1>3, <2>2
  <2>4. /\ Len(sent) \in Nat /\ Len(sent') = Len(sent) + 1
        /\ \A n \in 1 .. Len(sent) : sent'[n] = sent[n]
    BY <2>1, <2>3
  <2> QED BY <2>4 DEF Numbered
<1>4. CASE Send \/ Hangs
  <2>1. script' = script /\
        (sent' = sent \/ \E live : sent' = Append(sent, [live |-> live, hint |-> hint]))
    BY <1>4 DEF Send, Hangs, apart
  <2> QED BY <1>1, <1>2, <1>3, <2>1
<1>5. CASE Reconnect
  <2>1. script' = script
    BY <1>5 DEF Reconnect, apart
  <2> QED BY <1>1, <1>5, <2>1, ReconnectOrderly
<1>6. CASE Handles
  <2>1. Shape
    BY <1>6, HandleShape
  <2> QED BY <1>2, <2>1 DEF Shape
<1>7. CASE UNCHANGED vars
  BY <1>2, <1>7 DEF vars, gatewayVars, apart
<1>8. CASE Moves \/ (\E n \in 1 .. Chunk : ReadSome(n)) \/ ReadEnd \/ TakeFrame \/ Stop \/ Die
           \/ (Elsewhere /\ OtherMoves)
  <2>1. script' = script /\ sent' = sent
    BY <1>8 DEF Moves, ReadSome, ReadEnd, TakeFrame, Stop, Die, Elsewhere, gatewayVars, apart
  <2> QED BY <1>2, <2>1
<1> QED BY <1>4, <1>5, <1>6, <1>7, <1>8, StepKinds

\* An answer is given once, by the step that ends the work on the frame.
LEMMA ToldOnce ==
    ASSUME Orderly, CampaignInv, Accounted, [Next]_vars
    PROVE  \A n \in Frames :
              \/ told'[n] = told[n]
              \/ /\ ~Dealt(n) /\ told'[n] = "silent" /\ n \in Numbered
                 /\ n = call \/ (TakeFrame /\ n = Next1)
              \/ /\ Handles /\ n = call /\ n \in Numbered /\ ~Dealt(n) /\ Script[n].id
                 /\ server \in Busies /\ Ends(told'[n]) /\ Done(told'[n])
<1> USE DEF Orderly
<1>1. ASSUME told' = told PROVE \A n \in Frames : told'[n] = told[n]
  BY <1>1
<1>2. CASE TakeFrame
  <2>1. told' = told \/ told' = [told EXCEPT ![Next1] = "silent"]
    BY <1>2 DEF TakeFrame
  <2>2. PICK x : x = Next1
    OBVIOUS
  <2>3. x \in Numbered /\ ~Dealt(x)
    BY <1>2, <2>2, TakenFirst
  <2>4. \A n \in Frames : told'[n] = told[n] \/ (n = x /\ told'[n] = "silent")
    BY <2>1, <2>2 DEF GatewayTyped
  <2> QED BY <1>2, <2>2, <2>3, <2>4
<1>3. CASE Handles
  <2>1. Shape
    BY <1>3, HandleShape
  <2>2. CASE GoesOn
    BY <1>1, <2>2 DEF GoesOn
  <2>3. ASSUME NEW what \in Answers, Done(what), Ends(what), NEW n \in Frames, told'[n] # told[n]
        PROVE  \/ ~Dealt(n) /\ told'[n] = "silent" /\ n \in Numbered /\ n = call
               \/ /\ Handles /\ n = call /\ n \in Numbered /\ ~Dealt(n) /\ Script[n].id
                  /\ server \in Busies /\ Ends(told'[n]) /\ Done(told'[n])
    <3>1. /\ told' = [told EXCEPT ![call] = IF Script[call].id THEN what ELSE "silent"]
          /\ call \in Numbered /\ call \in Frames /\ ~Dealt(call) /\ server \in Busies
      BY <2>1, <2>3, DoneIs DEF Shape, Answering
    <3>2. n = call /\ told'[n] = IF Script[n].id THEN what ELSE "silent"
      BY <2>3, <3>1 DEF GatewayTyped
    <3>3. CASE ~Script[n].id
      BY <3>1, <3>2, <3>3
    <3>4. CASE Script[n].id
      <4>1. told'[n] = what
        BY <3>2, <3>4
      <4> QED BY <1>3, <2>3, <3>1, <3>2, <3>4, <4>1
    <3> QED BY <3>3, <3>4
  <2> QED BY <2>1, <2>2, <2>3 DEF Shape
<1>4. CASE UNCHANGED vars \/ Moves \/ (\E n \in 1 .. Chunk : ReadSome(n)) \/ ReadEnd \/ Stop \/ Die
           \/ (Elsewhere /\ OtherMoves) \/ Send \/ Hangs \/ Reconnect
  <2>1. told' = told
    BY <1>4 DEF vars, Moves, ReadSome, ReadEnd, Stop, Die, Elsewhere, Send, Hangs, Reconnect,
                gatewayVars
  <2> QED BY <1>1, <2>1
<1> QED BY <1>2, <1>3, <1>4, StepKinds

-----------------------------------------------------------------------------
(* HandledInOrder *)

\* The server is at work on the frame it took, until it has dealt with it.
LEMMA WorkGoesOn ==
    ASSUME Orderly, CampaignInv, Accounted, [Next]_vars
    PROVE  call' = 0 \/ call' = call \/ (TakeFrame /\ call' = Next1)
<1>1. CASE TakeFrame
  BY <1>1 DEF TakeFrame
<1>2. CASE Handles
  <2>1. Shape
    BY <1>2, HandleShape
  <2> QED BY <2>1 DEF Shape, GoesOn, Done
<1>3. CASE UNCHANGED vars \/ Moves \/ (\E n \in 1 .. Chunk : ReadSome(n)) \/ ReadEnd \/ Stop \/ Die
           \/ (Elsewhere /\ OtherMoves) \/ Send \/ Hangs \/ Reconnect
  BY <1>3 DEF vars, Moves, ReadSome, ReadEnd, Stop, Die, Elsewhere, Send, Hangs, Reconnect,
              gatewayVars
<1> QED BY <1>1, <1>2, <1>3, StepKinds

LEMMA NewFrames ==
    ASSUME Orderly, CampaignInv, Accounted, [Next]_vars
    PROVE  Numbered' \subseteq Frames /\ 0 \notin Numbered'
<1>1. GatewayTyped /\ GatewayTyped'
  BY OrderlyStep DEF Orderly
<1>2. script' = script /\ Script' = Script
  BY SentKept DEF Script
<1>3. Len(sent') \in Nat /\ Len(sent') <= Len(Script')
  BY <1>1 DEF GatewayTyped
<1>4. Len(Script) <= MaxFrames /\ Len(Script) \in Nat
  BY <1>1, ScriptFacts DEF GatewayTyped
<1> QED BY <1>2, <1>3, <1>4, GatewayAssumption DEF Frames, Numbered

\* No step holds more than the limit and one read.
LEMMA BufferKept ==
    ASSUME Orderly, CampaignInv, Accounted, Len(buf) <= MaxBuffer + Chunk, [Next]_vars
    PROVE  Len(buf') <= MaxBuffer + Chunk
<1>0. GatewayTyped /\ Len(buf) \in Nat /\ MaxBuffer + Chunk \in Nat
  BY PassingParts, FramingAssumption DEF Orderly
<1>1. CASE \E n \in 1 .. Chunk : ReadSome(n)
  BY <1>0, <1>1, FillShifts DEF ReadSome
<1>2. CASE ReadEnd \/ TakeFrame
  <2>1. Len(buf') <= Len(buf) /\ buf' \in Seq(Parts)
    BY <1>0, <1>2, FillEofShifts, TakeShifts DEF ReadEnd, TakeFrame
  <2>2. Len(buf') \in Nat
    BY <2>1
  <2> QED BY <1>0, <2>1, <2>2
<1>3. CASE Reconnect
  <2>1. Len(buf') = 0
    BY <1>3 DEF Reconnect
  <2> QED BY <1>0, <2>1
<1>4. CASE Handles
  <2>1. Shape
    BY <1>4, HandleShape
  <2> QED BY <2>1 DEF Shape, framing
<1>5. CASE UNCHANGED vars \/ Moves \/ Stop \/ Die \/ (Elsewhere /\ OtherMoves) \/ Send \/ Hangs
  <2>1. buf' = buf
    BY <1>5 DEF vars, Moves, Stop, Die, Elsewhere, Send, Hangs, framing, Write, Close
  <2> QED BY <2>1
<1> QED BY <1>1, <1>2, <1>3, <1>4, <1>5, StepKinds

AnswerableCall ==
    server \in {"submitting", "drafted"} =>
        Request.id /\ Request.era \in {"legacy", "new"} /\ session.version # "none"

\* A tool only goes to work for a caller that can be answered.
LEMMA AnswerableKept ==
    ASSUME Orderly, CampaignInv, Accounted, AnswerableCall, [Next]_vars
    PROVE  AnswerableCall'
<1>0. GatewayTyped /\ Answering
  BY DEF Orderly
<1>1. ASSUME server' \in {"submitting", "drafted"}, server \in Busies, call' = call
      PROVE  Request' = Request
  <2>1. PICK x : x = call
    OBVIOUS
  <2>2. x \in Numbered
    BY <1>0, <1>1, <2>1 DEF Answering
  <2>3. Req(x)' = Req(x)
    BY <2>2, SentKept
  <2> QED BY <1>1, <2>1, <2>3 DEF Request
<1>2. CASE Handles
  <2>1. Shape
    BY <1>2, HandleShape
  <2>2. CASE GoesOn
    <3>1. Request' = Request
      BY <1>1, <2>1, <2>2 DEF GoesOn, Shape
    <3>2. CASE server = "submitting" /\ session' = session
      BY <3>1, <3>2 DEF AnswerableCall
    <3>3. CASE server = "handling" /\ Calling
      <4>1. /\ Request.id \in BOOLEAN
            /\ Request.era \in {"legacy", "new", "invalid", "unsupported"}
        BY <1>0, <3>3, AtHand DEF Busies
      <4>2. Request.id /\ Request.era \in {"legacy", "new"}
            /\ Enter(session, Request).version # "none"
        BY <1>0, <3>3, <4>1, Admission DEF Calling, GatewayTyped
      <4>3. session' = Enter(session, Request)
        BY <3>3 DEF Calling
      <4> QED BY <3>1, <4>2, <4>3 DEF AnswerableCall
    <3> QED BY <2>2, <3>2, <3>3 DEF GoesOn
  <2>3. CASE \E what : Done(what)
    BY <2>3 DEF Done, AnswerableCall
  <2> QED BY <2>1, <2>2, <2>3 DEF Shape
<1>3. CASE TakeFrame \/ Stop \/ Die \/ Reconnect
  <2>1. server' \notin {"submitting", "drafted"}
    BY <1>3 DEF TakeFrame, Stop, Die, Reconnect
  <2> QED BY <2>1 DEF AnswerableCall
<1>4. CASE UNCHANGED vars \/ Moves \/ (\E n \in 1 .. Chunk : ReadSome(n)) \/ ReadEnd
           \/ (Elsewhere /\ OtherMoves) \/ Send \/ Hangs
  <2>1. server' = server /\ call' = call /\ session' = session
    BY <1>4 DEF vars, Moves, ReadSome, ReadEnd, Elsewhere, Send, Hangs, gatewayVars
  <2> QED BY <1>1, <2>1 DEF AnswerableCall, Busies
<1> QED BY <1>2, <1>3, <1>4, StepKinds

InTurn == \A n \in Numbered : Dealt(n) \/ call = n =>
              \A m \in 1 .. n - 1 : sent[m].live /\ sent[n].live => Dealt(m)

\* The frame that is taken is the next one of the session.
LEMMA InTurnKept ==
    ASSUME Orderly, CampaignInv, Accounted, InTurn, [Next]_vars
    PROVE  InTurn'
<1>0. GatewayTyped /\ Answering /\ Len(sent) \in Nat
  BY PassingParts DEF Orderly
<1>1. Numbered \subseteq Frames /\ 0 \notin Numbered
  BY <1>0, FramesAre
<1>2. /\ Numbered \subseteq Numbered'
      /\ \A n \in Numbered : sent'[n].live => sent[n].live
  BY SentKept
<1>3. ASSUME NEW n \in Numbered', Dealt(n)' \/ call' = n
      PROVE  n \in Numbered /\ (Dealt(n) \/ call = n \/ (TakeFrame /\ n = Next1))
  <2>1. n \in Frames /\ n # 0
    BY <1>3, NewFrames
  <2>2. CASE Dealt(n)'
    <3>1. CASE Dealt(n)
      BY <1>0, <2>1, <3>1 DEF Answering
    <3>2. CASE ~Dealt(n)
      BY <2>1, <2>2, <3>2, ToldOnce DEF Dealt
    <3> QED BY <3>1, <3>2
  <2>3. CASE call' = n
    <3>1. CASE call' = call
      <4>1. call \in Numbered
        BY <1>0, <2>1, <2>3, <3>1 DEF Answering
      <4> QED BY <2>3, <3>1, <4>1
    <3>2. CASE TakeFrame /\ call' = Next1
      BY <2>3, <3>2, TakenFirst
    <3> QED BY <2>1, <2>3, <3>1, <3>2, WorkGoesOn
  <2> QED BY <1>3, <2>2, <2>3
<1>4. ASSUME NEW n \in Numbered', Dealt(n)' \/ call' = n, NEW m \in 1 .. n - 1,
             sent'[m].live, sent'[n].live
      PROVE  Dealt(m)'
  <2>1. n \in Numbered /\ m \in Numbered
    BY <1>0, <1>3, <1>4 DEF Numbered
  <2>2. sent[m].live /\ sent[n].live
    BY <1>2, <1>4, <2>1
  <2>3. Dealt(m)
    <3>1. CASE Dealt(n) \/ call = n
      BY <1>4, <2>1, <2>2, <3>1 DEF InTurn
    <3>2. CASE TakeFrame /\ n = Next1
      <4>1. SUFFICES ASSUME ~Dealt(m) PROVE FALSE
        OBVIOUS
      <4>2. m >= n
        BY <2>1, <2>2, <3>2, <4>1, TakenFirst
      <4>3. n \in Nat
        BY <1>0, <2>1 DEF Numbered
      <4> QED BY <1>4, <4>2, <4>3
    <3> QED BY <1>3, <1>4, <3>1, <3>2
  <2> QED BY <1>1, <2>1, <2>3, ToldOnce DEF Dealt
<1> QED BY <1>4 DEF InTurn

LEMMA OrderKept ==
    ASSUME Orderly, CampaignInv, Accounted, HandledInOrder, [Next]_vars
    PROVE  HandledInOrder'
<1>1. Len(buf') <= MaxBuffer + Chunk
  BY BufferKept DEF HandledInOrder
<1>2. AnswerableCall'
  BY AnswerableKept DEF HandledInOrder, AnswerableCall
<1>3. InTurn'
  BY InTurnKept DEF HandledInOrder, InTurn
<1>4. Orderly' /\ Orderly
  BY OrderlyStep
<1>5. \A n \in Numbered' : Dealt(n)' => call' # n
  <2>1. Answering' /\ Len(sent') \in Nat
    BY <1>4 DEF Orderly, GatewayTyped
  <2> QED BY <2>1 DEF Answering, Numbered
<1>6. ASSUME NEW n \in Numbered', told'[n] \in Answers PROVE Script'[n].id
  <2>1. script' = script /\ Script' = Script
    BY SentKept DEF Script
  <2>2. n \in Frames
    BY <1>4, <1>6, <2>1, NewFrames
  <2>3. CASE told'[n] = told[n]
    <3>1. n \in Numbered
      BY <1>4, <1>6, <2>2, <2>3 DEF Orderly, Answering, Dealt, Answers
    <3> QED BY <1>6, <2>1, <2>3, <3>1 DEF HandledInOrder
  <2>4. CASE Script[n].id
    BY <2>1, <2>4
  <2> QED BY <1>6, <2>2, <2>3, <2>4, ToldOnce DEF Answers
<1> QED BY <1>1, <1>2, <1>3, <1>5, <1>6 DEF HandledInOrder, AnswerableCall, InTurn

-----------------------------------------------------------------------------
(* RefusedAsAdvertised *)

\* An answer that speaks of the arguments of a tool is the answer of its checks.
LEMMA CheckedAnswer ==
    ASSUME Orderly, Accounted, server \in Busies, NEW what, Ends(what), IsTool(Request),
           what \in {"ok", "refused", "failed", "timeout", "malformed"}
    PROVE  /\ ~Misused(Request)
           /\ what = "malformed" <=> Malformed(Request)
<1>0. what \notin Turned
  BY DEF Turned
<1>1. ASSUME NEW t, Reaches(Request, t) PROVE ~Misused(Request) /\ ~Malformed(Request)
  BY <1>1 DEF Reaches
<1>2. CASE server = "handling"
  <2>1. CASE what = "malformed"
    <3>1. Malformed(Request)
      BY <1>0, <1>2, <2>1 DEF Ends
    <3> QED BY <2>1, <3>1 DEF Malformed
  <2>2. CASE what # "malformed"
    <3>1. \E t : Reaches(Request, t)
      BY <1>0, <1>2, <2>2 DEF Ends
    <3> QED BY <1>1, <2>2, <3>1
  <2> QED BY <2>1, <2>2
<1>3. CASE server \in {"submitting", "drafted"}
  <2>1. \E t : Reaches(Request, t)
    BY <1>3 DEF Accounted
  <2>2. what # "malformed"
    BY <1>3 DEF Ends
  <2> QED BY <1>1, <2>1, <2>2
<1> QED BY <1>2, <1>3 DEF Busies

LEMMA AdvertisedKept ==
    ASSUME Orderly, CampaignInv, Accounted, RefusedAsAdvertised, [Next]_vars
    PROVE  RefusedAsAdvertised'
<1>0. GatewayTyped /\ Numbered \subseteq Frames /\ Numbered \subseteq 1 .. Len(Script)
  BY FramesAre DEF Orderly
<1> DEFINE Says(req, what) ==
       LET given == IF Arguments(req) = Absent THEN Json("object") ELSE Arguments(req)
       IN  IsTool(req) /\ what \in {"ok", "refused", "failed", "timeout", "malformed"} =>
                (what = "malformed" <=> ~Conforms(given, Advertised[req.tool]))
<1>1. ASSUME NEW n \in Numbered' PROVE Says(Req(n), told[n])'
  <2>1. n \in Frames
    BY <1>1, NewFrames
  <2>2. CASE told'[n] = told[n]
    <3>1. CASE told[n] = "none"
      BY <2>2, <3>1
    <3>2. CASE told[n] # "none"
      <4>1. n \in Numbered
        BY <2>1, <3>2 DEF Orderly, Answering, Dealt
      <4>2. Req(n)' = Req(n)
        BY <4>1, SentKept
      <4>3. Says(Req(n), told[n])
        BY <4>1 DEF RefusedAsAdvertised
      <4> HIDE DEF Says
      <4> QED BY <2>2, <4>2, <4>3
    <3> QED BY <3>1, <3>2
  <2>3. CASE told'[n] = "silent"
    BY <2>3
  <2>4. CASE n = call /\ n \in Numbered /\ server \in Busies /\ Ends(told'[n])
    <3>1. Req(n)' = Req(n) /\ Req(n) = Request
      BY <2>4, SentKept DEF Request
    <3>2. PICK req, what : req = Request /\ what = told'[n]
      OBVIOUS
    <3>3. CASE IsTool(req) /\ what \in {"ok", "refused", "failed", "timeout", "malformed"}
      <4>1. ~Misused(req) /\ (what = "malformed" <=> Malformed(req))
        BY <2>4, <3>2, <3>3, CheckedAnswer
      <4>2. req.tool \in DOMAIN Inputs
        BY <4>1 DEF Misused
      <4>3. Malformed(req) <=> ~ValidArguments(Arguments(req), Inputs[req.tool])
        BY <4>1 DEF Malformed
      <4>4. Arguments(req).kind = "absent" => Arguments(req) = Absent
        BY <1>0, <2>4, <3>1, <3>2, RequestFacts DEF Arguments, GatewayTyped
      <4>5. ValidArguments(Arguments(req), Inputs[req.tool])
               <=> Conforms(Given(Arguments(req)), Advertised[req.tool])
        BY <4>2, <4>4, ChecksAgree
      <4>6. Says(req, what)
        BY <4>1, <4>3, <4>5 DEF Given
      <4> HIDE DEF Says
      <4> QED BY <3>1, <3>2, <4>6
    <3>4. CASE ~(IsTool(req) /\ what \in {"ok", "refused", "failed", "timeout", "malformed"})
      <4>1. Says(req, what)
        BY <3>4
      <4> HIDE DEF Says
      <4> QED BY <3>1, <3>2, <4>1
    <3> QED BY <3>3, <3>4
  <2> HIDE DEF Says
  <2> QED BY <2>1, <2>2, <2>3, <2>4, ToldOnce
<1> QED BY <1>1 DEF RefusedAsAdvertised

-----------------------------------------------------------------------------
(* Who made which claim *)

LEMMA RequestSame ==
    ASSUME Orderly, CampaignInv, Accounted, [Next]_vars, server \in Busies, call' = call
    PROVE  Request' = Request
<1>1. PICK x : x = call
  OBVIOUS
<1>2. x \in Numbered
  BY <1>1 DEF Orderly, Answering
<1>3. Req(x)' = Req(x)
  BY <1>2, SentKept
<1> QED BY <1>1, <1>3 DEF Request

LEMMA SentGrows ==
    ASSUME Orderly, CampaignInv, Accounted, [Next]_vars
    PROVE  Len(sent) \in Nat /\ Len(sent') \in Nat /\ Len(sent) <= Len(sent')
<1>1. GatewayTyped /\ GatewayTyped'
  BY OrderlyStep DEF Orderly
<1>2. Len(sent) \in Nat /\ Len(sent') \in Nat
  BY <1>1 DEF GatewayTyped
<1>3. 1 .. Len(sent) \subseteq 1 .. Len(sent')
  BY SentKept DEF Numbered
<1>4. PICK a \in Nat, b \in Nat : a = Len(sent) /\ b = Len(sent')
  BY <1>2
<1>5. a = 0 \/ a \in 1 .. b
  BY <1>3, <1>4
<1> QED BY <1>4, <1>5

Counted ==
    /\ \A c \in Claims : origin[c].call \in 0 .. Len(sent)
    /\ \A c, d \in Claims : origin[c].call = origin[d].call /\ origin[c].call # 0 => c = d

\* A claim is only made for a call that has none.
LEMMA CountedKept ==
    ASSUME Orderly, CampaignInv, Accounted, [Next]_vars,
           \/ origin' = origin
           \/ \E x \in Numbered \cup {0} : MakesFor(x) /\ (x # 0 => MadeBy(x) = {})
    PROVE  Counted'
<1>1. Len(sent) \in Nat /\ Len(sent') \in Nat /\ Len(sent) <= Len(sent')
  BY SentGrows
<1>2. Counted
  BY DEF Accounted, Counted
<1>3. \A c \in Claims : origin[c].call \in 0 .. Len(sent')
  BY <1>1, <1>2 DEF Counted
<1>4. CASE origin' = origin
  BY <1>2, <1>3, <1>4 DEF Counted
<1>5. ASSUME NEW x \in Numbered \cup {0}, MakesFor(x), x # 0 => MadeBy(x) = {}
      PROVE  Counted'
  <2>1. PICK c \in Claims : /\ origin[c] = NoClaim /\ origin'[c].call = x
                            /\ \A b \in Claims \ {c} : origin'[b] = origin[b]
    BY <1>5 DEF MakesFor
  <2>2. \A b \in Claims : x # 0 => origin[b].call # x
    BY <1>5 DEF MadeBy
  <2>3. \A a, b \in Claims : origin'[a].call = origin'[b].call /\ origin'[a].call # 0 => a = b
    BY <1>2, <2>1, <2>2 DEF Counted
  <2>4. x \in 0 .. Len(sent')
    BY <1>1, <1>5 DEF Numbered
  <2> QED BY <1>3, <2>1, <2>3, <2>4 DEF Counted
<1> QED BY <1>4, <1>5

\* Nothing was submitted, written or recorded.
LEMMA AccountsSame ==
    ASSUME Orderly, CampaignInv, Accounted, [Next]_vars, UNCHANGED <<cpc, cjob, origin>>,
           \/ server' = server /\ call' = call
           \/ server # "submitting" /\ server' \notin Busies
           \/ server # "submitting" /\ server' = "handling" /\ MadeBy(call)' = {}
    PROVE  Accounted'
<1>1. Counted'
  BY CountedKept
<1>2. MadeBy(call) = MadeBy(call)' \/ call' # call
  BY DEF MadeBy
<1>3. CASE server' = server /\ call' = call
  <2>1. server \in Busies => Request' = Request
    BY <1>3, RequestSame
  <2> QED BY <1>1, <1>2, <1>3, <2>1 DEF Accounted, Counted, Busies
<1>4. CASE server # "submitting" /\ server' \notin Busies
  BY <1>1, <1>4 DEF Accounted, Counted, Busies
<1>5. CASE server # "submitting" /\ server' = "handling" /\ MadeBy(call)' = {}
  BY <1>1, <1>5 DEF Accounted, Counted
<1> QED BY <1>3, <1>4, <1>5

Returned(p) == WriteClaimFails(p) \/ Checkpoint(p) \/ LoseCheckpoint(p)

LEMMA ReturnedIs ==
    ASSUME CampaignTypeOK, NEW p \in Clients, Returned(p)
    PROVE  /\ cpc'[p] = "idle" /\ cjob'[p].call = 0 /\ origin' = origin
           /\ \A q \in Clients \ {p} : cpc'[q] = cpc[q] /\ cjob'[q] = cjob[q]
<1>1. cpc' = [cpc EXCEPT ![p] = "idle"] /\ cjob' = [cjob EXCEPT ![p] = NoJob] /\ origin' = origin
  BY DEF Returned, WriteClaimFails, Checkpoint, LoseCheckpoint, EndSubmit
<1>2. DOMAIN cpc = Clients /\ DOMAIN cjob = Clients
  BY DEF CampaignTypeOK
<1> QED BY <1>1, <1>2 DEF NoJob

\* The submission of the server is over, and so is its work on the call.
LEMMA AccountsEnded ==
    ASSUME Orderly, CampaignInv, Accounted, [Next]_vars, Returned(Srv), server' \notin Busies
    PROVE  Accounted'
<1>1. Srv \in Clients /\ Other \in Clients /\ Other # Srv /\ CampaignTypeOK
  BY GatewayAssumption DEF CampaignInv
<1>2. /\ cpc'[Srv] = "idle" /\ origin' = origin /\ cpc'[Other] = cpc[Other]
      /\ cjob'[Other] = cjob[Other]
  BY <1>1, ReturnedIs
<1>3. Counted'
  BY <1>2, CountedKept
<1> QED BY <1>2, <1>3 DEF Accounted, Counted, Busies

LEMMA AccountsHandles ==
    ASSUME Orderly, CampaignInv, Accounted, Handles
    PROVE  Accounted'
<1>0. Next
  BY DEF Handles, Next, ServerStep
<1>1. Shape /\ server \in Busies
  BY HandleShape DEF Shape
<1>2. /\ Srv \in Clients /\ Other \in Clients /\ Other # Srv /\ CampaignTypeOK
      /\ call \in Numbered /\ call # 0 /\ call \in Nat
  <2>1. call \in Numbered /\ Len(sent) \in Nat
    BY <1>1, PassingParts DEF Orderly, Answering
  <2> QED BY <2>1, GatewayAssumption DEF CampaignInv, Numbered
<1>3. PICK x : x = call
  OBVIOUS
<1>4. call' = call => Request' = Request
  BY <1>0, <1>1, RequestSame
<1>5. ASSUME GoesOn, server = "handling", server' = "submitting",
             Reaches(Request, "campaign_submit_draft"),
             NEW r \in Runs, NEW k \in Items, StartSubmit(Srv, r, k, call)
      PROVE  Accounted'
  <2>1. /\ cpc'[Srv] = "claim" /\ cjob'[Srv].call = call /\ origin' = origin
        /\ cpc'[Other] = cpc[Other] /\ cjob'[Other] = cjob[Other]
    BY <1>2, <1>5 DEF StartSubmit, CampaignTypeOK
  <2>2. Counted'
    BY <1>0, <2>1, CountedKept
  <2>3. call' = call
    BY <1>5 DEF GoesOn
  <2>4. MadeBy(x)' = {}
    BY <1>3, <1>5, <2>1, MadeSame DEF Accounted
  <2> QED BY <1>3, <1>4, <1>5, <2>1, <2>2, <2>3, <2>4 DEF Accounted, Counted
<1>6. ASSUME GoesOn, server = "submitting", server' = "submitting", WriteClaim(Srv)
      PROVE  Accounted'
  <2>1. cpc[Srv] = "claim" /\ cpc'[Srv] = "checkpoint" /\ cjob'[Srv].call = cjob[Srv].call
        /\ cpc'[Other] = cpc[Other] /\ cjob'[Other] = cjob[Other]
    BY <1>2, <1>6 DEF WriteClaim, CampaignTypeOK
  <2>2. cpc[Other] = "idle" /\ cjob[Srv].call = call /\ call' = call /\ MadeBy(call) = {}
    BY <1>2, <1>6, <2>1, Alone DEF Accounted, GoesOn
  <2>3. MakesFor(call) /\ origin'[cjob'[Srv].claim].call = call
    BY <1>2, <1>6, <2>2, WritesMake
  <2>4. Counted'
    BY <1>0, <1>2, <2>2, <2>3, CountedKept
  <2> QED BY <1>4, <1>6, <2>1, <2>2, <2>3, <2>4 DEF Accounted, Counted
<1>7. ASSUME GoesOn, server = "handling", server' = "drafted", Reaches(Request, "claim_draft"),
             NEW e \in Cites, WriteDraft(e, call)
      PROVE  Accounted'
  <2>1. cpc' = cpc /\ cjob' = cjob /\ cpc[Other] = "idle" /\ cpc[Srv] = "idle"
    BY <1>2, <1>7, Quiet DEF WriteDraft
  <2>2. MakesFor(x) /\ MadeBy(x) = {} /\ call' = x
    BY <1>2, <1>3, <1>7, WritesMake DEF Accounted, GoesOn
  <2>3. Counted'
    BY <1>0, <1>2, <1>3, <2>2, CountedKept
  <2>4. MadeBy(x)' # {}
    BY <1>2, <1>3, <2>2, MadeAfter
  <2> QED BY <1>3, <1>4, <1>7, <2>1, <2>2, <2>3, <2>4 DEF Accounted, Counted
<1>8. ASSUME NEW what, Done(what), Ends(what) PROVE Accounted'
  <2>1. server' = "reading" /\ server' \notin Busies
    BY <1>8 DEF Done, Busies
  <2>2. CASE server = "submitting"
    <3>1. Returned(Srv)
      BY <1>8, <2>2 DEF Ends, Returned
    <3> QED BY <1>0, <2>1, <3>1, AccountsEnded
  <2>3. CASE server # "submitting"
    <3>1. UNCHANGED <<cpc, cjob, origin>>
      BY <1>8, <2>3 DEF Ends, campaignVars, BeginCampaign
    <3> QED BY <1>0, <2>1, <2>3, <3>1, AccountsSame
  <2> QED BY <2>2, <2>3
<1>9. CASE GoesOn
  BY <1>5, <1>6, <1>7, <1>9 DEF GoesOn
<1> QED BY <1>1, <1>8, <1>9 DEF Shape

LEMMA AccountsOther ==
    ASSUME Orderly, CampaignInv, Accounted, Elsewhere, OtherMoves
    PROVE  Accounted'
<1>0. Next /\ UNCHANGED <<server, call, sent>>
  BY DEF OtherMoves, Next, Elsewhere
<1>1. Srv \in Clients /\ Other \in Clients /\ Other # Srv /\ CampaignTypeOK
  BY GatewayAssumption DEF CampaignInv
<1>2. server \in Busies => call # 0 /\ call \in Nat /\ Request' = Request
  <2>1. server \in Busies => call \in Numbered /\ Len(sent) \in Nat
    BY PassingParts DEF Orderly, Answering
  <2> QED BY <1>0, <2>1, RequestSame DEF Numbered
<1>3. PICK x : x = call
  OBVIOUS
<1>4. CASE OtherBegins \/ OtherFinishes \/ OwnerEdits
  <2>1. UNCHANGED <<cpc, cjob, origin>>
    BY <1>4 DEF OtherBegins, OtherFinishes, OwnerEdits, BeginCampaign, FinishCampaign, DamageRun,
                Supersede
  <2> QED BY <1>0, <2>1, AccountsSame
<1>5. CASE OtherSubmits
  <2>1. /\ cpc'[Other] = "claim" /\ cjob'[Other].call = 0 /\ origin' = origin
        /\ cpc'[Srv] = cpc[Srv] /\ cjob'[Srv] = cjob[Srv]
    BY <1>1, <1>5 DEF OtherSubmits, StartSubmit, CampaignTypeOK
  <2>2. Counted'
    BY <1>0, <2>1, CountedKept
  <2>3. MadeBy(x)' = MadeBy(x)
    BY <2>1, MadeSame
  <2> QED BY <1>0, <1>2, <1>3, <2>1, <2>2, <2>3 DEF Accounted, Counted, Busies
<1>6. CASE OtherWrites
  <2>1. /\ cpc'[Srv] = cpc[Srv] /\ cjob'[Srv] = cjob[Srv] /\ cpc[Other] = "claim"
        /\ cjob'[Other].call = cjob[Other].call
    BY <1>1, <1>6 DEF OtherWrites, WriteClaim, CampaignTypeOK
  <2>2. cpc[Srv] = "idle" /\ cjob[Other].call = 0
    BY <1>1, <2>1, Alone DEF Accounted
  <2>3. MakesFor(0) /\ origin'[cjob'[Other].claim].call = 0
    BY <1>1, <1>6, <2>2, WritesMake DEF OtherWrites
  <2>4. Counted'
    BY <1>0, <2>3, CountedKept
  <2>5. server \in Busies => MadeBy(x)' = MadeBy(x)
    BY <1>2, <1>3, <2>3, MadeAfter
  <2> QED BY <1>0, <1>2, <1>3, <2>1, <2>2, <2>3, <2>4, <2>5 DEF Accounted, Counted, Busies
<1>7. CASE OtherEnds
  <2>1. Returned(Other)
    BY <1>7 DEF OtherEnds, Returned
  <2>2. /\ cpc'[Other] = "idle" /\ cjob'[Other].call = 0 /\ origin' = origin
        /\ cpc'[Srv] = cpc[Srv] /\ cjob'[Srv] = cjob[Srv]
    BY <1>1, <2>1, ReturnedIs
  <2>3. Counted'
    BY <1>0, <2>2, CountedKept
  <2>4. MadeBy(x)' = MadeBy(x)
    BY <2>2, MadeSame
  <2> QED BY <1>0, <1>2, <1>3, <2>2, <2>3, <2>4 DEF Accounted, Counted, Busies
<1> QED BY <1>4, <1>5, <1>6, <1>7 DEF OtherMoves

LEMMA AccountedKept ==
    ASSUME Orderly, CampaignInv, Accounted, [Next]_vars
    PROVE  Accounted'
<1>1. CASE Die
  <2>1. server' = "dead" /\ server' \notin Busies
    BY <1>1 DEF Die, Busies
  <2>2. CASE server = "submitting"
    <3>1. Returned(Srv)
      BY <1>1, <2>2 DEF Die, Returned
    <3> QED BY <2>1, <3>1, AccountsEnded
  <2>3. CASE server # "submitting" /\ UNCHANGED campaignVars
    BY <2>1, <2>3, AccountsSame DEF campaignVars
  <2> QED BY <1>1, <2>2, <2>3 DEF Die
<1>2. CASE TakeFrame
  <2>0. server = "reading" /\ UNCHANGED <<cpc, cjob, origin>>
    BY <1>2 DEF TakeFrame, campaignVars
  <2>1. PICK x : x = Next1
    OBVIOUS
  <2>2. MadeBy(x) = {} /\ MadeBy(x)' = MadeBy(x)
    BY <1>2, <2>0, <2>1, TakenFirst, MadeSame
  <2>3. CASE call' = Next1 /\ server' = "handling"
    <3>1. MadeBy(call)' = {}
      BY <2>1, <2>2, <2>3
    <3> QED BY <2>0, <2>3, <3>1, AccountsSame
  <2>4. CASE server' = "failed"
    BY <2>0, <2>4, AccountsSame DEF Busies
  <2>5. CASE UNCHANGED <<call, server>>
    BY <2>0, <2>5, AccountsSame
  <2> QED BY <1>2, <2>3, <2>4, <2>5 DEF TakeFrame
<1>3. CASE Stop \/ Reconnect
  <2>1. /\ UNCHANGED <<cpc, cjob, origin>> /\ server # "submitting" /\ server' \notin Busies
    BY <1>3 DEF Stop, Reconnect, campaignVars, Running, Busies
  <2> QED BY <2>1, AccountsSame
<1>4. CASE UNCHANGED vars \/ Moves \/ (\E n \in 1 .. Chunk : ReadSome(n)) \/ ReadEnd
           \/ Send \/ Hangs
  <2>1. UNCHANGED <<cpc, cjob, origin, server, call>>
    BY <1>4 DEF vars, Moves, ReadSome, ReadEnd, Send, Hangs, campaignVars, gatewayVars
  <2> QED BY <2>1, AccountsSame
<1> QED BY <1>1, <1>2, <1>3, <1>4, AccountsHandles, AccountsOther, StepKinds

-----------------------------------------------------------------------------
(* What is on record *)

\* A claim that exists goes on existing, made for what it was made for.
LEMMA ClaimStays ==
    ASSUME CampaignInv, [CampaignNext]_campaignVars, NEW c \in Claims, claim[c] # Nobody
    PROVE  claim'[c] # Nobody /\ origin'[c] = origin[c]
<1>0. /\ claim \in [Claims -> Cites \cup {Nobody}]
      /\ origin \in [Claims -> [run : Runs \cup {Nobody}, item : Items \cup {-1}, call : Nat]]
  BY DEF CampaignInv, CampaignTypeOK
<1>1. ASSUME NEW b \in Claims, claim[b] = Nobody, NEW v, claim' = [claim EXCEPT ![b] = v],
             origin' = origin \/ \E o : origin' = [origin EXCEPT ![b] = o]
      PROVE  claim'[c] # Nobody /\ origin'[c] = origin[c]
  BY <1>0, <1>1
<1>2. CASE claim' = claim /\ origin' = origin
  BY <1>2
<1>3. ASSUME Unused # {} PROVE NewId \in Claims /\ claim[NewId] = Nobody
  BY <1>3, NewIdIsUnused
<1>4. ASSUME NEW r \in Runs, NEW k \in Items, Supersede(r, k)
      PROVE  claim'[c] # Nobody /\ origin'[c] = origin[c]
  BY <1>1, <1>3, <1>4 DEF Supersede
<1>5. ASSUME NEW p \in Clients, WriteClaim(p) PROVE claim'[c] # Nobody /\ origin'[c] = origin[c]
  <2>1. PICK b \in Claims : b = NewId /\ claim[b] = Nobody
    BY <1>3, <1>5 DEF WriteClaim
  <2> QED BY <1>1, <1>5, <2>1 DEF WriteClaim
<1>6. ASSUME NEW e \in Cites, NEW n \in Nat, WriteDraft(e, n)
      PROVE  claim'[c] # Nobody /\ origin'[c] = origin[c]
  <2>1. PICK b \in Claims : b = NewId /\ claim[b] = Nobody
    BY <1>3, <1>6 DEF WriteDraft
  <2> QED BY <1>1, <1>6, <2>1 DEF WriteDraft
<1>7. CASE UNCHANGED campaignVars
  BY <1>2, <1>7 DEF campaignVars
<1>8. ASSUME NEW r \in Runs,
             (\E f \in [Items -> Cites] : BeginCampaign(r, f)) \/ FinishCampaign(r) \/ DamageRun(r)
      PROVE  claim'[c] # Nobody /\ origin'[c] = origin[c]
  BY <1>2, <1>8 DEF BeginCampaign, FinishCampaign, DamageRun
<1>9. ASSUME NEW p \in Clients,
             (\E r \in Runs, k \in Items, n \in Nat : StartSubmit(p, r, k, n)) \/ Returned(p)
      PROVE  claim'[c] # Nobody /\ origin'[c] = origin[c]
  BY <1>2, <1>9 DEF StartSubmit, Returned, WriteClaimFails, Checkpoint, LoseCheckpoint
<1> QED BY <1>4, <1>5, <1>6, <1>7, <1>8, <1>9 DEF CampaignNext, Returned

\* A draft only changes while it is pending, at a checkpoint or by its owner's hand.
DraftMoves(r, k) ==
    /\ run[r].drafts[k] = Pending
    /\ \/ \E p \in Clients : /\ Checkpoint(p)
                             /\ run'[r].drafts[k] = [st |-> "submitted", claim |-> cjob[p].claim]
       \/ \E c \in Claims :
             /\ claim[c] = Nobody /\ claim'[c] # Nobody /\ origin' = origin
             /\ run'[r].drafts[k] = [st |-> "superseded_by_owner", claim |-> c]

LEMMA DraftStep ==
    ASSUME CampaignInv, OnRecord, [CampaignNext]_campaignVars, NEW r \in Runs, NEW k \in Items
    PROVE  run'[r].drafts[k] = run[r].drafts[k] \/ DraftMoves(r, k)
<1>0. run \in [Runs -> RunFile] /\ \A s \in Runs : run[s] \in RunFile
  BY DEF CampaignInv, CampaignTypeOK
<1>1. CASE run' = run
  BY <1>1
<1>2. ASSUME NEW s \in Runs, NEW f \in [Items -> Cites], BeginCampaign(s, f)
      PROVE  run'[r].drafts[k] = run[r].drafts[k]
  <2>1. CASE r = s
    <3>1. run'[r].drafts = [i \in Items |-> Pending]
      BY <1>0, <1>2, <2>1 DEF BeginCampaign, NoRun
    <3>2. run[r].drafts[k] = Pending
      BY <1>2, <2>1 DEF BeginCampaign, CampaignInv, Begun
    <3> QED BY <3>1, <3>2
  <2>2. CASE r # s
    BY <1>0, <1>2, <2>2 DEF BeginCampaign
  <2> QED BY <2>1, <2>2
<1>3. ASSUME NEW s \in Runs, FinishCampaign(s) \/ DamageRun(s)
      PROVE  run'[r].drafts[k] = run[r].drafts[k]
  <2>1. PICK ph : run' = [run EXCEPT ![s].phase = ph]
    BY <1>3 DEF FinishCampaign, DamageRun
  <2>2. CASE r = s
    <3>1. run'[r] = [run[r] EXCEPT !.phase = ph]
      BY <1>0, <2>1, <2>2
    <3> QED BY <1>0, <3>1 DEF RunFile
  <2>3. CASE r # s
    BY <1>0, <2>1, <2>3
  <2> QED BY <2>2, <2>3
<1>4. ASSUME NEW s \in Runs, NEW i \in Items, NEW d,
             run' = [run EXCEPT ![s].drafts[i] = d]
      PROVE  IF r = s /\ k = i THEN run'[r].drafts[k] = d ELSE run'[r].drafts[k] = run[r].drafts[k]
  <2>1. CASE r = s
    <3>1. run'[r] = [run[r] EXCEPT !.drafts[i] = d]
      BY <1>0, <1>4, <2>1
    <3>2. run[r].drafts \in [Items -> Drafts] /\ "drafts" \in DOMAIN run[r]
      BY <1>0 DEF RunFile
    <3>3. run'[r].drafts = [run[r].drafts EXCEPT ![i] = d]
      BY <3>1, <3>2
    <3> QED BY <2>1, <3>2, <3>3
  <2>2. CASE r # s
    BY <1>0, <1>4, <2>2
  <2> QED BY <2>1, <2>2
<1>5. ASSUME NEW s \in Runs, NEW i \in Items, Supersede(s, i)
      PROVE  run'[r].drafts[k] = run[r].drafts[k] \/ DraftMoves(r, k)
  <2>1. PICK c \in Claims : c = NewId /\ claim[c] = Nobody
    BY <1>5, NewIdIsUnused DEF Supersede
  <2>2. run[s].cites[i] \in Cites /\ run[s].cites[i] # Nobody
    BY <1>5, CampaignAssumption DEF Supersede, CampaignInv, Begun
  <2>3. claim'[c] # Nobody /\ origin' = origin
    BY <1>5, <2>1, <2>2 DEF Supersede, CampaignInv, CampaignTypeOK
  <2>4. run' = [run EXCEPT ![s].drafts[i] = [st |-> "superseded_by_owner", claim |-> c]]
    BY <1>5, <2>1 DEF Supersede
  <2>5. CASE r = s /\ k = i
    <3>1. run'[r].drafts[k] = [st |-> "superseded_by_owner", claim |-> c]
      BY <1>4, <2>4, <2>5
    <3>2. run[r].drafts[k].st = "pending" /\ run[r].drafts[k].claim = Nobody
      BY <1>5, <2>5 DEF Supersede, OnRecord
    <3>3. run[r].drafts[k] \in Drafts
      BY <1>0 DEF RunFile
    <3>4. run[r].drafts[k] = Pending
      BY <3>2, <3>3 DEF Drafts, Pending
    <3> QED BY <2>1, <2>3, <3>1, <3>4 DEF DraftMoves
  <2>6. CASE ~(r = s /\ k = i)
    BY <1>4, <2>4, <2>6
  <2> QED BY <2>5, <2>6
<1>6. ASSUME NEW p \in Clients, Checkpoint(p)
      PROVE  run'[r].drafts[k] = run[r].drafts[k] \/ DraftMoves(r, k)
  <2>1. PICK s \in Runs, i \in Items : s = cjob[p].run /\ i = cjob[p].item
    BY <1>6 DEF Checkpoint, CampaignInv, Submitting
  <2>2. run[s].drafts[i] = Pending
    BY <1>6, <2>1 DEF Checkpoint, CampaignInv, Submitting
  <2>3. run' = [run EXCEPT ![s].drafts[i] = [st |-> "submitted", claim |-> cjob[p].claim]]
    BY <1>6, <2>1 DEF Checkpoint
  <2>4. CASE r = s /\ k = i
    <3>1. run'[r].drafts[k] = [st |-> "submitted", claim |-> cjob[p].claim]
      BY <1>4, <2>3, <2>4
    <3> QED BY <1>6, <2>2, <2>4, <3>1 DEF DraftMoves
  <2>5. CASE ~(r = s /\ k = i)
    BY <1>4, <2>3, <2>5
  <2> QED BY <2>4, <2>5
<1>7. CASE UNCHANGED campaignVars
  BY <1>1, <1>7 DEF campaignVars
<1>8. ASSUME NEW p \in Clients,
             \/ \E s \in Runs, i \in Items, n \in Nat : StartSubmit(p, s, i, n)
             \/ WriteClaim(p) \/ WriteClaimFails(p) \/ LoseCheckpoint(p)
             \/ \E e \in Cites, n \in Nat : WriteDraft(e, n)
      PROVE  run' = run
  BY <1>8 DEF StartSubmit, WriteClaim, WriteClaimFails, LoseCheckpoint, WriteDraft
<1>9. CASE \E e \in Cites, n \in Nat : WriteDraft(e, n)
  BY <1>1, <1>9 DEF WriteDraft
<1> QED BY <1>1, <1>2, <1>3, <1>5, <1>6, <1>7, <1>8, <1>9 DEF CampaignNext

LEMMA OnRecordKept ==
    ASSUME CampaignInv, OnRecord, [CampaignNext]_campaignVars
    PROVE  OnRecord'
<1> SUFFICES ASSUME NEW r \in Runs, NEW k \in Items PROVE OnRecord!(r, k)'
  BY DEF OnRecord
<1>0. PICK d, e : d = run[r].drafts[k] /\ e = run'[r].drafts[k]
  OBVIOUS
<1>1. CASE e = d
  <2>1. /\ d.st = "pending" => d.claim = Nobody
        /\ d.st # "pending" => d.claim \in Claims /\ claim[d.claim] # Nobody
        /\ d.st = "superseded_by_owner" => origin[d.claim] = NoClaim
    BY <1>0 DEF OnRecord
  <2>2. d.st # "pending" => claim'[d.claim] # Nobody /\ origin'[d.claim] = origin[d.claim]
    BY <2>1, ClaimStays
  <2> QED BY <1>0, <1>1, <2>1, <2>2
<1>2. ASSUME NEW p \in Clients, Checkpoint(p), e = [st |-> "submitted", claim |-> cjob[p].claim]
      PROVE  OnRecord!(r, k)'
  <2>1. PICK c \in Claims : c = cjob[p].claim /\ claim[c] # Nobody
    <3>1. /\ cjob[p].claim \in Claims /\ cjob[p].run \in Runs /\ cjob[p].item \in Items
          /\ claim[cjob[p].claim] = run[cjob[p].run].cites[cjob[p].item]
          /\ run[cjob[p].run].cites[cjob[p].item] \in Cites
      BY <1>2 DEF Checkpoint, CampaignInv, Submitting, AtCheckpoint, Begun
    <3> QED BY <3>1, CampaignAssumption
  <2>2. claim'[c] # Nobody
    BY <2>1, ClaimStays
  <2>3. e.st = "submitted" /\ e.claim = c
    BY <1>2, <2>1
  <2> QED BY <1>0, <2>2, <2>3
<1>3. ASSUME NEW c \in Claims, claim[c] = Nobody, claim'[c] # Nobody, origin' = origin,
             e = [st |-> "superseded_by_owner", claim |-> c]
      PROVE  OnRecord!(r, k)'
  <2>1. origin'[c] = NoClaim
    BY <1>3 DEF CampaignInv, Fresh
  <2>2. e.st = "superseded_by_owner" /\ e.claim = c
    BY <1>3
  <2> QED BY <1>0, <1>3, <2>1, <2>2
<1> QED BY <1>0, <1>1, <1>2, <1>3, DraftStep DEF DraftMoves

\* What is on record stays there; what is new was made by a submission that ends, or
\* was made for nothing.
LEMMA RecordGrows ==
    ASSUME CampaignInv, OnRecord, [CampaignNext]_campaignVars, NEW c \in Claims
    PROVE  /\ (\E r \in Runs : c \in Recorded(r)) => \E r \in Runs : c \in Recorded(r)'
           /\ (\E r \in Runs : c \in Recorded(r)') =>
                 \/ \E r \in Runs : c \in Recorded(r)
                 \/ \E p \in Clients : Checkpoint(p) /\ c = cjob[p].claim
                 \/ origin[c] = NoClaim /\ origin' = origin
<1>0. c # Nobody
  BY CampaignAssumption
<1>1. ASSUME NEW r \in Runs, c \in Recorded(r) PROVE c \in Recorded(r)'
  <2>1. PICK k \in Items : c = run[r].drafts[k].claim
    BY <1>1 DEF Recorded
  <2>2. run[r].drafts[k] # Pending
    BY <1>0, <2>1 DEF Pending
  <2>3. run'[r].drafts[k] = run[r].drafts[k]
    BY <2>2, DraftStep DEF DraftMoves
  <2> QED BY <2>1, <2>3 DEF Recorded
<1>2. ASSUME NEW r \in Runs, c \in Recorded(r)'
      PROVE  \/ \E s \in Runs : c \in Recorded(s)
             \/ \E p \in Clients : Checkpoint(p) /\ c = cjob[p].claim
             \/ origin[c] = NoClaim /\ origin' = origin
  <2>1. PICK k \in Items : c = run'[r].drafts[k].claim
    BY <1>2 DEF Recorded
  <2>2. CASE run'[r].drafts[k] = run[r].drafts[k]
    BY <2>1, <2>2 DEF Recorded
  <2>3. ASSUME NEW p \in Clients, Checkpoint(p),
               run'[r].drafts[k] = [st |-> "submitted", claim |-> cjob[p].claim]
        PROVE  c = cjob[p].claim
    BY <2>1, <2>3
  <2>4. ASSUME NEW b \in Claims, claim[b] = Nobody, origin' = origin,
               run'[r].drafts[k] = [st |-> "superseded_by_owner", claim |-> b]
        PROVE  origin[c] = NoClaim /\ origin' = origin
    <3>1. c = b
      BY <2>1, <2>4
    <3> QED BY <2>4, <3>1 DEF CampaignInv, Fresh
  <2>5. CASE DraftMoves(r, k)
    <3>1. CASE \E p \in Clients :
                  /\ Checkpoint(p)
                  /\ run'[r].drafts[k] = [st |-> "submitted", claim |-> cjob[p].claim]
      BY <2>3, <3>1
    <3>2. CASE \E b \in Claims :
                  /\ claim[b] = Nobody /\ claim'[b] # Nobody /\ origin' = origin
                  /\ run'[r].drafts[k] = [st |-> "superseded_by_owner", claim |-> b]
      BY <2>4, <3>2
    <3> QED BY <2>5, <3>1, <3>2 DEF DraftMoves
  <2> QED BY <2>2, <2>5, DraftStep
<1> QED BY <1>1, <1>2

-----------------------------------------------------------------------------
(* AnswerTellsOutcome *)

Records == UNION {Recorded(r) : r \in Runs}

LEMMA AtMostOne ==
    ASSUME NEW S, \A c, d \in S : c = d
    PROVE  Cardinality(S) <= 1
<1>1. CASE S = {}
  BY <1>1, FS_EmptySet
<1>2. ASSUME NEW c \in S PROVE Cardinality(S) <= 1
  <2>1. S = {c}
    BY <1>2
  <2>2. Cardinality({c}) = 1
    BY FS_Singleton
  <2> QED BY <2>1, <2>2
<1> QED BY <1>1, <1>2

\* Of a call that was answered, nothing more is made.
LEMMA DealtStays ==
    ASSUME Orderly, CampaignInv, Accounted, [Next]_vars, NEW n \in Numbered, Dealt(n)
    PROVE  MadeBy(n)' = MadeBy(n)
<1>0. n \in Nat /\ n # 0 /\ n # call
  <2>1. n \in Nat /\ n # 0
    BY PassingParts DEF Orderly, Numbered
  <2>2. n # call
    BY <2>1 DEF Orderly, Answering
  <2> QED BY <2>1, <2>2
<1>1. CASE Handles
  <2>1. Shape
    BY <1>1, HandleShape
  <2> QED BY <1>0, <2>1, StepMade DEF Orderly
<1>2. CASE Elsewhere /\ OtherMoves
  <2>1. origin' = origin \/ MakesFor(0)
    BY <1>2, OtherMade
  <2> QED BY <1>0, <2>1, MadeAfter, MadeSame
<1>3. CASE Die
  <2>1. origin' = origin
    BY <1>3 DEF Die, campaignVars, WriteClaimFails, LoseCheckpoint
  <2> QED BY <2>1, MadeSame
<1>4. CASE UNCHANGED vars \/ Moves \/ (\E i \in 1 .. Chunk : ReadSome(i)) \/ ReadEnd \/ TakeFrame
           \/ Stop \/ Send \/ Hangs \/ Reconnect
  <2>1. origin' = origin
    BY <1>4 DEF vars, Moves, ReadSome, ReadEnd, TakeFrame, Stop, Send, Hangs, Reconnect,
                campaignVars
  <2> QED BY <2>1, MadeSame
<1> QED BY <1>1, <1>2, <1>3, <1>4, StepKinds

\* What a call that ends has made, by what it is told.
LEMMA EndingTells ==
    ASSUME Orderly, CampaignInv, Accounted, OnRecord, Handles, server \in Busies,
           NEW n, n = call, NEW what, Ends(what)
    PROVE  /\ what = "ok" /\ Reaches(Request, "campaign_submit_draft") =>
                 MadeBy(n)' # {} /\ MadeBy(n)' \subseteq Records'
           /\ what = "ok" /\ Reaches(Request, "claim_draft") => MadeBy(n)' # {}
           /\ what \notin {"ok", "failed", "timeout"} => MadeBy(n)' = {}
<1>0. n \in Numbered /\ n # 0 /\ Srv \in Clients
  <2>1. n \in Numbered /\ Len(sent) \in Nat
    BY PassingParts DEF Orderly, Answering
  <2> QED BY <2>1, GatewayAssumption DEF Numbered
<1>1. MadeBy(n)' = MadeBy(n)
  <2>1. origin' = origin
    BY OthersKeepOrigin DEF Ends
  <2> QED BY <2>1, MadeSame
<1>2. \A t, u : Reaches(Request, t) /\ Reaches(Request, u) => t = u
  BY OneTool
<1>3. CASE server = "handling"
  <2>1. MadeBy(n)' = {}
    BY <1>1, <1>3 DEF Accounted
  <2>2. \A t : Reaches(Request, t) => IsTool(Request)
    BY DEF Reaches
  <2>3. what = "ok" =>
           ~Reaches(Request, "campaign_submit_draft") /\ ~Reaches(Request, "claim_draft")
    BY <1>2, <1>3, <2>2 DEF Ends, Turned
  <2> QED BY <2>1, <2>3
<1>4. CASE server = "drafted"
  <2>1. MadeBy(n) # {} /\ Reaches(Request, "claim_draft") /\ what \in {"ok", "failed", "timeout"}
    BY <1>4 DEF Accounted, Ends
  <2>2. ~Reaches(Request, "campaign_submit_draft")
    BY <1>2, <2>1
  <2> QED BY <1>1, <2>1, <2>2
<1>5. CASE server = "submitting"
  <2>0. Reaches(Request, "campaign_submit_draft") /\ ~Reaches(Request, "claim_draft")
    BY <1>2, <1>5 DEF Accounted
  <2>1. CASE Checkpoint(Srv) /\ what \in {"ok", "failed", "timeout"}
    <3>1. PICK c : c = cjob[Srv].claim /\ origin[c].call = n
      BY <1>5, <2>1 DEF Accounted, Checkpoint
    <3>2. PICK r \in Runs, k \in Items : r = cjob[Srv].run /\ k = cjob[Srv].item
      BY <1>0, <2>1 DEF Checkpoint, CampaignInv, Submitting
    <3>3. c \in Claims
      BY <1>0, <2>1, <3>1 DEF Checkpoint, CampaignInv, AtCheckpoint
    <3>4. MadeBy(n) = {c}
      BY <1>0, <3>1, <3>3 DEF Accounted, MadeBy
    <3>5. run'[r].drafts[k].claim = c
      <4>1. /\ run \in [Runs -> RunFile] /\ run[r].drafts \in [Items -> Drafts]
            /\ "drafts" \in DOMAIN run[r]
        BY DEF CampaignInv, CampaignTypeOK, RunFile
      <4>2. PICK d : d = [st |-> "submitted", claim |-> c]
        OBVIOUS
      <4>6. d.claim = c
        BY <4>2
      <4>3. run' = [run EXCEPT ![r].drafts[k] = d]
        BY <2>1, <3>1, <3>2, <4>2 DEF Checkpoint
      <4>4. run'[r] = [run[r] EXCEPT !.drafts[k] = d]
        BY <4>1, <4>3
      <4>5. run'[r].drafts = [run[r].drafts EXCEPT ![k] = d]
        BY <4>1, <4>4
      <4> QED BY <4>1, <4>5, <4>6
    <3>6. c \in Records'
      BY <3>5 DEF Records, Recorded
    <3> QED BY <1>1, <2>0, <2>1, <3>4, <3>6
  <2>2. CASE what \in {"failed", "timeout"}
    BY <2>2
  <2> QED BY <1>5, <2>1, <2>2 DEF Ends
<1> QED BY <1>3, <1>4, <1>5 DEF Busies

\* What the client was told of a call, and what was made and recorded for it.
Tells(req, what, madeBy, records) ==
    /\ Cardinality(madeBy) <= 1
    /\ what \in Answers \ {"ok", "failed", "timeout"} => madeBy = {}
    /\ what = "ok" /\ Reaches(req, "claim_draft") => madeBy # {}
    /\ what = "ok" /\ Reaches(req, "campaign_submit_draft") =>
          madeBy # {} /\ madeBy \subseteq records

LEMMA OutcomeIs ==
    AnswerTellsOutcome <=> \A n \in Numbered : Tells(Req(n), told[n], MadeBy(n), Records)
BY DEF AnswerTellsOutcome, Tells, Records

LEMMA OutcomeKept ==
    ASSUME Orderly, CampaignInv, Accounted, OnRecord, AnswerTellsOutcome, [Next]_vars
    PROVE  AnswerTellsOutcome'
<1> SUFFICES ASSUME NEW n \in Numbered'
             PROVE  Tells(Req(n)', told'[n], MadeBy(n)', Records')
  BY DEF AnswerTellsOutcome, Tells, Records
<1>0. n \in Frames /\ n # 0
  BY NewFrames
<1>1. Cardinality(MadeBy(n)') <= 1
  <2>1. \A c, d \in MadeBy(n)' : c = d
    BY <1>0, AccountedKept DEF Accounted, MadeBy
  <2> QED BY <2>1, AtMostOne
<1>2. CASE told'[n] \in {"none", "silent"}
  <2>1. told'[n] \notin Answers /\ told'[n] # "ok"
    BY <1>2 DEF Answers
  <2> QED BY <1>1, <2>1 DEF Tells
<1>3. CASE told'[n] = told[n] /\ told[n] # "none"
  <2>1. n \in Numbered /\ Dealt(n)
    BY <1>0, <1>3 DEF Orderly, Answering, Dealt
  <2>2. Tells(Req(n), told[n], MadeBy(n), Records)
    BY <2>1, OutcomeIs
  <2>3. Req(n)' = Req(n) /\ MadeBy(n)' = MadeBy(n)
    BY <2>1, SentKept, DealtStays
  <2>4. MadeBy(n) \subseteq Records => MadeBy(n) \subseteq Records'
    <3>1. [CampaignNext]_campaignVars
      BY StepIsCampaign DEF Orderly, CampaignInv
    <3>2. MadeBy(n) \subseteq Claims
      BY DEF MadeBy
    <3> QED BY <3>1, <3>2, RecordGrows DEF Records
  <2> QED BY <1>3, <2>2, <2>3, <2>4 DEF Tells
<1>4. CASE Handles /\ n = call /\ n \in Numbered /\ server \in Busies /\ Ends(told'[n])
  <2>1. PICK what : what = told'[n]
    OBVIOUS
  <2>2. Req(n)' = Request
    BY <1>4, SentKept DEF Request
  <2>3. /\ what = "ok" /\ Reaches(Request, "campaign_submit_draft") =>
              MadeBy(n)' # {} /\ MadeBy(n)' \subseteq Records'
        /\ what = "ok" /\ Reaches(Request, "claim_draft") => MadeBy(n)' # {}
        /\ what \notin {"ok", "failed", "timeout"} => MadeBy(n)' = {}
    BY <1>4, <2>1, EndingTells
  <2> QED BY <1>1, <2>1, <2>2, <2>3 DEF Tells
<1> QED BY <1>0, <1>2, <1>3, <1>4, ToldOnce

-----------------------------------------------------------------------------
(* The theorems *)

\* Everything the gateway keeps, step by step.
GatewayInv ==
    /\ Orderly /\ CampaignInv /\ Accounted /\ OnRecord
    /\ HandledInOrder /\ RefusedAsAdvertised /\ AnswerTellsOutcome

LEMMA GatewayStarts == Init => GatewayInv
<1> SUFFICES ASSUME Init PROVE GatewayInv
  OBVIOUS
<1>1. Orderly /\ CampaignInv
  BY InitOrderly, CampaignStarts DEF Init
<1>2. /\ sent = <<>> /\ server = "reading" /\ call = 0 /\ buf = <<>>
      /\ cpc = [p \in Clients |-> "idle"] /\ cjob = [p \in Clients |-> NoJob]
      /\ origin = [c \in Claims |-> NoClaim] /\ run = [r \in Runs |-> NoRun]
  BY DEF Init, FramingInit, CampaignInit
<1>3. Len(sent) = 0 /\ Numbered = {} /\ Len(buf) = 0
  BY <1>2 DEF Numbered
<1>4. Accounted
  <2>1. Srv \in Clients /\ Other \in Clients
    BY GatewayAssumption
  <2>2. \A c \in Claims : origin[c].call = 0
    BY <1>2 DEF NoClaim
  <2>3. cpc[Srv] = "idle" /\ cpc[Other] = "idle" /\ cjob[Other].call = 0
    BY <1>2, <2>1 DEF NoJob
  <2> QED BY <1>2, <1>3, <2>2, <2>3 DEF Accounted
<1>5. OnRecord
  BY <1>2 DEF OnRecord, NoRun, Pending
<1>6. HandledInOrder
  BY <1>2, <1>3, FramingAssumption DEF HandledInOrder
<1>7. RefusedAsAdvertised /\ AnswerTellsOutcome
  BY <1>3, OutcomeIs DEF RefusedAsAdvertised
<1> QED BY <1>1, <1>4, <1>5, <1>6, <1>7 DEF GatewayInv

LEMMA GatewayKeeps == GatewayInv /\ [Next]_vars => GatewayInv'
<1> SUFFICES ASSUME GatewayInv, [Next]_vars PROVE GatewayInv'
  OBVIOUS
<1>1. /\ Orderly /\ CampaignInv /\ Accounted /\ OnRecord
      /\ HandledInOrder /\ RefusedAsAdvertised /\ AnswerTellsOutcome
  BY DEF GatewayInv
<1>2. [CampaignNext]_campaignVars
  BY <1>1, StepIsCampaign DEF Orderly, CampaignInv
<1>3. Orderly' /\ CampaignInv'
  BY <1>1, <1>2, OrderlyStep, CampaignKeeps
<1>4. Accounted' /\ OnRecord'
  BY <1>1, <1>2, AccountedKept, OnRecordKept
<1>5. HandledInOrder' /\ RefusedAsAdvertised' /\ AnswerTellsOutcome'
  BY <1>1, OrderKept, AdvertisedKept, OutcomeKept
<1> QED BY <1>3, <1>4, <1>5 DEF GatewayInv

\* Between any two steps of the server, the client, the other process and the owner,
\* the stream of frames, the calls and the campaign files agree (run, run_tool).
THEOREM GatewayInvariance == Spec => []GatewayInv
BY GatewayStarts, GatewayKeeps, PTL DEF Spec

\* Whatever is read and written when, and wherever a session ends, the frames of a
\* session are handled in the order they were sent, each one once and none skipped
\* (next_value, handle, handle_inner).
THEOREM OrderTheorem == Spec => []HandledInOrder
<1>1. GatewayInv => HandledInOrder
  BY DEF GatewayInv
<1> QED BY <1>1, GatewayInvariance, PTL

\* For any arguments, of any kinds and nesting, a call is turned away exactly when
\* they break the schema of the tool (validate_arguments, *_input_schema).
THEOREM AdvertisedTheorem == Spec => []RefusedAsAdvertised
<1>1. GatewayInv => RefusedAsAdvertised
  BY DEF GatewayInv
<1> QED BY <1>1, GatewayInvariance, PTL

\* What a client was told of its call is what happened to the files, whatever the
\* other process, the owner and deaths do (run_tool, submit_campaign_draft,
\* run_claim_draft).
THEOREM OutcomeTheorem == Spec => []AnswerTellsOutcome
<1>1. GatewayInv => AnswerTellsOutcome
  BY DEF GatewayInv
<1> QED BY <1>1, GatewayInvariance, PTL

\* The campaigns inside the gateway are the campaigns on their own, and the
\* workspaces the workspaces: what holds of them alone holds of them here.
THEOREM ComponentsTheorem == Spec => CampaignSpec /\ WorkspacesSpec
<1>1. Init => CampaignInit
  BY DEF Init
<1>2. Init => WorkspacesInit({}, NoName) \/ \E n \in Names : WorkspacesInit(Names, n)
  BY GatewayAssumption DEF Init
<1>3. GatewayInv /\ [Next]_vars => [CampaignNext]_campaignVars /\ [WorkspacesNext]_workspacesVars
  BY StepIsCampaign, StepIsWorkspaces DEF GatewayInv, Orderly, CampaignInv
<1> QED BY <1>1, <1>2, <1>3, GatewayInvariance, PTL DEF Spec, CampaignSpec, WorkspacesSpec

\* With a gateway in front, the drafts of a run file still have their claims, and a
\* call repeated after a timeout or a death leaves no claim too many but for the
\* submissions that ended between their two writes (submit_campaign_draft).
THEOREM GatewayCampaignTheorem == Spec => []SubmittedHasItsClaim /\ []OrphansAreDeaths
BY ComponentsTheorem, SubmittedTheorem, OrphansTheorem, PTL

\* With a gateway in front, the default workspace is one whose files are all made,
\* and a default that was settled stays (create_workspace, ensure_config).
THEOREM GatewayDefaultTheorem == Spec => []DefaultIsWhole /\ []SettledDefaultStays
BY ComponentsTheorem, WholeTheorem, SettledTheorem, PTL
=============================================================================
