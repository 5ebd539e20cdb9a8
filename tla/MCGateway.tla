----------------------------- MODULE MCGateway -----------------------------
(* A small instance of Gateway for TLC. *)
EXTENDS Gateway, TLC

CONSTANTS r1, cited, c1, c2, c3

\* Values and arguments.
Str(x)   == [Json("string") EXCEPT !.text = x]
Int1(i)  == [Json("integer") EXCEPT !.number = i]
List(vs) == [Json("array") EXCEPT !.items = vs]
Obj(f)   == [Json("object") EXCEPT !.members = f]

\* Frames.
Frame(method, id, era, params) ==
    [method |-> method, id |-> id, era |-> era, params |-> params, uri |-> Nobody,
     tool |-> "", args |-> Absent, asks |-> "old",
     size |-> 2, glued |-> FALSE, follows |-> FALSE]

Call(era, tool, args) ==
    [Frame("tools/call", TRUE, era, "object") EXCEPT !.tool = tool, !.args = args]

Spec1 == "tier" :> Str("projects") @@ "title" :> Str("t") @@ "basis" :> Str("owner")
         @@ "evidence" :> List(<<Str(cited)>>)
Two   == List(<<Obj(Spec1), Obj(Spec1)>>)

Begin     == Call("new", "campaign_begin", Obj("specs" :> Two))
NextArgs  == "run_id" :> Str(r1)
Query     == [Call("new", "campaign_next", Obj(NextArgs)) EXCEPT !.size = 3]
SubmitArgs(k) == NextArgs @@ "index" :> Int1(k) @@ "body" :> Str("b")
Submit(era, k) == Call(era, "campaign_submit_draft", Obj(SubmitArgs(k)))
Followed  == [Submit("new", 0) EXCEPT !.follows = TRUE]
DraftArgs == Spec1 @@ "body" :> Str("b")
DraftCall == Call("new", "claim_draft", Obj(DraftArgs))

Hello  == Frame("initialize", TRUE, "legacy", "object")
Notice == Frame("notifications/initialized", FALSE, "legacy", "absent")
Silent == [Submit("new", 1) EXCEPT !.id = FALSE]
Huge   == [Query EXCEPT !.size = 9]
Glued  == [Submit("new", 1) EXCEPT !.glued = TRUE]
Read(uri) == [Frame("resources/read", TRUE, "new", "object") EXCEPT !.uri = uri]
Odd(method, id, era) == Frame(method, id, era, IF era = "legacy" THEN "absent" ELSE "object")

Busy ==
    <<<<Hello, Submit("legacy", 0)>>,
      <<Submit("new", 0), Submit("new", 0)>>,
      <<Query, Followed>>, <<Begin, Submit("new", 1)>>,
      <<Submit("new", 2)>>, <<Glued>>, <<Huge>>, <<Hello, Silent>>>>

Sessions ==
    <<<<Query, Hello>>, <<Notice, Hello, Hello>>, <<Hello, Notice, Notice>>,
      <<Odd("server/discover", TRUE, "new"), Odd("ping", TRUE, "legacy")>>,
      <<Odd("response", TRUE, "legacy"), Odd("tools/list", TRUE, "unsupported")>>,
      <<Odd("ping", TRUE, "new"), Odd("nothing", TRUE, "new"), Hello>>,
      <<Odd("tools/list", TRUE, "invalid"), Odd("tools/call", TRUE, "legacy")>>,
      <<[Hello EXCEPT !.params = "null"], Odd("tools/list", TRUE, "legacy")>>,
      <<[Hello EXCEPT !.asks = "new"], Frame("tools/call", TRUE, "legacy", "null")>>,
      <<Odd("completion/complete", TRUE, "new"), Odd("prompts/get", TRUE, "new")>>,
      <<Odd("prompts/get", TRUE, "new"), Submit("legacy", 0)>>,
      <<Odd("notifications/progress", TRUE, "new"), Odd("notifications/cancelled", FALSE, "new")>>,
      <<Odd("notifications/cancelled", FALSE, "legacy"), Odd("garbage", TRUE, "legacy")>>,
      <<DraftCall, DraftCall>>, <<DraftCall, Read(c1)>>>>

\* One call each, around the edges of what the tools take.
Calls(tool, args) == [i \in DOMAIN args |-> <<Call("new", tool, args[i])>>]

Asking(f) == Obj("query" :> Str("q") @@ f)
Nothing   == <<Absent, Json("null"), Json("array"), Obj("workspace" :> Str(FirstName))>>

Edges ==
    Calls("claim_draft",
          <<Obj(Spec1), Obj("mood" :> Str("x") @@ DraftArgs), Obj("body" :> Json("null") @@ DraftArgs),
            Obj("evidence" :> List(<<Int1(1)>>) @@ DraftArgs),
            Obj("tier" :> Str("none") @@ DraftArgs),
            Obj("workspace" :> Str("elsewhere") @@ DraftArgs)>>)
    \o Calls("campaign_begin",
          <<Absent, Obj("specs" :> Json("null")), Obj("specs" :> Str("x")),
            Obj("specs" :> List(<<Str("x")>>)), Obj("specs" :> List(<<Obj("mood" :> Str("x") @@ Spec1)>>))>>)
    \o Calls("campaign_submit_draft",
          <<Obj("index" :> Json("number") @@ SubmitArgs(0)), Obj("index" :> Str("0") @@ SubmitArgs(0))>>)
    \o Calls("memory_ask",
          <<Obj(<<>>), Asking("include" :> Json("null")), Asking("include" :> Str("x")),
            Asking("embedding" :> Json("boolean")), Asking("embedding" :> Int1(1)),
            Asking("as_of" :> Str("t"))>>)
    \o Calls("claim_lifecycle",
          <<Obj("operation" :> Str("apply")), Obj("action" :> Str("approve")),
            Obj("operation" :> Str("prepare") @@ "superseded_ids" :> List(<<>>))>>)
    \o Calls("evidence_capture",
          <<Obj("file" :> Str("f")), Obj("file" :> Str("f") @@ "origin" :> Str("o")),
            Obj("file" :> Str("f") @@ "origin" :> Str("o") @@ "media_type" :> Str("m"))>>)
    \o Calls("workspace_current", <<Absent, Json("array"), Nothing[4]>>)
    \o Calls("memory_status", Nothing)
    \o Calls("memory_reindex", Nothing) \o Calls("no_such_tool", <<Absent>>)
    \o <<<<[Call("new", "memory_ask", Asking(<<>>)) EXCEPT !.size = 4]>>>>

FewScripts == Busy \o Sessions \o Edges
=============================================================================
