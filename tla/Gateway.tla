------------------------------ MODULE Gateway ------------------------------
(***************************************************************************)
(* The agent gateway (mcp/): one client talks to one stdio server at a     *)
(* time, and the campaign tools it calls share the run files with another  *)
(* process.  The server reads, handles and answers one frame after the     *)
(* other; it may die at any point, and the client then starts another and  *)
(* may repeat what was not answered.  A tool call that took five seconds   *)
(* has had its effect when it is answered with a timeout.                  *)
(***************************************************************************)
EXTENDS Transport, Campaign, Tools, Workspaces

CONSTANTS
    Srv, Other,    \* the processes: the gateway, and another campaign client
    FirstName,     \* the default workspace of a runtime directory that was set up
    MaxInput,      \* MCP_MAX_INPUT_BYTES, in parts of a frame
    Scripts,       \* bound: what a client may send, over all sessions; a sequence
    MaxFrames,     \* bound: the longest script
    MaxAhead,      \* bound: frames sent and not dealt with
    MaxFaults      \* bound: deaths, failed writes and edits by the owner

ASSUME GatewayAssumption ==
    /\ Clients = {Srv, Other} /\ Srv # Other /\ FirstName \in Names
    /\ MaxInput \in Nat /\ MaxFrames \in Nat /\ MaxAhead \in Nat /\ MaxFaults \in Nat

\* A frame: what the server reads of it; how many parts it has, and at least the brace
\* that opens it and the one that closes it; whether a byte follows that starts no
\* value; and whether it submits the item that campaign_next told.
IsFrame(f) ==
    /\ DOMAIN f = {"method", "id", "era", "params", "uri", "tool", "args", "asks",
                   "size", "glued", "follows"}
    /\ f.id \in BOOLEAN /\ f.era \in {"legacy", "new", "invalid", "unsupported"}
    /\ f.size \in Nat /\ f.size >= 2
    /\ DOMAIN f.args = {"kind", "text", "number", "items", "members"}
    /\ f.args.kind = "absent" => f.args = Absent
    /\ f.follows => f.tool = "campaign_submit_draft" /\ f.args.kind = "object"

ASSUME ScriptsAssumption ==
    \A i \in DOMAIN Scripts :
        /\ Len(Scripts[i]) \in 0 .. MaxFrames
        /\ \A n \in 1 .. Len(Scripts[i]) : IsFrame(Scripts[i][n])

VARIABLES
    session, \* SessionState: the version of the handshake, the initialized notice
    server,  \* what the server is doing
    call,    \* number of the frame it is handling
    script,  \* which of the scripts the client follows
    sent,    \* the frames sent so far: in the live session, with which hint; history
    told,    \* the answer to each frame; history
    hint,    \* the pending item campaign_next last told the client
    faults   \* bounded

apart       == <<script, workspacesVars>>
gatewayVars == <<apart, session, server, call, sent, told, hint, faults>>
vars == <<framing, campaignVars, gatewayVars>>

NoSession == [version |-> "none", initialized |-> FALSE]
Frames    == 1 .. MaxFrames
Numbered  == 1 .. Len(sent)
Dealt(n)  == told[n] # "none"
Script    == Scripts[script]

\* The frame as it was sent: a client that follows campaign_next submits the item
\* it was last told.
Req(n) == IF Script[n].follows
          THEN [Script[n] EXCEPT !.args.members["index"].number = sent[n].hint]
          ELSE Script[n]

Fault == faults < MaxFaults /\ faults' = faults + 1
NoFault == UNCHANGED faults

-----------------------------------------------------------------------------
(* The session (mcp/server.rs, mcp/protocol.rs) *)

LegacyOnly == {"initialize", "ping", "notifications/initialized", "logging/setLevel",
               "notifications/roots/list_changed", "resources/subscribe",
               "resources/unsubscribe"}
Handshakes == LegacyOnly \cup {"server/discover"}

\* method_info: which methods are notifications, and which need params.
Notifications == {"notifications/cancelled", "notifications/initialized",
                  "notifications/progress", "notifications/roots/list_changed"}
NeedsParams   == {"completion/complete", "initialize", "logging/setLevel",
                  "notifications/progress", "prompts/get", "resources/read",
                  "resources/subscribe", "resources/unsubscribe", "tools/call"}
Known == Notifications \cup NeedsParams \cup
         {"server/discover", "ping", "prompts/list", "resources/list",
          "resources/templates/list", "tools/list"}

\* decode_frame: what is no request is skipped when it carries an id, else fatal.
Decodes(req) == req.method \notin {"response", "garbage"}

\* validate_request_meta: "invalid" claims the new protocol and breaks its rules,
\* "unsupported" names a version the server does not have.
NewEra(req)  == req.era # "legacy"
EraFits(req) == /\ req.method \in LegacyOnly => ~NewEra(req)
                /\ req.method = "server/discover" => NewEra(req)

\* A request of the new protocol needs no handshake: it makes the session.
Opens(s, req) == /\ req.era = "new" /\ s.version = "none" /\ req.method \notin Handshakes
Enter(s, req) == IF Opens(s, req) THEN [s EXCEPT !.version = "new"] ELSE s

Gate(stops, code) == [stops |-> stops, code |-> code]

\* handle_inner: what a request must pass, in this order, before dispatch.
Gates(s, req) ==
    << Gate(req.era = "invalid", "invalid_params"),
       Gate(req.era = "unsupported", "unsupported"),
       Gate(~EraFits(req), "no_method"),
       Gate(~NewEra(req) /\ s.version = "none" /\ req.method \notin Handshakes, "plain"),
       Gate(req.method \notin Known, "no_method"),
       Gate((req.method \in Notifications) = req.id, "invalid_request"),
       Gate(req.method \in NeedsParams /\ req.params = "absent", "invalid_request") >>

Stopping(s, req) == {i \in DOMAIN Gates(s, req) : Gates(s, req)[i].stops}
Admitted(s, req) == Stopping(s, req) = {}
Refusal(s, req)  == Gates(s, req)[CHOOSE i \in Stopping(s, req) :
                                      \A j \in Stopping(s, req) : i <= j].code

\* read_resource: the claim named by the URI, as it is on disk.
Found(uri) == uri \in Claims /\ claim[uri] # Nobody

\* handle_read_resource.
ReadResource(req) ==
    IF req.params = "object" /\ Found(req.uri) THEN "ok" ELSE "invalid_params"

\* dispatch: the code of the answer, "ok" for a result.
Outcome(s, req) ==
    CASE req.method = "initialize" ->
           IF s.version # "none" \/ req.params # "object" THEN "plain" ELSE "ok"
      [] req.method = "notifications/initialized" ->
           IF s.version = "none" \/ s.initialized THEN "plain" ELSE "ok"
      [] req.method \in {"resources/subscribe", "resources/unsubscribe",
                         "completion/complete"} -> "no_method"
      [] req.method = "prompts/get" -> "invalid_params"
      [] req.method = "resources/read" -> ReadResource(req)
      [] OTHER -> "ok"

\* The session was entered before dispatch, whatever dispatch answers; then
\* handle_initialize, which keeps the version the client asked for, and
\* handle_initialized_notification.
Dispatch(s, req) ==
    LET done(method) == req.method = method /\ Outcome(s, req) = "ok"
    IN  CASE done("initialize") -> [s EXCEPT !.version = req.asks]
          [] done("notifications/initialized") -> [s EXCEPT !.initialized = TRUE]
          [] OTHER -> Enter(s, req)

Request == Req(call)
IsTool(req) == req.method = "tools/call"

\* handle_call_tool: JSON null arguments are no arguments.
Arguments(req) == IF req.args.kind = "null" THEN Absent ELSE req.args

\* The checks before the body of a tool, in their order.
Misused(req)   == req.params # "object" \/ req.tool \notin DOMAIN Inputs
Malformed(req) == ~Misused(req) /\ ~ValidArguments(Arguments(req), Inputs[req.tool])
TooLarge(req)  == ~Misused(req) /\ ~Malformed(req) /\ req.size > MaxInput
Reaches(req, t)  == /\ IsTool(req) /\ req.tool = t
                  /\ ~Misused(req) /\ ~Malformed(req) /\ ~TooLarge(req)

\* What the drafts and specs of a client cite, and that a campaign has an item for
\* each of its specs.
ASSUME CitesAssumption ==
    \A i \in DOMAIN Scripts : \A n \in 1 .. Len(Scripts[i]) :
        LET args == Arguments(Scripts[i][n])
        IN  /\ Reaches(Scripts[i][n], "claim_draft") /\ Draftable(args) => Citation(args) \in Cites
            /\ /\ Reaches(Scripts[i][n], "campaign_begin") /\ Specs(args) # <<>>
               /\ \A k \in DOMAIN Specs(args) : Draftable(Specs(args)[k])
               => \A k \in Items : Citation(Specs(args)[k + 1]) \in Cites

\* Bound: the runtime directory is only being made if the client asks for the
\* current workspace, and then it is empty at first.
Making == \E n \in 1..Len(Script) : Reaches(Script[n], "workspace_current")

Init ==
    /\ FramingInit /\ CampaignInit
    /\ script \in DOMAIN Scripts
    /\ IF Making THEN WorkspacesInit({}, NoName) ELSE WorkspacesInit(Names, FirstName)
    /\ session = NoSession /\ server = "reading" /\ call = 0
    /\ sent = <<>> /\ told = [n \in Frames |-> "none"] /\ hint = -1 /\ faults = 0

\* handle: only a call is answered; a notification is done without a word.
Answer(n, what) == told' = [told EXCEPT ![n] = IF Script[n].id THEN what ELSE "silent"]

\* run and write_frame: the answer is written before the next frame is read.
Done(what) == /\ Answer(call, what) /\ call' = 0 /\ server' = "reading"
              /\ UNCHANGED <<apart, sent>>

\* Mutant: a timeout is reported as a failure of the tool.
Finish_Failed(what) == Done(what) \/ Done("refused")

\* run_tool: past five seconds the outcome of the body is not reported.  Of the error
\* results (isError), "refused" is one whose text says what the body found wrong, and
\* "failed" one whose text is that of an I/O error.
Finish(what) == Done(what) \/ Done("timeout")

-----------------------------------------------------------------------------
(* The server *)

ReadSome(n) == /\ server = "reading" /\ Fill(n)
               /\ UNCHANGED <<campaignVars, gatewayVars>>

ReadEnd == /\ server = "reading" /\ FillEof
           /\ UNCHANGED <<campaignVars, gatewayVars>>

TakeFrame ==
    /\ server = "reading" /\ Take
    /\ LET req == Script[Next1]
       IN  \/ /\ Decodes(req)
              /\ call' = Next1 /\ server' = "handling" /\ UNCHANGED told
           \/ /\ req.method = "response"
              /\ told' = [told EXCEPT ![Next1] = "silent"] /\ UNCHANGED <<call, server>>
           \/ /\ req.method = "garbage"
              /\ server' = "failed" /\ UNCHANGED <<call, told>>
    /\ UNCHANGED <<campaignVars, apart, session, sent, hint, faults>>

\* A clean end, or an error of the framing: the session is over, unanswered.
Stop ==
    /\ server = "reading"
    /\ \/ Looks = "end" /\ server' = "ended"
       \/ Looks \in Broken /\ server' = "failed"
    /\ UNCHANGED <<framing, campaignVars, apart, session, call, sent, told, hint, faults>>

Refuse ==
    /\ server = "handling" /\ ~Admitted(session, Request)
    /\ session' = Enter(session, Request)
    /\ Done(Refusal(session, Request)) /\ NoFault
    /\ UNCHANGED <<framing, campaignVars, hint>>

HandleSession ==
    /\ server = "handling" /\ Admitted(session, Request) /\ ~IsTool(Request)
    /\ session' = Dispatch(session, Request)
    /\ Done(Outcome(session, Request)) /\ NoFault
    /\ UNCHANGED <<framing, campaignVars, hint>>

\* handle_call_tool and run_tool, up to the body of the tool.
Calling == /\ server = "handling" /\ Admitted(session, Request) /\ IsTool(Request)
           /\ session' = Enter(session, Request)
           /\ UNCHANGED framing

RefuseCall ==
    /\ Calling /\ NoFault
    /\ \/ Misused(Request) /\ Done("invalid_params")
       \/ Malformed(Request) /\ Done("malformed")
       \/ TooLarge(Request) /\ Done("invalid_params")
    /\ UNCHANGED <<campaignVars, hint>>

\* A body that stops before it writes, or only reads; one that cannot write.
Reply(what) == Finish(what) /\ NoFault /\ UNCHANGED <<campaignVars, hint>>
Breaks      == Finish("failed") /\ Fault /\ UNCHANGED <<campaignVars, hint>>

Args == Arguments(Request)
RunId == Text(Args, "run_id")

\* resolve_workspace: the one named, or the current one.
Resolved == ResolveWorkspace(Text(Args, "workspace")) # NoName

\* campaign_begin: the specs become the items of a new run.  Setting the mode of the
\* run file can fail after it was put in place (write_atomic_json): then the run is
\* there, and the answer is an error.
CallBegin ==
    /\ Calling /\ Reaches(Request, "campaign_begin")
    /\ IF Resolved /\ Specs(Args) # <<>> /\ \A i \in DOMAIN Specs(Args) : Draftable(Specs(Args)[i])
       THEN \/ /\ \E r \in Runs : BeginCampaign(r, [k \in Items |-> Citation(Specs(Args)[k + 1])])
               /\ (Finish("ok") /\ NoFault) \/ (Finish("failed") /\ Fault)
               /\ UNCHANGED hint
            \/ Breaks
       ELSE Reply("refused")

\* campaign_next; resume_campaign waits for the lock.
CallNext ==
    /\ Calling /\ Reaches(Request, "campaign_next")
    /\ IF Resolved /\ RunId \in Runs
       THEN /\ Resume(RunId) /\ NoFault
            /\ Finish(IF Valid(run[RunId]) THEN "ok" ELSE "refused")
            /\ hint' = IF told'[call] = "ok" THEN NextPending(RunId) ELSE hint
       ELSE Reply("refused")

\* campaign_submit_draft, until it has the lock and has looked at the run.
CallSubmit ==
    /\ Calling /\ Reaches(Request, "campaign_submit_draft")
    /\ IF Resolved /\ RunId \in Runs
       THEN /\ NoFault /\ UNCHANGED hint
            /\ \/ /\ StartSubmit(Srv, RunId, Index(Args), call)
                  /\ server' = "submitting" /\ UNCHANGED <<apart, call, sent, told>>
               \/ RefuseSubmit(Srv, RunId, Index(Args)) /\ Finish("refused")
       ELSE Reply("refused")

SubmitWrites ==
    /\ server = "submitting" /\ WriteClaim(Srv)
    /\ UNCHANGED <<framing, gatewayVars>>

\* A write that fails leaves its file as it was, or in place with its mode not set
\* (write_claim_atomic, write_atomic_json): the draft whose mode fails is one whose
\* checkpoint is lost, and the run file may be advanced though the call fails.
SubmitEnds ==
    /\ server = "submitting" /\ UNCHANGED <<framing, session, hint>>
    /\ \/ Checkpoint(Srv) /\ Finish("ok") /\ NoFault
       \/ /\ WriteClaimFails(Srv) \/ LoseCheckpoint(Srv) \/ Checkpoint(Srv)
          /\ Finish("failed") /\ Fault

\* claim_draft marks the index as stale (TrustedStore) and writes a new draft.
CallDraft ==
    /\ Calling /\ Reaches(Request, "claim_draft")
    /\ \/ /\ Resolved /\ Draftable(Args)
          /\ \/ /\ WriteDraft(Citation(Args), call)
                /\ server' = "drafted" /\ NoFault
                /\ UNCHANGED <<apart, call, sent, told, hint>>
             \/ Breaks
       \/ ~(Resolved /\ Draftable(Args)) /\ Reply("refused")

\* The draft is in place; its mode may still fail, and the draft then stays.
DraftEnds == /\ server = "drafted" /\ (Reply("ok") \/ Breaks)
             /\ UNCHANGED <<framing, session>>

Applies(t) == t = "claim_lifecycle" /\ Text(Args, "operation") = "apply"

\* The bodies that other modules follow: memory_ask, memory_reindex and
\* memory_status (TrustedStore), evidence_capture (Evidence), claim_lifecycle
\* (Lifecycle), workspace_current (Workspaces).  They touch no run file and make
\* no claim.  The body of claim_lifecycle checks its parameters once more, and takes
\* the workspace of an apply from the challenge.
CallOther ==
    /\ Calling
    /\ \E t \in DOMAIN Inputs \ {"campaign_begin", "campaign_next",
                                  "campaign_submit_draft", "claim_draft"} :
          /\ Reaches(Request, t)
          /\ \/ Reply("refused")
             \/ Breaks
             \/ (Resolved \/ Applies(t)) /\ Reply("ok")
             \/ t = "claim_lifecycle" /\ Reply("invalid_params")

\* Death anywhere; the lock goes with the process.
Running == server \in {"reading", "handling", "submitting", "drafted"}
Die ==
    /\ Running /\ Fault
    /\ server' = "dead" /\ call' = 0
    /\ \/ server # "submitting" /\ UNCHANGED campaignVars
       \/ server = "submitting" /\ (WriteClaimFails(Srv) \/ LoseCheckpoint(Srv))
    /\ UNCHANGED <<framing, apart, session, sent, told, hint>>

ServerStep == \/ \E n \in 1..Chunk : ReadSome(n)
              \/ ReadEnd \/ TakeFrame \/ Stop \/ Refuse \/ HandleSession
              \/ RefuseCall \/ CallBegin \/ CallNext \/ CallSubmit \/ CallDraft \/ CallOther
              \/ SubmitWrites \/ SubmitEnds \/ DraftEnds

-----------------------------------------------------------------------------
(* The client, external *)

Ahead == {n \in Numbered : ~Dealt(n) /\ sent[n].live}

More    == Len(sent) < Len(Script) /\ Cardinality(Ahead) < MaxAhead
Coming  == Script[Len(sent) + 1]
Bytes   == Value(Len(sent) + 1, Coming.size)

Send ==
    /\ Running /\ More
    /\ sent' = Append(sent, [live |-> TRUE, hint |-> hint])
    /\ Write(Bytes \o <<IF Coming.glued THEN Part("junk", 0) ELSE Gap>>)
    /\ UNCHANGED <<campaignVars, apart, session, server, call, told, hint, faults>>

\* It stops writing: between two values, within one, or before its newline.
\* Bound: not while workspaces are made.
Hangs ==
    /\ Running /\ ~Making
    /\ UNCHANGED <<campaignVars, apart, session, server, call, told, hint, faults>>
    /\ \/ Close(<<>>) /\ UNCHANGED sent
       \/ /\ More
          /\ \E n \in 1 .. Coming.size :
                /\ Close(SubSeq(Bytes, 1, n))
                /\ sent' = Append(sent, [live |-> n = Coming.size, hint |-> hint])

\* It starts a server anew; what it had not been answered is lost to it.
Reconnect ==
    /\ ~Running /\ Len(sent) < Len(Script)
    /\ wire' = <<>> /\ open' = TRUE /\ buf' = <<>> /\ eof' = FALSE
    /\ session' = NoSession /\ server' = "reading" /\ call' = 0
    /\ sent' = [n \in Numbered |-> [sent[n] EXCEPT !.live = FALSE]]
    /\ UNCHANGED <<campaignVars, apart, told, hint, faults>>

-----------------------------------------------------------------------------
(* The other process and the owner *)

\* Bound: they move only if the client has a call to make that they can affect.
Elsewhere == /\ \E n \in 1..Len(Script) :
                   \E t \in {"campaign_submit_draft", "campaign_next"} : Reaches(Script[n], t)
             /\ UNCHANGED <<framing, apart, session, server, call, sent, told, hint>>

\* Bound: not if the client needs the run id.
OtherBegins  == /\ \A n \in 1..Len(Script) : ~Reaches(Script[n], "campaign_begin")
                /\ \E r \in Runs, f \in [Items -> Cites] : BeginCampaign(r, f)
                /\ NoFault
OtherSubmits == \E r \in Runs, k \in Items : StartSubmit(Other, r, k, 0) /\ NoFault
OtherWrites  == WriteClaim(Other) /\ NoFault
OtherEnds    == \/ Checkpoint(Other) /\ NoFault
                \/ (WriteClaimFails(Other) \/ LoseCheckpoint(Other)) /\ Fault
OtherFinishes == \E r \in Runs : FinishCampaign(r) /\ NoFault
OwnerEdits   == /\ Fault
                /\ \E r \in Runs : \/ DamageRun(r)
                                   \/ \E k \in Items : Supersede(r, k)

\* The commands that make workspaces, run by hand.  Bound: they move while the
\* server has the call, which depends on nothing they did earlier.
Moves == /\ Making /\ server = "handling"
         /\ UNCHANGED <<framing, campaignVars, script, session, server, call, sent, told, hint>>
         /\ \/ NoFault /\ \E p \in Hands : HandSteps(p)
            \/ Fault /\ \E p \in Hands : GiveUp(p)

Next ==
    \/ Moves
    \/ ServerStep \/ Die
    \/ Send \/ Hangs \/ Reconnect
    \/ Elsewhere /\ (OtherBegins \/ OtherSubmits \/ OtherWrites \/ OtherEnds
                     \/ OtherFinishes \/ OwnerEdits)

\* A server that can go on does so, and the other process finishes what it began.
Fairness == /\ WF_vars(ServerStep)
            /\ WF_vars(Elsewhere /\ (OtherWrites \/ OtherEnds))

Spec == Init /\ [][Next]_vars /\ Fairness

-----------------------------------------------------------------------------
(* Properties *)

Answers == {"ok", "refused", "failed", "malformed", "timeout", "plain", "no_method",
            "invalid_request", "invalid_params", "unsupported"}

\* Whatever the reads return, the frames of a session are handled in the order
\* they were sent, each one once and none skipped, a call is answered before the
\* next frame is handled, and a notification never is; a tool is at work only for
\* a caller that can be answered, after a version both sides know was agreed on;
\* and however long a frame is, no more than the limit and one read are held
\* (next_value, handle, handle_inner).
HandledInOrder ==
    /\ Len(buf) <= MaxBuffer + Chunk
    /\ server \in {"submitting", "drafted"} =>
          Request.id /\ Request.era \in {"legacy", "new"} /\ session.version # "none"
    /\ \A n \in Numbered :
          /\ Dealt(n) \/ call = n =>
                \A m \in 1 .. n - 1 : sent[m].live /\ sent[n].live => Dealt(m)
          /\ Dealt(n) /\ sent[n].live => call # n
          /\ told[n] \in Answers => Script[n].id

MadeBy(n) == {c \in Claims : origin[c].call = n}
Recorded(r) == {run[r].drafts[k].claim : k \in Items}

\* A call is turned away for its arguments exactly when they break the schema that
\* tools/list gave the client for the tool (validate_arguments, *_input_schema).
RefusedAsAdvertised ==
    \A n \in Numbered :
        LET req == Req(n)
            given == IF Arguments(req) = Absent THEN Json("object") ELSE Arguments(req)
        IN  IsTool(req) /\ told[n] \in {"ok", "refused", "failed", "timeout", "malformed"} =>
                (told[n] = "malformed" <=> ~Conforms(given, Advertised[req.tool]))

\* What the client was told is what happened to the files: an accepted submission
\* is on record and an accepted draft exists, a call that a check turned away, before
\* its body or in it, left nothing, and no call, failed, timed out or repeated, has two
\* claims.  Only an answer that tells of an I/O error or a timeout leaves open whether
\* the claim was made (run_tool, submit_campaign_draft, run_claim_draft,
\* write_claim_atomic).
AnswerTellsOutcome ==
    \A n \in Numbered :
        LET req == Req(n)
        IN  /\ Cardinality(MadeBy(n)) <= 1
            /\ told[n] \in Answers \ {"ok", "failed", "timeout"} => MadeBy(n) = {}
            /\ told[n] = "ok" /\ Reaches(req, "claim_draft") => MadeBy(n) # {}
            /\ told[n] = "ok" /\ Reaches(req, "campaign_submit_draft") =>
                  /\ MadeBy(n) # {}
                  /\ MadeBy(n) \subseteq UNION {Recorded(r) : r \in Runs}

Waiting == {n \in Numbered : sent[n].live /\ Script[n].id /\ ~Dealt(n)}

\* A call that was written to its end is answered, unless the session is over: a
\* client that has said what it had to say (scripts end) waits for nothing.
EveryCallAnswered == Waiting # {} ~> (Waiting = {} \/ ~Running)
=============================================================================
