------------------------------ MODULE Lifecycle ------------------------------
(***************************************************************************)
(* The claim_lifecycle tool (prepare_lifecycle and apply_lifecycle of      *)
(* mcp/gateway.rs) on top of the ceremony of Approval.  Preparing reads    *)
(* the claim, then its digest, then the claim it supersedes, each with a   *)
(* lock of its own, compares what it read with what the caller asserts,    *)
(* and asks for a challenge over it; only then, under one exclusive lock,  *)
(* prepare_challenge compares everything with the canonical store again.   *)
(* Applying looks the challenge up and compares the caller's assertions    *)
(* with it before apply_challenge takes the lock.                          *)
(*                                                                         *)
(* One call of prepare is followed at a time, and only while an id is left *)
(* for its challenge: calls share nothing but the claims they read.  A     *)
(* refusal, an error of a read and the death of the server all abandon the *)
(* call.                                                                   *)
(***************************************************************************)
EXTENDS Approval

CONSTANTS
    Sayings, \* what callers assert: a claim, an action and a text, or Unsaid
    Unsaid

VARIABLE ask \* the call of prepare in progress

lifecycleVars == <<vars, ask>>

\* lifecycle_action: a batch cannot be asked for with this tool.
Actions == {"approve", "supersede", "revoke"}

ASSUME SayingAssumption ==
    /\ Sayings # {}
    /\ \A says \in Sayings :
          says \in [claim : Claims \cup {Unsaid}, op : Actions \cup {Unsaid},
                    ver : Nat \cup {Unsaid}]

NoAsk == [step |-> "idle", op |-> "none", claim |-> Nobody, ver |-> Unsaid,
          first |-> Blank, bound |-> [c \in Claims |-> Blank]]

LifecycleInit == Init /\ ask = NoAsk

\* Ids no challenge has yet.
Unused == {x \in Challenges : chal[x].op = "none"}

Says(asserted, actual) == asserted \in {Unsaid, actual}

-----------------------------------------------------------------------------
(* prepare_lifecycle *)

\* The claim is read for its status and for what it supersedes.
ReadClaim(op, c, says) ==
    /\ ask = NoAsk /\ holder = Nobody /\ Unused # {}
    /\ claim[c].st # "absent"
    /\ ask' = [NoAsk EXCEPT !.step = "digest", !.op = op, !.claim = c,
                            !.ver = says.ver, !.first = claim[c]]
    /\ UNCHANGED vars

\* canonical_digest reads the file a second time.
ReadDigest ==
    LET c == ask.claim
    IN  /\ ask.step = "digest" /\ holder = Nobody
        /\ claim[c].st # "absent" /\ Says(ask.ver, claim[c].ver)
        /\ ask' = [ask EXCEPT !.step = IF ask.op = "supersede" THEN "prior" ELSE "prepare",
                              !.bound = [@ EXCEPT ![c] = claim[c]]]
        /\ UNCHANGED vars

\* superseded_prior_digest: without a superseded claim the digest is empty.
ReadPrior ==
    LET d == Prior(ask.claim)
    IN  /\ ask.step = "prior" /\ holder = Nobody
        /\ IF Supersedes[ask.claim] = {}
           THEN ask' = [ask EXCEPT !.step = "prepare"]
           ELSE /\ d \in Approved
                /\ ask' = [ask EXCEPT !.step = "prepare", !.bound = [@ EXCEPT ![d] = claim[d]]]
        /\ UNCHANGED vars

\* Mutant: what was read without the lock is not compared again.
StillCurrent_Trusting == Applicable(ask.op, ask.claim)

\* validate_challenge_against_claim under the lock: the second read is still the
\* canonical text, the prior digest is still current, and what is revoked is
\* still what the first read verified.
StillCurrent ==
    LET c == ask.claim
    IN  /\ Applicable(ask.op, c)
        /\ claim[c] = ask.bound[c]
        /\ ask.op = "supersede" => claim[Prior(c)] = ask.bound[Prior(c)]
        /\ ask.op = "revoke" => ask.first = claim[c]

PrepareAsked(x) ==
    /\ ask.step = "prepare" /\ holder = Nobody /\ x \in Unused
    /\ StillCurrent
    /\ Persist(x, [Prepared(ask.op, {ask.claim}) EXCEPT !.bound = ask.bound])
    /\ ask' = NoAsk
    /\ UNCHANGED <<claim, cites, holder, procVars, uses, redrafts, edits>>

Abandon == ask # NoAsk /\ ask' = NoAsk /\ UNCHANGED vars

-----------------------------------------------------------------------------
(* apply_lifecycle.  What it compares never changes once a challenge exists,  *)
(* so that looking it up and comparing are part of the step that validates.  *)

\* find_challenge: some workspace has a readable record of that id.
Known(x) == chal[x].op # "none"

Agrees(says, x) ==
    \E c \in chal[x].items :
        /\ Says(says.claim, c) /\ Says(says.op, chal[x].op)
        /\ Says(says.ver, chal[x].bound[c].ver)

ApplyAsked(p, x, says) ==
    /\ Known(x) /\ chal[x].op \in Actions /\ Agrees(says, x)
    /\ Validate(p, x)
    /\ UNCHANGED ask

-----------------------------------------------------------------------------

\* The batch operations have no tool: they are called as a library.
Batches ==
    \E x \in Challenges :
        \/ \E S \in SUBSET Claims : ask = NoAsk /\ Prepare(x, "batch", S)
        \/ \E p \in Procs : chal[x].op = "batch" /\ Validate(p, x)

\* The owner at the terminal: approval show and approval grant.
Ceremony == \E x \in Challenges, S \in SUBSET Claims : Known(x) /\ Grant(x, S)

Applying ==
    \E p \in Procs :
        \/ \E c \in Claims : PlanItem(p, c) \/ PlanFails(p, c)
        \/ Consume(p) \/ ConsumeFails(p) \/ Commit(p) \/ CommitFails(p)
        \/ Finish(p) \/ Respond(p) \/ Crash(p)

Elsewhere ==
    \/ \E c \in Claims :
          DirectApprove(c) \/ DirectRevoke(c) \/ Draft(c) \/ Redraft(c) \/ OutsideEdit(c)
    \/ Tick

LifecycleNext ==
    \/ \E op \in Actions, c \in Claims, says \in Sayings :
          Says(says.claim, c) /\ Says(says.op, op) /\ ReadClaim(op, c, says)
    \/ ReadDigest \/ ReadPrior \/ Abandon
    \/ \E x \in Challenges :
          \/ PrepareAsked(x)
          \/ \E p \in Procs, says \in Sayings : ApplyAsked(p, x, says)
    \/ Batches /\ UNCHANGED ask
    \/ Ceremony /\ UNCHANGED ask
    \/ Applying /\ UNCHANGED ask
    \/ Elsewhere /\ UNCHANGED ask

LifecycleSpec == LifecycleInit /\ [][LifecycleNext]_lifecycleVars

-----------------------------------------------------------------------------
(* Properties *)

\* A challenge binds a state that its claims had together: although the tool read
\* the claim, its digest and the claim to replace at three moments, and texts and
\* statuses change in between, what is written equals the canonical store of the
\* moment of writing (prepare_challenge compares it again under the lock).
BornCurrent ==
    [][\A x \in Challenges :
          chal[x].op = "none" /\ chal'[x].op # "none" =>
              chal'[x].bound = Bind(chal'[x].op, chal'[x].items)]_lifecycleVars

\* The tool adds no transition to the ceremony (Spec of Approval).
ImplementsCeremony == Spec
=============================================================================
