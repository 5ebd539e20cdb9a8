------------------------------ MODULE Approval ------------------------------
(***************************************************************************)
(* The approval ceremony (approval.rs) over the claims of one workspace:   *)
(* a client prepares a challenge that binds an action to the digests of    *)
(* the claims it concerns, the owner grants it (item by item for a batch)  *)
(* and hands out a token, a client applies it.  Every operation runs under *)
(* the exclusive workspace lock; apply takes several steps under it, may   *)
(* die between them, and outside edits of drafts ignore the lock.          *)
(*                                                                         *)
(* The canonical store is taken at the level of AtomicStore: a commit is   *)
(* one step (TrustedStore shows that this is what a reader sees).  A token *)
(* is identified with its challenge, so presenting another token, like     *)
(* every other refusal before the first write, is a stuttering step.       *)
(***************************************************************************)
EXTENDS Integers, FiniteSets

CONSTANTS
    Procs,         \* processes that apply challenges (MCP servers, commands)
    Challenges,    \* challenge ids
    Claims, Supersedes, Supports, InitStatus,
    Lifetime,      \* of a challenge: 15 minutes in the code
    TokenLifetime, \* of a token: 5 minutes in the code
    MaxRedrafts, MaxEdits, \* bounds
    Nobody

Statuses   == {"absent", "draft", "approved", "superseded", "revoked"}
Operations == {"approve", "supersede", "revoke", "batch"}
Content    == [st : Statuses, ver : Nat]

ASSUME StoreAssumption ==
    /\ Supersedes \in [Claims -> SUBSET Claims] /\ Supports \in [Claims -> SUBSET Claims]
    /\ \A c \in Claims : c \notin Supersedes[c]
    /\ InitStatus \in [Claims -> Statuses]
ASSUME ClockAssumption ==
    /\ Lifetime \in Nat /\ TokenLifetime \in Nat /\ MaxRedrafts \in Nat /\ MaxEdits \in Nat
ASSUME NobodyAssumption == Nobody \notin Procs /\ Nobody \notin Challenges /\ Nobody \notin Claims

VARIABLES
    claim,   \* canonical claims: status and version of the text
    cites,   \* the challenge that authorised the last transition of a claim
    chal,    \* persisted challenges
    holder,  \* holder of the exclusive workspace lock between its steps
    pc, call, todo, failed, plan,  \* an apply in progress
    uses,    \* history: how often a token was accepted, whether ever late, and the items
             \* whose write failed when the file was in place
    redrafts, edits \* new texts so far: by commands, and from outside

procVars == <<pc, call, todo, failed, plan>>
vars == <<claim, cites, chal, holder, procVars, uses, redrafts, edits>>

\* An expiry is kept as the time left until it: `now > expires_at` in the code is
\* left = Past here, and the clock may run for ever.
Past     == -1
Times    == Nat \cup {Past}
Later(t) == IF t = Past THEN Past ELSE t - 1

Blank       == [st |-> "absent", ver |-> 0]
NoChallenge == [op |-> "none", items |-> {}, bound |-> [c \in Claims |-> Blank],
                left |-> Past, granted |-> {}, tokenLeft |-> Past, consumed |-> FALSE]
NoPlan == [claim |-> Nobody, ver |-> 0]

Init ==
    /\ claim = [c \in Claims |-> [st |-> InitStatus[c], ver |-> 0]]
    /\ cites = [c \in Claims |-> Nobody]
    /\ chal = [x \in Challenges |-> NoChallenge]
    /\ holder = Nobody
    /\ pc = [p \in Procs |-> "idle"]
    /\ call = [p \in Procs |-> Nobody]
    /\ todo = [p \in Procs |-> {}]
    /\ failed = [p \in Procs |-> {}]
    /\ plan = [p \in Procs |-> NoPlan]
    /\ uses = [x \in Challenges |-> [count |-> 0, late |-> FALSE, broken |-> {}]]
    /\ redrafts = 0 /\ edits = 0

-----------------------------------------------------------------------------
(* What the code checks. *)

Approved == {c \in Claims : claim[c].st = "approved"}

\* prepare_approve_unlocked and prepare_revoke_unlocked.
CanCommit(op, c) ==
    IF op = "revoke" THEN c \in Approved
    ELSE claim[c].st = "draft" /\ Supersedes[c] \cup Supports[c] \subseteq Approved

\* The first superseded claim in the order of ids, whose verification digest
\* the challenge binds too.
Prior(c) == CHOOSE d \in Supersedes[c] : TRUE

\* validate_challenge_against_claim, apart from the digests.
Applicable(op, c) ==
    CASE op \in {"approve", "batch"} -> claim[c].st = "draft" /\ Supersedes[c] = {}
      [] op = "supersede" -> claim[c].st = "draft" /\ Supersedes[c] # {}
                             /\ Prior(c) \in Approved
      [] op = "revoke" -> c \in Approved

\* Mutant: the status alone is compared, not the digest.
Matches_AnyText(x, c) ==
    /\ Applicable(chal[x].op, c)
    /\ chal[x].op = "supersede" => claim[Prior(c)] = chal[x].bound[Prior(c)]

Matches(x, c) ==
    /\ Applicable(chal[x].op, c)
    /\ claim[c] = chal[x].bound[c]
    /\ chal[x].op = "supersede" => claim[Prior(c)] = chal[x].bound[Prior(c)]

InTime(x) == chal[x].left # Past /\ chal[x].tokenLeft # Past

\* Mutant: a consumed token is good for another call.
TokenValid_Reusable(x) == chal[x].granted # {} /\ InTime(x)

TokenValid(x) == chal[x].granted # {} /\ ~chal[x].consumed /\ InTime(x)

-----------------------------------------------------------------------------
(* Prepare and grant: one write under the lock each. *)

\* What the action digest binds: the digests of the claims concerned.
Bind(op, items) ==
    [c \in Claims |->
        IF c \in items \/ (op = "supersede" /\ \E d \in items : c = Prior(d))
        THEN claim[c] ELSE Blank]

\* normalize_challenge_items: at least one, and none of them twice.
Bindable(items) == items # {}

\* validate_prepare: a batch asks for approvals, the others concern one claim.
Askable(op, items) == Bindable(items) /\ (op = "batch" \/ Cardinality(items) = 1)

Prepared(op, items) ==
    [NoChallenge EXCEPT !.op = op, !.items = items, !.bound = Bind(op, items), !.left = Lifetime]

\* validate_challenge_item_decisions: what is not granted of the items is skipped.
Decided(r) == r.granted \subseteq r.items

\* What the validator of records accepts, on every read of a challenge and before
\* every write: decisions about bound items only, a token only for a granted
\* challenge, no token that outlives it, and no use without a grant.
WellFormed(r) ==
    /\ r.op = "none" \/ Bindable(r.items)
    /\ Decided(r)
    /\ r.op # "batch" => r.granted \in {{}, r.items}
    /\ r.granted = {} => r.tokenLeft = Past /\ ~r.consumed
    /\ r.tokenLeft <= r.left

\* The record is replaced by a rename; a reader finds the old one or the new one.
Persist(x, r) == chal' = [chal EXCEPT ![x] = r]

Prepare(x, op, items) ==
    /\ holder = Nobody /\ chal[x].op = "none"
    /\ Askable(op, items)
    /\ \A c \in items : Applicable(op, c)
    /\ Persist(x, Prepared(op, items))
    /\ UNCHANGED <<claim, cites, holder, procVars, uses, redrafts, edits>>

\* The owner confirms the only item of a challenge, and confirms or skips each
\* item of a batch; a walk that skips all of them records nothing.
Decisions(x) ==
    IF chal[x].op = "batch" THEN (SUBSET chal[x].items) \ {{}} ELSE {chal[x].items}

\* Mutant: the token gets its full lifetime whatever is left of the challenge.
TokenLeft_Uncapped(x) == IF chal[x].left = Past THEN Past ELSE TokenLifetime

\* The token does not outlive its challenge.
TokenLeft(x) == IF TokenLifetime > chal[x].left THEN chal[x].left ELSE TokenLifetime

\* A challenge is granted once.
Grant(x, decided) ==
    /\ holder = Nobody /\ chal[x].op # "none"
    /\ chal[x].granted = {} /\ chal[x].left # Past
    /\ decided \in Decisions(x)
    /\ Persist(x, [chal[x] EXCEPT !.granted = decided, !.tokenLeft = TokenLeft(x)])
    /\ UNCHANGED <<claim, cites, holder, procVars, uses, redrafts, edits>>

-----------------------------------------------------------------------------
(* Apply.  A single challenge validates and plans before its token is      *)
(* consumed, a batch validates, consumes, then plans and commits each item.*)

GoTo(p, label) == pc' = [pc EXCEPT ![p] = label]
IsBatch(p) == chal[call[p]].op = "batch"

Return(p) ==
    /\ holder' = IF holder = p THEN Nobody ELSE holder
    /\ GoTo(p, "idle")
    /\ call' = [call EXCEPT ![p] = Nobody]
    /\ todo' = [todo EXCEPT ![p] = {}]
    /\ failed' = [failed EXCEPT ![p] = {}]
    /\ plan' = [plan EXCEPT ![p] = NoPlan]
    /\ UNCHANGED <<claim, cites, chal, uses, redrafts, edits>>

\* Mutant: the claims are validated before the lock is taken.
Validate_Unlocked(p, x) ==
    LET good == {c \in chal[x].granted : Matches(x, c)}
    IN  /\ pc[p] = "idle"
        /\ TokenValid(x)
        /\ chal[x].op # "batch" => good = chal[x].granted
        /\ call' = [call EXCEPT ![p] = x]
        /\ todo' = [todo EXCEPT ![p] = good]
        /\ failed' = [failed EXCEPT ![p] = chal[x].granted \ good]
        /\ GoTo(p, IF chal[x].op = "batch" THEN "consume" ELSE "plan")
        /\ UNCHANGED <<holder, claim, cites, chal, plan, uses, redrafts, edits>>

Validate(p, x) ==
    LET good == {c \in chal[x].granted : Matches(x, c)}
    IN  /\ pc[p] = "idle" /\ holder = Nobody
        /\ TokenValid(x)
        /\ chal[x].op # "batch" => good = chal[x].granted
        /\ holder' = p
        /\ call' = [call EXCEPT ![p] = x]
        /\ todo' = [todo EXCEPT ![p] = good]
        /\ failed' = [failed EXCEPT ![p] = chal[x].granted \ good]
        /\ GoTo(p, IF chal[x].op = "batch" THEN "consume" ELSE "plan")
        /\ UNCHANGED <<claim, cites, chal, plan, uses, redrafts, edits>>

\* The claim is read again; the plan is made from what is found.
PlanItem(p, c) ==
    /\ pc[p] = "plan" /\ c \in todo[p]
    /\ CanCommit(chal[call[p]].op, c)
    /\ plan' = [plan EXCEPT ![p] = [claim |-> c, ver |-> claim[c].ver]]
    /\ todo' = [todo EXCEPT ![p] = @ \ {c}]
    /\ GoTo(p, IF IsBatch(p) THEN "commit" ELSE "consume")
    /\ UNCHANGED <<claim, cites, chal, holder, call, failed, uses, redrafts, edits>>

\* Mutant: a failed item ends the batch.
PlanFails_Aborts(p, c) ==
    /\ pc[p] = "plan" /\ c \in todo[p]
    /\ ~CanCommit(chal[call[p]].op, c)
    /\ todo' = [todo EXCEPT ![p] = {}]
    /\ failed' = [failed EXCEPT ![p] = @ \cup {c}]
    /\ UNCHANGED <<claim, cites, chal, holder, pc, call, plan, uses, redrafts, edits>>

\* A single challenge is refused with its token intact; a batch goes on.
PlanFails(p, c) ==
    /\ pc[p] = "plan" /\ c \in todo[p]
    /\ ~CanCommit(chal[call[p]].op, c)
    /\ IF IsBatch(p)
       THEN /\ todo' = [todo EXCEPT ![p] = @ \ {c}]
            /\ failed' = [failed EXCEPT ![p] = @ \cup {c}]
            /\ UNCHANGED <<claim, cites, chal, holder, pc, call, plan, uses, redrafts, edits>>
       ELSE Return(p)

Spend(p) ==
    /\ Persist(call[p], [chal[call[p]] EXCEPT !.consumed = TRUE])
    /\ uses' = [uses EXCEPT ![call[p]] =
                   [count |-> @.count + 1, late |-> @.late \/ ~InTime(call[p]), broken |-> @.broken]]
    /\ GoTo(p, IF IsBatch(p) THEN "plan" ELSE "commit")
    /\ UNCHANGED <<claim, cites, holder, call, todo, failed, plan, redrafts, edits>>

\* Mutant: the token is not validated again when it is consumed.
Consume_Unchecked(p) == pc[p] = "consume" /\ Spend(p)

Consume(p) == pc[p] = "consume" /\ TokenValid(call[p]) /\ Spend(p)

ConsumeFails(p) == pc[p] = "consume" /\ ~TokenValid(call[p]) /\ Return(p)

\* commit_approve_unlocked, commit_revoke_unlocked.  The file is overwritten
\* with the planned text; a supersession compares its preimage first.  Once the file
\* is in place, its mode may still fail (write_claim_atomic): a batch calls the item
\* failed then, and a single challenge has an error for its answer.
Commit(p) ==
    LET c == plan[p].claim
        revoking == chal[call[p]].op = "revoke"
        replaced == IF revoking THEN {} ELSE Supersedes[c]
    IN  /\ pc[p] = "commit"
        /\ replaced # {} => claim[c].ver = plan[p].ver
        /\ claim' = [d \in Claims |->
               CASE d = c -> [st |-> IF revoking THEN "revoked" ELSE "approved", ver |-> plan[p].ver]
                 [] d \in replaced -> [claim[d] EXCEPT !.st = "superseded"]
                 [] OTHER -> claim[d]]
        /\ cites' = [cites EXCEPT ![c] = call[p]]
        /\ plan' = [plan EXCEPT ![p] = NoPlan]
        /\ GoTo(p, IF IsBatch(p) THEN "plan" ELSE "done")
        /\ \/ UNCHANGED <<failed, uses>>
           \/ /\ IsBatch(p)
              /\ failed' = [failed EXCEPT ![p] = @ \cup {c}]
              /\ uses' = [uses EXCEPT ![call[p]].broken = @ \cup {c}]
        /\ UNCHANGED <<chal, holder, call, todo, redrafts, edits>>

\* A begin_canonical_mutation or a write that fails before the file is in place, or
\* a preimage that changed.
CommitFails(p) ==
    /\ pc[p] = "commit"
    /\ IF IsBatch(p)
       THEN /\ failed' = [failed EXCEPT ![p] = @ \cup {plan[p].claim}]
            /\ plan' = [plan EXCEPT ![p] = NoPlan]
            /\ GoTo(p, "plan")
            /\ UNCHANGED <<claim, cites, chal, holder, call, todo, uses, redrafts, edits>>
       ELSE Return(p)

Finish(p) ==
    /\ pc[p] = "plan" /\ todo[p] = {} /\ IsBatch(p)
    /\ GoTo(p, "done")
    /\ UNCHANGED <<claim, cites, chal, holder, call, todo, failed, plan, uses, redrafts, edits>>

Respond(p) == pc[p] = "done" /\ Return(p)

\* Death of the process between two steps.
Crash(p) == pc[p] # "idle" /\ Return(p)

-----------------------------------------------------------------------------
(* Everything else that happens to the claims. *)

\* Commands of the owner and drafts of agents that need no challenge.
DirectApprove(c) ==
    /\ holder = Nobody /\ CanCommit("approve", c)
    /\ claim' = [d \in Claims |->
                   [claim[d] EXCEPT !.st = IF d = c THEN "approved"
                                           ELSE IF d \in Supersedes[c] THEN "superseded" ELSE @]]
    /\ cites' = [cites EXCEPT ![c] = Nobody]
    /\ UNCHANGED <<chal, holder, procVars, uses, redrafts, edits>>

DirectRevoke(c) ==
    /\ holder = Nobody /\ CanCommit("revoke", c)
    /\ claim' = [claim EXCEPT ![c].st = "revoked"]
    /\ cites' = [cites EXCEPT ![c] = Nobody]
    /\ UNCHANGED <<chal, holder, procVars, uses, redrafts, edits>>

Draft(c) ==
    /\ holder = Nobody /\ claim[c].st = "absent"
    /\ Supersedes[c] # {} => Supersedes[c] \cap Approved # {}
    /\ claim' = [claim EXCEPT ![c].st = "draft"]
    /\ UNCHANGED <<cites, chal, holder, procVars, uses, redrafts, edits>>

Redraft(c) ==
    /\ holder = Nobody /\ claim[c].st = "draft" /\ redrafts < MaxRedrafts
    /\ Supersedes[c] # {} => Supersedes[c] \cap Approved # {}
    /\ redrafts' = redrafts + 1
    /\ claim' = [claim EXCEPT ![c].ver = redrafts + 1]
    /\ UNCHANGED <<cites, chal, holder, procVars, uses, edits>>

\* Versions above MaxRedrafts are the texts written by an editor.
OutsideTexts == MaxRedrafts + 1 .. MaxRedrafts + MaxEdits

\* An editor changes the text of a draft; it does not know the lock.
OutsideEdit(c) ==
    /\ edits < MaxEdits /\ claim[c].st = "draft"
    /\ edits' = edits + 1
    /\ claim' = [claim EXCEPT ![c].ver = MaxRedrafts + edits + 1]
    /\ UNCHANGED <<cites, chal, holder, procVars, uses, redrafts>>

Tick ==
    /\ chal' = [x \in Challenges |-> [chal[x] EXCEPT !.left = Later(@), !.tokenLeft = Later(@)]]
    /\ UNCHANGED <<claim, cites, holder, procVars, uses, redrafts, edits>>

Next ==
    \/ \E x \in Challenges :
          \/ \E op \in Operations, S \in SUBSET Claims : Prepare(x, op, S)
          \/ \E S \in SUBSET Claims : Grant(x, S)
          \/ \E p \in Procs : Validate(p, x)
    \/ \E p \in Procs :
          \/ \E c \in Claims : PlanItem(p, c) \/ PlanFails(p, c)
          \/ Consume(p) \/ ConsumeFails(p) \/ Commit(p) \/ CommitFails(p)
          \/ Finish(p) \/ Respond(p) \/ Crash(p)
    \/ \E c \in Claims :
          DirectApprove(c) \/ DirectRevoke(c) \/ Draft(c) \/ Redraft(c) \/ OutsideEdit(c)
    \/ Tick

Spec == Init /\ [][Next]_vars

-----------------------------------------------------------------------------
(* Properties *)

Challenge ==
    [op : Operations \cup {"none"}, items : SUBSET Claims, bound : [Claims -> Content],
     left : Times, granted : SUBSET Claims, tokenLeft : Times, consumed : BOOLEAN]

\* The types, and: a record that the program wrote is one it accepts when it
\* reads it back (validate_challenge_record).
TypeOK ==
    /\ claim \in [Claims -> Content] /\ cites \in [Claims -> Challenges \cup {Nobody}]
    /\ chal \in [Challenges -> Challenge]
    /\ \A x \in Challenges : WellFormed(chal[x])
    /\ redrafts \in Nat /\ edits \in Nat /\ holder \in Procs \cup {Nobody}
    /\ pc \in [Procs -> {"idle", "plan", "consume", "commit", "done"}]
    /\ call \in [Procs -> Challenges \cup {Nobody}]
    /\ todo \in [Procs -> SUBSET Claims] /\ failed \in [Procs -> SUBSET Claims]
    /\ plan \in [Procs -> [claim : Claims \cup {Nobody}, ver : Nat]]
    /\ uses \in [Challenges -> [count : Nat, late : BOOLEAN, broken : SUBSET Claims]]

\* A claim that cites a challenge was granted under it, item by item, its token
\* was consumed, and the claim has the text whose digest the owner confirmed
\* (the digests bound by prepare, checked again by apply), unless an editor that
\* ignores the lock changed it in the meantime; no command can.
AppliedAsGranted ==
    \A c \in Claims : cites[c] # Nobody =>
        LET x == cites[c]
        IN  /\ chal[x].consumed /\ c \in chal[x].granted
            /\ claim[c].ver \in {chal[x].bound[c].ver} \cup OutsideTexts

\* The same without the exception: docs/trusted-agent-gateway-spec.md says that
\* the action binds the canonical draft digest.  apply_challenge compares the
\* digest with one read of the claim and plans from another.
ConfirmedText ==
    \A c \in Claims : cites[c] # Nobody => claim[c].ver = chal[cites[c]].bound[c].ver

\* A token is accepted once, while both it and its challenge last, however long
\* an apply takes, and whether it dies or not (consume_unlocked).
UsedOnceInTime == \A x \in Challenges : uses[x].count <= 1 /\ ~uses[x].late

\* A failed item never ends a batch silently: when a batch reports, the granted
\* items it calls failed are exactly those it did not apply, and those whose file
\* it put in place without its mode, whatever was edited, revoked or approved since
\* the owner decided (apply_challenge_batch).
BatchIsAccounted ==
    \A p \in Procs : pc[p] = "done" /\ IsBatch(p) =>
        failed[p] = {c \in chal[call[p]].granted : cites[c] # call[p]}
                        \cup uses[call[p]].broken

\* The ceremony adds no transition of its own: seen from outside, claims move
\* as the commands of AtomicStore move them, one at a time.
Store == INSTANCE AtomicStore WITH status <- [c \in Claims |-> claim[c].st],
                                   told <- [p \in Procs |-> {}]
ImplementsPromise == Store!Spec

=============================================================================
