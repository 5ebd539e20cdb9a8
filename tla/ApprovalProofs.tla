--------------------------- MODULE ApprovalProofs ---------------------------
(***************************************************************************)
(* The approval ceremony keeps its promises for every set of processes,    *)
(* challenges and claims, every supersession and support relation, every   *)
(* lifetime, and any number of redrafts and outside edits.                 *)
(***************************************************************************)
EXTENDS Lifecycle, FiniteSetTheorems, TLAPS

(* The inductive invariant. *)

Busy(p)     == pc[p] # "idle"
HasPlan(p)  == pc[p] = "commit" \/ (pc[p] = "consume" /\ ~IsBatch(p))
Bound(x, c) == {chal[x].bound[c].ver} \cup OutsideTexts

\* An apply in progress holds the lock and works on one challenge.
LockInv == \A p \in Procs : Busy(p) => holder = p /\ call[p] \in Challenges

\* The record of a challenge remembers that its token was used.
SpentInv ==
    \A x \in Challenges :
        /\ uses[x].count = IF chal[x].consumed THEN 1 ELSE 0
        /\ ~uses[x].late
        /\ ~chal[x].consumed => uses[x].broken = {}
        /\ chal[x].op = "none" => chal[x].granted = {} /\ ~chal[x].consumed

\* What an apply still has to do was granted, and has the bound text; nothing
\* is written before the token is consumed.
WorkOf(p) ==
    LET x == call[p]
    IN  /\ todo[p] \subseteq chal[x].granted
        /\ \A c \in todo[p] : claim[c].ver \in Bound(x, c)
        /\ HasPlan(p) => /\ plan[p].claim \in chal[x].granted
                         /\ plan[p].ver \in Bound(x, plan[p].claim)
                         /\ CanCommit(chal[x].op, plan[p].claim)
        /\ pc[p] \in {"commit", "done"} => chal[x].consumed
        /\ IsBatch(p) /\ pc[p] = "plan" => chal[x].consumed

WorkInv == \A p \in Procs : Busy(p) => WorkOf(p)

\* A claim that cites a challenge was granted under it and is no draft any more.
CiteInv ==
    \A c \in Claims : cites[c] # Nobody =>
        /\ chal[cites[c]].consumed /\ c \in chal[cites[c]].granted
        /\ claim[c].ver \in Bound(cites[c], c)
        /\ claim[c].st \notin {"absent", "draft"}

\* The granted items of a batch that are not applied yet, and those it applied and
\* calls failed.
Pending(p) == todo[p] \cup failed[p] \cup (IF pc[p] = "commit" THEN {plan[p].claim} ELSE {})

BatchOf(p) ==
    /\ {c \in chal[call[p]].granted : cites[c] # call[p]} \cup uses[call[p]].broken = Pending(p)
    /\ uses[call[p]].broken \subseteq failed[p]
    /\ todo[p] \cap failed[p] = {}
    /\ pc[p] = "commit" => plan[p].claim \notin todo[p] \cup failed[p]
    /\ pc[p] = "done" => todo[p] = {}

BatchInv == \A p \in Procs : Busy(p) /\ IsBatch(p) => BatchOf(p)

IInv == TypeOK /\ LockInv /\ SpentInv /\ WorkInv /\ CiteInv /\ BatchInv


-----------------------------------------------------------------------------
(* Types. *)

\* The initial state satisfies the invariant.
LEMMA InitHolds == Init => IInv
<1> SUFFICES ASSUME Init PROVE IInv
  OBVIOUS
<1>1. TypeOK
  <2>1. claim \in [Claims -> Content]
    BY StoreAssumption DEF Init, Content
  <2>2. NoChallenge \in Challenge
    BY DEF NoChallenge, Challenge, Content, Statuses, Blank, Times
  <2>3. WellFormed(NoChallenge)
    BY DEF NoChallenge, WellFormed, Bindable, Decided, Past
  <2> QED BY <2>1, <2>2, <2>3 DEF Init, TypeOK, NoPlan
<1>2. LockInv /\ WorkInv /\ BatchInv
  BY DEF Init, LockInv, WorkInv, BatchInv, Busy
<1>3. SpentInv /\ CiteInv
  BY DEF Init, SpentInv, CiteInv, NoChallenge
<1> QED BY <1>1, <1>2, <1>3 DEF IInv

\* Preparing a challenge, granting it and the passing of time keep the types;
\* the token never outlives its challenge.
LEMMA ChallengeTyped ==
    ASSUME TypeOK, NEW x \in Challenges,
           \/ \E op \in Operations, S \in SUBSET Claims : Prepare(x, op, S)
           \/ \E S \in SUBSET Claims : Grant(x, S)
           \/ Tick
    PROVE  TypeOK'
<1>1. ASSUME NEW op \in Operations, NEW S \in SUBSET Claims, Prepare(x, op, S)
      PROVE  TypeOK'
  <2>1. Bind(op, S) \in [Claims -> Content]
    BY DEF Bind, TypeOK, Content, Statuses, Blank
  <2>2. chal' \in [Challenges -> Challenge]
    BY <1>1, <2>1, ClockAssumption DEF Prepare, Prepared, Persist, TypeOK, Challenge, NoChallenge, Times, Past
  <2>3. ASSUME NEW y \in Challenges
        PROVE  WellFormed(chal'[y])
    <3>1. y # x => chal'[y] = chal[y]
      BY <1>1 DEF Prepare, Prepared, Persist, TypeOK
    <3>2. y = x => /\ chal'[y].granted = {} /\ chal'[y].tokenLeft = -1
                   /\ chal'[y].left = Lifetime /\ chal'[y].consumed = FALSE
                   /\ chal'[y].items # {}
      BY <1>1 DEF Prepare, Askable, Bindable, Prepared, Persist, TypeOK, NoChallenge, Past
    <3> QED BY <3>1, <3>2, ClockAssumption DEF TypeOK, WellFormed, Bindable, Decided, Past
  <2> QED BY <1>1, <2>2, <2>3 DEF Prepare, Prepared, Persist, TypeOK, procVars
<1>2. ASSUME NEW S \in SUBSET Claims, Grant(x, S)
      PROVE  TypeOK'
  <2>1. chal[x] \in Challenge
    BY DEF TypeOK
  <2>2. chal' \in [Challenges -> Challenge]
    BY <1>2, <2>1, ClockAssumption DEF Grant, Persist, Decisions, TokenLeft, TypeOK, Challenge, Times, Past
  <2>3. ASSUME NEW y \in Challenges
        PROVE  WellFormed(chal'[y])
    <3>1. y # x => chal'[y] = chal[y]
      BY <1>2 DEF Grant, Persist, Decisions, TokenLeft, TypeOK
    <3>2. y = x => /\ chal'[y].granted = S /\ chal'[y].items = chal[x].items
                   /\ chal'[y].left = chal[x].left /\ chal'[y].op = chal[x].op
                   /\ chal'[y].tokenLeft = IF TokenLifetime > chal[x].left
                                           THEN chal[x].left ELSE TokenLifetime
      BY <1>2, <2>1 DEF Grant, Persist, Decisions, TokenLeft, TypeOK, Challenge
    <3>3. S \subseteq chal[x].items /\ chal[x].left \in Nat
      BY <1>2, <2>1 DEF Grant, Decisions, Challenge, Times
    <3>4. S # {} /\ (chal[x].op # "batch" => S = chal[x].items)
      <4>1. chal[x].items # {}
        BY <1>2 DEF Grant, TypeOK, WellFormed, Bindable, Decided
      <4>2. S \in IF chal[x].op = "batch" THEN (SUBSET chal[x].items) \ {{}} ELSE {chal[x].items}
        BY <1>2 DEF Grant, Decisions
      <4> QED BY <4>1, <4>2, Zenon
    <3>5. CASE y = x
      <4>1. chal'[y].items # {}
        BY <3>2, <3>3, <3>4, <3>5
      <4>2. chal'[y].tokenLeft <= chal'[y].left
        BY <3>2, <3>3, <3>5, ClockAssumption
      <4> QED BY <3>2, <3>3, <3>4, <3>5, <4>1, <4>2 DEF WellFormed, Bindable, Decided
    <3> QED BY <3>1, <3>5 DEF TypeOK
  <2> QED BY <1>2, <2>2, <2>3 DEF Grant, Persist, Decisions, TokenLeft, TypeOK, procVars
<1>3. CASE Tick
  <2>1. ASSUME NEW y \in Challenges
        PROVE  /\ chal'[y] \in Challenge
               /\ WellFormed(chal'[y])
    <3>1. chal[y] \in Challenge /\ WellFormed(chal[y])
      BY DEF TypeOK
    <3>2. chal'[y] = [chal[y] EXCEPT !.left = Later(chal[y].left),
                                     !.tokenLeft = Later(chal[y].tokenLeft)]
      BY <1>3 DEF Tick
    <3>3. \A a, b \in Times : Later(a) \in Times /\ (a <= b => Later(a) <= Later(b))
      BY DEF Later, Times, Past
    <3>4. /\ chal[y].left \in Times /\ chal[y].tokenLeft \in Times
          /\ chal'[y].left = Later(chal[y].left)
          /\ chal'[y].tokenLeft = Later(chal[y].tokenLeft)
          /\ chal'[y].granted = chal[y].granted /\ chal'[y].items = chal[y].items
          /\ chal'[y].op = chal[y].op /\ chal'[y].consumed = chal[y].consumed
      BY <3>1, <3>2 DEF Challenge
    <3>5. chal'[y] \in Challenge
      <4>1. Later(chal[y].left) \in Times /\ Later(chal[y].tokenLeft) \in Times
        BY <3>3, <3>4
      <4> QED BY <3>1, <3>2, <4>1 DEF Challenge
    <3>6. WellFormed(chal'[y])
      <4>1. chal'[y].tokenLeft <= chal'[y].left
        BY <3>1, <3>3, <3>4 DEF WellFormed, Bindable, Decided
      <4>2. Later(Past) = Past
        BY DEF Later
      <4> QED BY <3>1, <3>4, <4>1, <4>2 DEF WellFormed, Bindable, Decided
    <3> QED BY <3>1, <3>4, <3>5, <3>6
  <2>2. chal' \in [Challenges -> Challenge]
    BY <1>3, <2>1 DEF Tick
  <2> QED BY <1>3, <2>1, <2>2 DEF Tick, TypeOK, procVars
<1> QED BY <1>1, <1>2, <1>3

\* Every step of an apply keeps the types.
LEMMA ApplyTyped ==
    ASSUME TypeOK, LockInv, WorkInv, NEW p \in Procs,
           \/ \E x \in Challenges : Validate(p, x)
           \/ \E c \in Claims : PlanItem(p, c) \/ PlanFails(p, c)
           \/ Consume(p) \/ ConsumeFails(p) \/ Commit(p) \/ CommitFails(p)
           \/ Finish(p) \/ Respond(p) \/ Crash(p)
    PROVE  TypeOK'
<1>1. ASSUME NEW x \in Challenges, Validate(p, x) PROVE TypeOK'
  <2>1. chal[x].granted \in SUBSET Claims
    BY DEF TypeOK, Challenge
  <2> QED BY <1>1, <2>1 DEF Validate, TypeOK, GoTo
<1>2. ASSUME NEW c \in Claims, PlanItem(p, c) PROVE TypeOK'
  <2>1. claim[c].ver \in Nat
    BY DEF TypeOK, Content
  <2> QED BY <1>2, <2>1 DEF PlanItem, TypeOK, GoTo
<1>3. ASSUME Return(p) PROVE TypeOK'
  BY <1>3 DEF Return, TypeOK, GoTo, NoPlan
<1>4. ASSUME NEW c \in Claims, PlanFails(p, c) PROVE TypeOK'
  <2>1. CASE IsBatch(p)
    <3>1. todo' = [todo EXCEPT ![p] = @ \ {c}] /\ failed' = [failed EXCEPT ![p] = @ \cup {c}]
          /\ UNCHANGED <<claim, cites, chal, holder, pc, call, plan, uses, redrafts, edits>>
      BY <1>4, <2>1 DEF PlanFails
    <3> QED BY <3>1 DEF TypeOK
  <2>2. CASE ~IsBatch(p)
    BY <1>4, <2>2, <1>3 DEF PlanFails
  <2> QED BY <2>1, <2>2
<1>5. CASE Consume(p)
  <2>1. chal' = [chal EXCEPT ![call[p]].consumed = TRUE]
    BY <1>5 DEF Consume, Spend, Persist
  <2>2. ASSUME NEW y \in Challenges
        PROVE  /\ chal'[y] \in Challenge
               /\ WellFormed(chal'[y])
    <3>1. chal[y] \in Challenge
      BY DEF TypeOK
    <3>2. \/ chal'[y] = chal[y]
          \/ chal'[y] = [chal[y] EXCEPT !.consumed = TRUE] /\ chal[y].granted # {}
      BY <1>5, <2>1 DEF TypeOK, Consume, TokenValid
    <3>3. WellFormed(chal[y])
      BY DEF TypeOK
    <3> QED BY <3>1, <3>2, <3>3 DEF Challenge, WellFormed, Bindable, Decided
  <2>3. chal' \in [Challenges -> Challenge]
    BY <2>1, <2>2 DEF TypeOK
  <2>4. uses' \in [Challenges -> [count : Nat, late : BOOLEAN, broken : SUBSET Claims]]
    <3> DEFINE late == uses[call[p]].late \/ ~InTime(call[p])
    <3>1. late \in BOOLEAN
      OBVIOUS
    <3>2. uses' = [uses EXCEPT ![call[p]] =
                      [count |-> uses[call[p]].count + 1, late |-> late,
                       broken |-> uses[call[p]].broken]]
      BY <1>5 DEF Consume, Spend, Persist
    <3> HIDE DEF late
    <3>3. ASSUME NEW y \in Challenges
          PROVE  uses'[y] \in [count : Nat, late : BOOLEAN, broken : SUBSET Claims]
      <4>1. CASE y = call[p]
        <5>1. uses[y] \in [count : Nat, late : BOOLEAN, broken : SUBSET Claims]
          BY DEF TypeOK
        <5>2. uses'[y] = [count |-> uses[y].count + 1, late |-> late, broken |-> uses[y].broken]
          BY <3>2, <4>1 DEF TypeOK
        <5>3. uses[y].count + 1 \in Nat /\ uses[y].broken \in SUBSET Claims
          BY <5>1
        <5> QED BY <3>1, <5>2, <5>3
      <4>2. CASE y # call[p]
        BY <3>2, <4>2 DEF TypeOK
      <4> QED BY <4>1, <4>2
    <3>4. uses' = [y \in Challenges |-> uses'[y]]
      BY <3>2 DEF TypeOK
    <3> QED BY <3>3, <3>4
  <2>5. pc' = [pc EXCEPT ![p] = IF IsBatch(p) THEN "plan" ELSE "commit"]
        /\ UNCHANGED <<claim, cites, holder, call, todo, failed, plan, redrafts, edits>>
    BY <1>5 DEF Consume, Spend, Persist, GoTo
  <2>6. pc' \in [Procs -> {"idle", "plan", "consume", "commit", "done"}]
    BY <2>5 DEF TypeOK
  <2> QED BY <2>2, <2>3, <2>4, <2>5, <2>6 DEF TypeOK
<1>6. CASE Commit(p)
  <2> DEFINE c == plan[p].claim
             revoking == chal[call[p]].op = "revoke"
             replaced == IF revoking THEN {} ELSE Supersedes[c]
  <2>1. plan[p].ver \in Nat
    BY DEF TypeOK
  <2>2. claim' \in [Claims -> Content]
    <3>1. claim' = [d \in Claims |->
               CASE d = c -> [st |-> IF revoking THEN "revoked" ELSE "approved", ver |-> plan[p].ver]
                 [] d \in replaced -> [claim[d] EXCEPT !.st = "superseded"]
                 [] OTHER -> claim[d]]
      BY <1>6 DEF Commit
    <3>2. ASSUME NEW d \in Claims PROVE claim'[d] \in Content
      <4>1. claim[d] \in Content
        BY DEF TypeOK
      <4> QED BY <2>1, <3>1, <4>1 DEF Content, Statuses
    <3> QED BY <3>1, <3>2
  <2>3. cites' \in [Claims -> Challenges \cup {Nobody}]
    BY <1>6 DEF Commit, TypeOK
  <2>4. c \in Claims /\ call[p] \in Challenges
    <3>1. call[p] \in Challenges /\ chal[call[p]] \in Challenge /\ c \in chal[call[p]].granted
      BY <1>6 DEF Commit, LockInv, WorkInv, WorkOf, Busy, HasPlan, TypeOK
    <3> QED BY <3>1 DEF Challenge
  <2>5. \/ UNCHANGED <<failed, uses>>
        \/ /\ failed' = [failed EXCEPT ![p] = @ \cup {c}]
           /\ uses' = [uses EXCEPT ![call[p]].broken = @ \cup {c}]
    BY <1>6 DEF Commit
  <2> HIDE DEF c
  <2>6. failed' \in [Procs -> SUBSET Claims]
    BY <2>4, <2>5 DEF TypeOK
  <2>7. uses' \in [Challenges -> [count : Nat, late : BOOLEAN, broken : SUBSET Claims]]
    <3>1. CASE uses' = uses
      BY <3>1 DEF TypeOK
    <3>2. CASE uses' = [uses EXCEPT ![call[p]].broken = @ \cup {c}]
      <4>1. ASSUME NEW y \in Challenges
            PROVE  uses'[y] \in [count : Nat, late : BOOLEAN, broken : SUBSET Claims]
        <5>1. uses[y] \in [count : Nat, late : BOOLEAN, broken : SUBSET Claims]
          BY DEF TypeOK
        <5>2. uses'[y] = uses[y] \/ uses'[y] = [uses[y] EXCEPT !.broken = uses[y].broken \cup {c}]
          BY <3>2 DEF TypeOK
        <5> QED BY <2>4, <5>1, <5>2
      <4>2. uses' = [y \in Challenges |-> uses'[y]]
        BY <3>2 DEF TypeOK
      <4> QED BY <4>1, <4>2
    <3> QED BY <2>5, <3>1, <3>2
  <2>8. /\ plan' = [plan EXCEPT ![p] = NoPlan]
        /\ pc' = [pc EXCEPT ![p] = IF IsBatch(p) THEN "plan" ELSE "done"]
        /\ UNCHANGED <<chal, holder, call, todo, redrafts, edits>>
    BY <1>6 DEF Commit, GoTo
  <2> QED BY <2>2, <2>3, <2>6, <2>7, <2>8 DEF TypeOK, NoPlan
<1>7. CASE CommitFails(p)
  <2>1. chal[call[p]] \in Challenge /\ plan[p].claim \in chal[call[p]].granted
    BY <1>7 DEF CommitFails, LockInv, WorkInv, WorkOf, Busy, HasPlan, TypeOK
  <2>2. plan[p].claim \in Claims
    BY <2>1 DEF Challenge
  <2>3. CASE IsBatch(p)
    <3>1. /\ failed' = [failed EXCEPT ![p] = @ \cup {plan[p].claim}]
          /\ plan' = [plan EXCEPT ![p] = NoPlan] /\ pc' = [pc EXCEPT ![p] = "plan"]
          /\ UNCHANGED <<claim, cites, chal, holder, call, todo, uses, redrafts, edits>>
      BY <1>7, <2>3 DEF CommitFails, GoTo
    <3> QED BY <2>2, <3>1 DEF TypeOK, NoPlan
  <2>4. CASE ~IsBatch(p)
    BY <1>7, <2>4, <1>3 DEF CommitFails
  <2> QED BY <2>3, <2>4
<1>8. CASE Finish(p)
  BY <1>8 DEF Finish, TypeOK, GoTo
<1> QED BY <1>1, <1>2, <1>3, <1>4, <1>5, <1>6, <1>7, <1>8 DEF ConsumeFails, Respond, Crash

\* Commands that need no challenge, and edits, keep the types.
LEMMA OtherTyped ==
    ASSUME TypeOK, NEW c \in Claims,
           DirectApprove(c) \/ DirectRevoke(c) \/ Draft(c) \/ Redraft(c) \/ OutsideEdit(c)
    PROVE  TypeOK'
<1>1. claim[c] \in Content /\ \A d \in Claims : claim[d] \in Content
  BY DEF TypeOK
<1>2. CASE DirectApprove(c)
  BY <1>1, <1>2 DEF DirectApprove, TypeOK, Content, Statuses, procVars
<1>3. CASE DirectRevoke(c)
  BY <1>1, <1>3 DEF DirectRevoke, TypeOK, Content, Statuses, procVars
<1>4. CASE Draft(c)
  BY <1>1, <1>4 DEF Draft, TypeOK, Content, Statuses, procVars
<1>5. CASE Redraft(c)
  BY <1>1, <1>5, ClockAssumption DEF Redraft, TypeOK, Content, Statuses, procVars
<1>6. CASE OutsideEdit(c)
  BY <1>1, <1>6, ClockAssumption DEF OutsideEdit, TypeOK, Content, Statuses, procVars
<1> QED BY <1>2, <1>3, <1>4, <1>5, <1>6

-----------------------------------------------------------------------------
(* Who may do what: facts shared by the steps. *)

\* Applies in progress exclude each other and every command under the lock.
LEMMA Alone ==
    ASSUME TypeOK, LockInv, NEW p \in Procs
    PROVE  /\ holder = Nobody => pc[p] = "idle"
           /\ \A q \in Procs : Busy(p) /\ Busy(q) => p = q
  BY NobodyAssumption DEF LockInv, Busy, TypeOK

\* What every step of an apply after its first finds.
LEMMA AtWork ==
    ASSUME TypeOK, LockInv, NEW p \in Procs, Busy(p)
    PROVE  /\ call[p] \in Challenges /\ chal[call[p]] \in Challenge /\ holder = p
           /\ \A q \in Procs : q # p => pc[q] = "idle"
  BY Alone DEF LockInv, TypeOK, Busy

\* A return frees the lock and leaves everyone idle.
LEMMA ReturnFacts ==
    ASSUME TypeOK, LockInv, NEW p \in Procs, Return(p), Busy(p)
    PROVE  \A q \in Procs : pc'[q] = "idle"
  BY AtWork DEF Return, GoTo, TypeOK

\* A step that leaves every process idle keeps what is said of applies.
LEMMA IdleInv ==
    ASSUME \A q \in Procs : pc'[q] = "idle"
    PROVE  LockInv' /\ WorkInv' /\ BatchInv'
  BY DEF LockInv, WorkInv, BatchInv, Busy

-----------------------------------------------------------------------------
(* Challenges and the clock. *)

\* A new challenge takes a free record, which no claim cites.
LEMMA PrepareKeeps ==
    ASSUME IInv, NEW x \in Challenges, NEW op \in Operations, NEW S \in SUBSET Claims,
           Prepare(x, op, S)
    PROVE  LockInv' /\ SpentInv' /\ WorkInv' /\ CiteInv' /\ BatchInv'
<1> USE DEF IInv
<1>1. \A q \in Procs : pc'[q] = "idle"
  BY Alone DEF Prepare, Prepared, Persist, procVars
<1>2. /\ \A y \in Challenges : y # x => chal'[y] = chal[y]
      /\ chal'[x].op = op /\ chal'[x].granted = {} /\ chal'[x].consumed = FALSE
      /\ uses' = uses /\ cites' = cites /\ claim' = claim
  BY DEF Prepare, Prepared, Persist, TypeOK, NoChallenge
<1>3. SpentInv'
  <2>1. ~chal[x].consumed /\ op # "none"
    BY DEF Prepare, Prepared, Persist, SpentInv, Operations
  <2> QED BY <1>2, <2>1 DEF SpentInv
<1>4. CiteInv'
  <2>1. \A c \in Claims : cites[c] # Nobody => cites[c] \in Challenges /\ cites[c] # x
    BY DEF Prepare, Prepared, Persist, SpentInv, CiteInv, TypeOK
  <2> QED BY <1>2, <2>1 DEF CiteInv, Bound
<1> QED BY <1>1, <1>3, <1>4, IdleInv

\* A challenge that is granted now was not cited before.
LEMMA GrantKeeps ==
    ASSUME IInv, NEW x \in Challenges, NEW S \in SUBSET Claims, Grant(x, S)
    PROVE  LockInv' /\ SpentInv' /\ WorkInv' /\ CiteInv' /\ BatchInv'
<1> USE DEF IInv
<1>1. \A q \in Procs : pc'[q] = "idle"
  BY Alone DEF Grant, Persist, Decisions, TokenLeft, procVars
<1>2. /\ \A y \in Challenges : y # x => chal'[y] = chal[y]
      /\ chal'[x].op = chal[x].op /\ chal'[x].consumed = chal[x].consumed
      /\ uses' = uses /\ cites' = cites /\ claim' = claim
  <2>1. chal[x] \in Challenge
    BY DEF TypeOK
  <2> QED BY <2>1 DEF Grant, Persist, Decisions, TokenLeft, TypeOK, Challenge
<1>3. SpentInv'
  BY <1>2 DEF Grant, Persist, Decisions, TokenLeft, SpentInv
<1>4. CiteInv'
  <2>1. \A c \in Claims : cites[c] # Nobody => cites[c] \in Challenges /\ cites[c] # x
    BY DEF Grant, Persist, Decisions, TokenLeft, CiteInv, TypeOK
  <2> QED BY <1>2, <2>1 DEF CiteInv, Bound
<1> QED BY <1>1, <1>3, <1>4, IdleInv

\* The clock changes nothing the invariant speaks of.
LEMMA TickKeeps ==
    ASSUME IInv, Tick
    PROVE  LockInv' /\ SpentInv' /\ WorkInv' /\ CiteInv' /\ BatchInv'
<1> USE DEF IInv
<1>1. \A y \in Challenges : /\ chal'[y].op = chal[y].op /\ chal'[y].granted = chal[y].granted
                            /\ chal'[y].bound = chal[y].bound
                            /\ chal'[y].consumed = chal[y].consumed
  <2> SUFFICES ASSUME NEW y \in Challenges
               PROVE  /\ chal'[y].op = chal[y].op /\ chal'[y].granted = chal[y].granted
                      /\ chal'[y].bound = chal[y].bound /\ chal'[y].consumed = chal[y].consumed
    OBVIOUS
  <2>1. chal[y] \in Challenge
    BY DEF TypeOK
  <2> QED BY <2>1 DEF Tick, Challenge
<1>2. UNCHANGED <<claim, cites, holder, pc, call, todo, failed, plan, uses>>
  BY DEF Tick, procVars
<1>3. LockInv' /\ SpentInv'
  BY <1>1, <1>2 DEF LockInv, SpentInv, Busy
<1>4. CiteInv'
  BY <1>1, <1>2 DEF CiteInv, Bound, TypeOK
<1>5. \A p \in Procs : Busy(p)' => /\ Busy(p) /\ call[p] \in Challenges
                                   /\ IsBatch(p)' = IsBatch(p) /\ HasPlan(p)' = HasPlan(p)
  BY <1>1, <1>2 DEF Busy, LockInv, IsBatch, HasPlan
<1>6. WorkInv'
  BY <1>1, <1>2, <1>5 DEF WorkInv, WorkOf, Bound, CanCommit, Approved
<1>7. BatchInv'
  BY <1>1, <1>2, <1>5 DEF BatchInv, BatchOf, Pending
<1> QED BY <1>3, <1>4, <1>6, <1>7

-----------------------------------------------------------------------------
(* Claims, without a challenge. *)

\* A command under the lock finds no apply in progress; drafts cite nothing.
LEMMA CommandKeeps ==
    ASSUME IInv, NEW c \in Claims, DirectApprove(c) \/ DirectRevoke(c) \/ Draft(c) \/ Redraft(c)
    PROVE  LockInv' /\ SpentInv' /\ WorkInv' /\ CiteInv' /\ BatchInv'
<1> USE DEF IInv
<1>1. UNCHANGED <<chal, uses, procVars>> /\ holder = Nobody
  BY DEF DirectApprove, DirectRevoke, Draft, Redraft
<1>2. \A q \in Procs : pc'[q] = "idle"
  BY <1>1, Alone DEF procVars
<1>3. SpentInv'
  BY <1>1 DEF SpentInv
<1>4. ASSUME NEW d \in Claims, cites'[d] # Nobody
      PROVE  /\ cites'[d] = cites[d] /\ claim'[d].ver = claim[d].ver
             /\ claim'[d].st \notin {"absent", "draft"}
  <2>1. claim[d] \in Content /\ claim[c] \in Content
    BY DEF TypeOK
  <2>2. CASE DirectApprove(c)
    <3>1. d # c /\ cites'[d] = cites[d]
      BY <1>4, <2>2 DEF DirectApprove, TypeOK
    <3>2. claim'[d] = [claim[d] EXCEPT !.st = IF d \in Supersedes[c] THEN "superseded" ELSE @]
      BY <2>2, <3>1 DEF DirectApprove
    <3> QED BY <1>4, <2>1, <3>1, <3>2 DEF CiteInv, Content
  <2>3. CASE DirectRevoke(c)
    BY <1>4, <2>1, <2>3 DEF DirectRevoke, CiteInv, TypeOK
  <2>4. CASE Draft(c)
    BY <1>4, <2>1, <2>4 DEF Draft, CiteInv, TypeOK
  <2>5. CASE Redraft(c)
    BY <1>4, <2>1, <2>5 DEF Redraft, CiteInv, TypeOK
  <2> QED BY <2>2, <2>3, <2>4, <2>5
<1>5. CiteInv'
  BY <1>1, <1>4 DEF CiteInv, Bound
<1> QED BY <1>2, <1>3, <1>5, IdleInv

\* An outside edit puts an outside text in a draft, whatever is in progress.
LEMMA EditKeeps ==
    ASSUME IInv, NEW c \in Claims, OutsideEdit(c)
    PROVE  LockInv' /\ SpentInv' /\ WorkInv' /\ CiteInv' /\ BatchInv'
<1> USE DEF IInv
<1>1. UNCHANGED <<cites, chal, holder, pc, call, todo, failed, plan, uses>>
  BY DEF OutsideEdit, procVars
<1>2. \A d \in Claims : claim'[d].st = claim[d].st /\ (d # c => claim'[d] = claim[d])
  BY DEF OutsideEdit, TypeOK, Content
<1>3. claim'[c].ver \in OutsideTexts
  <2>1. claim'[c].ver = MaxRedrafts + edits + 1
    BY DEF OutsideEdit, TypeOK, Content
  <2> QED BY <2>1, ClockAssumption DEF OutsideEdit, OutsideTexts, TypeOK
<1>4. LockInv' /\ SpentInv' /\ BatchInv'
  BY <1>1 DEF LockInv, SpentInv, BatchInv, BatchOf, Busy, IsBatch, Pending
<1>5. WorkInv'
  <2>1. Approved' = Approved
    BY <1>2 DEF Approved
  <2>2. \A op : \A d \in Claims : CanCommit(op, d)' = CanCommit(op, d)
    BY <1>2, <2>1 DEF CanCommit
  <2>3. ASSUME NEW p \in Procs, Busy(p)'
        PROVE  /\ Busy(p) /\ IsBatch(p)' = IsBatch(p) /\ HasPlan(p)' = HasPlan(p)
               /\ chal[call[p]].granted \subseteq Claims
               /\ todo[p] \subseteq Claims
    BY <1>1, <2>3 DEF Busy, IsBatch, HasPlan, LockInv, TypeOK, Challenge
  <2>4. \A x : \A d : Bound(x, d)' = Bound(x, d) /\ OutsideTexts \subseteq Bound(x, d)
    BY <1>1 DEF Bound, OutsideTexts
  <2>5. \A d \in Claims : claim'[d].ver = claim[d].ver \/ claim'[d].ver \in OutsideTexts
    BY <1>2, <1>3
  <2>6. ASSUME NEW p \in Procs, Busy(p)' PROVE WorkOf(p)'
    <3>1. WorkOf(p)
      BY <2>3, <2>6 DEF WorkInv
    <3>2. plan[p].claim \in chal[call[p]].granted =>
              CanCommit(chal[call[p]].op, plan[p].claim)' = CanCommit(chal[call[p]].op, plan[p].claim)
      BY <1>1, <2>2, <2>3, <2>6
    <3>3. \A d \in todo[p] : claim'[d].ver \in Bound(call[p], d)
      BY <2>3, <2>4, <2>5, <2>6, <3>1 DEF WorkOf
    <3> QED BY <1>1, <2>3, <2>4, <2>6, <3>1, <3>2, <3>3 DEF WorkOf
  <2> QED BY <2>6 DEF WorkInv
<1>6. CiteInv'
  <2>1. \A d \in Claims : cites[d] # Nobody => d # c
    BY DEF OutsideEdit, CiteInv
  <2> QED BY <1>1, <1>2, <2>1 DEF CiteInv, Bound, OutsideTexts
<1> QED BY <1>4, <1>5, <1>6

-----------------------------------------------------------------------------
(* The steps of an apply. *)

\* A step of p keeps what is said of applies if it is true of p afterwards.
LEMMA OwnStep ==
    ASSUME NEW p \in Procs, \A q \in Procs : q # p => pc'[q] = "idle",
           WorkOf(p)', IsBatch(p)' => BatchOf(p)'
    PROVE  WorkInv' /\ BatchInv'
  BY DEF WorkInv, BatchInv, Busy

\* Giving up leaves the claims and the challenges as they are.
LEMMA ReturnKeeps ==
    ASSUME IInv, NEW p \in Procs, Busy(p), Return(p)
    PROVE  LockInv' /\ SpentInv' /\ WorkInv' /\ CiteInv' /\ BatchInv'
<1>1. \A q \in Procs : pc'[q] = "idle"
  BY ReturnFacts DEF IInv
<1>2. UNCHANGED <<claim, cites, chal, uses>>
  BY DEF Return
<1>3. SpentInv' /\ CiteInv'
  BY <1>2 DEF IInv, SpentInv, CiteInv, Bound
<1> QED BY <1>1, <1>3, IdleInv

\* An apply starts with granted items that have the bound text; its token was
\* not used, so nothing cites it.
LEMMA ValidateKeeps ==
    ASSUME IInv, NEW p \in Procs, NEW x \in Challenges, Validate(p, x)
    PROVE  LockInv' /\ SpentInv' /\ WorkInv' /\ CiteInv' /\ BatchInv'
<1> USE DEF IInv
<1> DEFINE good == {c \in chal[x].granted : Matches(x, c)}
<1>1. \A q \in Procs : pc[q] = "idle"
  BY Alone DEF Validate
<1>2. /\ UNCHANGED <<claim, cites, chal, uses>> /\ ~chal[x].consumed
      /\ holder' = p /\ call'[p] = x /\ todo'[p] = good
      /\ failed'[p] = chal[x].granted \ good
      /\ pc'[p] = IF chal[x].op = "batch" THEN "consume" ELSE "plan"
      /\ \A q \in Procs : q # p => pc'[q] = "idle"
  BY <1>1 DEF Validate, TokenValid, GoTo, TypeOK
<1>3. LockInv'
  BY <1>2 DEF LockInv, Busy
<1>4. SpentInv' /\ CiteInv'
  BY <1>2 DEF SpentInv, CiteInv, Bound
<1>5. WorkOf(p)'
  <2>1. \A c \in good : claim[c].ver \in Bound(x, c)
    BY DEF Matches, Bound
  <2> QED BY <1>2, <2>1 DEF WorkOf, HasPlan, IsBatch, Bound
<1>6. BatchOf(p)'
  <2>1. chal[x].granted \subseteq Claims
    BY DEF TypeOK, Challenge
  <2>2. \A c \in chal[x].granted : cites[c] # x
    BY <1>2, <2>1, NobodyAssumption DEF CiteInv
  <2>3. Pending(p)' = chal[x].granted
    BY <1>2 DEF Pending
  <2>4. uses'[x].broken = {}
    BY <1>2 DEF SpentInv
  <2> QED BY <1>2, <2>2, <2>3, <2>4 DEF BatchOf
<1> QED BY <1>2, <1>3, <1>4, <1>5, <1>6, OwnStep

\* A planned item was granted and has the bound text, or an outside one.
LEMMA PlanItemKeeps ==
    ASSUME IInv, NEW p \in Procs, NEW c \in Claims, PlanItem(p, c)
    PROVE  LockInv' /\ SpentInv' /\ WorkInv' /\ CiteInv' /\ BatchInv'
<1> USE DEF IInv
<1>1. Busy(p)
  BY DEF PlanItem, Busy
<1>2. /\ UNCHANGED <<claim, cites, chal, uses, call, holder, failed>>
      /\ plan'[p] = [claim |-> c, ver |-> claim[c].ver]
      /\ todo'[p] = todo[p] \ {c} /\ c \in todo[p]
      /\ CanCommit(chal[call[p]].op, c)
      /\ pc[p] = "plan" /\ pc'[p] = IF IsBatch(p) THEN "commit" ELSE "consume"
      /\ \A q \in Procs : q # p => pc'[q] = "idle"
  BY <1>1, AtWork DEF PlanItem, GoTo, TypeOK
<1>3. LockInv' /\ SpentInv' /\ CiteInv'
  BY <1>1, <1>2 DEF LockInv, Busy, SpentInv, CiteInv, Bound
<1>4. WorkOf(p) /\ (IsBatch(p)' <=> IsBatch(p)) /\ (IsBatch(p) => BatchOf(p))
  BY <1>1, <1>2 DEF WorkInv, BatchInv, IsBatch
<1>5. WorkOf(p)'
  <2>1. CanCommit(chal[call[p]].op, c)'
    BY <1>2 DEF CanCommit, Approved
  <2> QED BY <1>2, <1>4, <2>1 DEF WorkOf, Bound
<1>6. IsBatch(p)' => BatchOf(p)'
  <2> DEFINE U == {d \in chal[call[p]].granted : cites[d] # call[p]} \cup uses[call[p]].broken
  <2> SUFFICES ASSUME IsBatch(p) PROVE BatchOf(p)'
    BY <1>4
  <2>1. /\ U = Pending(p) /\ uses[call[p]].broken \subseteq failed[p]
        /\ todo[p] \cap failed[p] = {}
    BY <1>4 DEF BatchOf
  <2>2. pc'[p] = "commit" /\ plan'[p].claim = c
    BY <1>2
  <2>3. Pending(p)' = Pending(p)
    BY <1>2, <2>2 DEF Pending
  <2> HIDE DEF U
  <2>4. U' = Pending(p)'
    <3>1. U' = U
      BY <1>2 DEF U
    <3> QED BY <2>1, <2>3, <3>1
  <2> QED BY <1>2, <2>1, <2>2, <2>4 DEF BatchOf, U
<1> QED BY <1>2, <1>3, <1>5, <1>6, OwnStep

\* An item that cannot be planned moves to the failed ones.
LEMMA PlanFailsKeeps ==
    ASSUME IInv, NEW p \in Procs, NEW c \in Claims, PlanFails(p, c)
    PROVE  LockInv' /\ SpentInv' /\ WorkInv' /\ CiteInv' /\ BatchInv'
<1> USE DEF IInv
<1>1. Busy(p)
  BY DEF PlanFails, Busy
<1>2. CASE ~IsBatch(p)
  BY <1>1, <1>2, ReturnKeeps DEF PlanFails
<1>3. CASE IsBatch(p)
  <2>1. /\ UNCHANGED <<claim, cites, chal, uses, call, holder, pc, plan>>
        /\ todo'[p] = todo[p] \ {c} /\ failed'[p] = failed[p] \cup {c}
        /\ c \in todo[p] /\ pc[p] = "plan"
        /\ \A q \in Procs : q # p => pc'[q] = "idle"
    BY <1>1, <1>3, AtWork DEF PlanFails, TypeOK
  <2>2. LockInv' /\ SpentInv' /\ CiteInv'
    BY <2>1 DEF LockInv, Busy, SpentInv, CiteInv, Bound
  <2>3. WorkOf(p) /\ BatchOf(p) /\ IsBatch(p)'
    BY <1>1, <1>3, <2>1 DEF WorkInv, BatchInv, IsBatch
  <2>4. WorkOf(p)'
    BY <1>3, <2>1, <2>3 DEF WorkOf, Bound, HasPlan
  <2>5. BatchOf(p)'
    BY <2>1, <2>3 DEF BatchOf, Pending
  <2> QED BY <2>1, <2>2, <2>4, <2>5, OwnStep
<1> QED BY <1>2, <1>3

\* The token is validated again where it is used up.
LEMMA ConsumeKeeps ==
    ASSUME IInv, NEW p \in Procs, Consume(p)
    PROVE  LockInv' /\ SpentInv' /\ WorkInv' /\ CiteInv' /\ BatchInv'
<1> USE DEF IInv
<1> DEFINE x == call[p]
<1>1. Busy(p) /\ pc[p] = "consume" /\ TokenValid(x)
  BY DEF Consume, Busy
<1>2. x \in Challenges /\ chal[x] \in Challenge
  BY <1>1, AtWork
<1>3. /\ UNCHANGED <<claim, cites, call, holder, todo, failed, plan>>
      /\ pc'[p] = IF IsBatch(p) THEN "plan" ELSE "commit"
      /\ \A q \in Procs : q # p => pc'[q] = "idle"
  BY <1>1, AtWork DEF Consume, Spend, Persist, GoTo, TypeOK
<1>4. /\ \A y \in Challenges : y # x => chal'[y] = chal[y] /\ uses'[y] = uses[y]
      /\ chal'[x] = [chal[x] EXCEPT !.consumed = TRUE]
      /\ uses'[x].count = uses[x].count + 1 /\ uses'[x].broken = uses[x].broken
  <2> DEFINE late == uses[x].late \/ ~InTime(x)
  <2>1. /\ chal' = [chal EXCEPT ![x] = [chal[x] EXCEPT !.consumed = TRUE]]
        /\ uses' = [uses EXCEPT ![x] = [count |-> uses[x].count + 1, late |-> late,
                                        broken |-> uses[x].broken]]
    BY DEF Consume, Spend, Persist
  <2> HIDE DEF late, x
  <2> QED BY <1>2, <2>1 DEF TypeOK
<1>5. ~uses'[x].late
  <2>1. ~uses[x].late /\ InTime(x)
    BY <1>1, <1>2 DEF SpentInv, TokenValid
  <2> DEFINE late == uses[x].late \/ ~InTime(x)
  <2>2. uses' = [uses EXCEPT ![x] = [count |-> uses[x].count + 1, late |-> late,
                                     broken |-> uses[x].broken]]
    BY DEF Consume, Spend, Persist
  <2>3. ~late
    BY <2>1
  <2> HIDE DEF late
  <2>4. uses'[x].late = late
    BY <1>2, <2>2 DEF TypeOK
  <2> QED BY <2>3, <2>4
<1>6. /\ chal'[x].op = chal[x].op /\ chal'[x].granted = chal[x].granted
      /\ chal'[x].bound = chal[x].bound /\ chal'[x].consumed
  BY <1>2, <1>4 DEF Challenge
<1>7. LockInv'
  BY <1>1, <1>3 DEF LockInv, Busy
<1>8. SpentInv'
  <2>1. ~chal[x].consumed /\ chal[x].granted # {}
    BY <1>1 DEF TokenValid
  <2>2. uses[x].count = 0 /\ chal[x].op # "none"
    BY <1>2, <2>1 DEF SpentInv
  <2> HIDE DEF x
  <2>3. ASSUME NEW y \in Challenges
        PROVE  /\ uses'[y].count = IF chal'[y].consumed THEN 1 ELSE 0
               /\ ~uses'[y].late
               /\ ~chal'[y].consumed => uses'[y].broken = {}
               /\ chal'[y].op = "none" => chal'[y].granted = {} /\ ~chal'[y].consumed
    <3>1. CASE y = x
      <4>1. uses'[x].count = 1
        BY <1>4, <2>2
      <4>2. chal'[x].consumed /\ chal'[x].op # "none" /\ ~uses'[x].late
        BY <1>5, <1>6, <2>2
      <4> QED BY <3>1, <4>1, <4>2
    <3>2. CASE y # x
      BY <1>4, <3>2 DEF SpentInv
    <3> QED BY <3>1, <3>2
  <2> QED BY <2>3 DEF SpentInv
<1>9. CiteInv'
  <2> HIDE DEF x
  <2>1. ASSUME NEW y \in Challenges, NEW c
        PROVE  /\ chal'[y].granted = chal[y].granted /\ Bound(y, c)' = Bound(y, c)
               /\ chal[y].consumed => chal'[y].consumed
    BY <1>4, <1>6 DEF Bound, OutsideTexts
  <2> QED BY <1>3, <2>1 DEF CiteInv, TypeOK
<1>10. WorkOf(p) /\ (IsBatch(p)' <=> IsBatch(p)) /\ (IsBatch(p) => BatchOf(p))
  BY <1>1, <1>3, <1>6 DEF WorkInv, BatchInv, IsBatch
<1>11. WorkOf(p)'
  <2>1. \A op : \A c : CanCommit(op, c)' = CanCommit(op, c)
    BY <1>3 DEF CanCommit, Approved
  <2>2. HasPlan(p)' => HasPlan(p)
    BY <1>1, <1>3, <1>10 DEF HasPlan
  <2>3. \A c : Bound(x, c)' = Bound(x, c)
    BY <1>3, <1>6 DEF Bound, OutsideTexts
  <2>4. call'[p] = x /\ todo'[p] = todo[p] /\ plan'[p] = plan[p] /\ claim' = claim
    BY <1>3
  <2> QED BY <1>6, <1>10, <2>1, <2>2, <2>3, <2>4 DEF WorkOf
<1>12. IsBatch(p)' => BatchOf(p)'
  <2> SUFFICES ASSUME IsBatch(p)' PROVE BatchOf(p)'
    OBVIOUS
  <2>1. pc'[p] = "plan" /\ BatchOf(p)
    BY <1>3, <1>10
  <2>2. Pending(p)' = Pending(p)
    BY <1>1, <1>3, <2>1 DEF Pending
  <2>3. /\ call'[p] = x /\ cites' = cites /\ chal'[x].granted = chal[x].granted
        /\ uses'[x].broken = uses[x].broken /\ failed'[p] = failed[p] /\ todo'[p] = todo[p]
    BY <1>3, <1>4, <1>6
  <2>4. /\ {c \in chal[x].granted : cites[c] # x} \cup uses[x].broken = Pending(p)
        /\ uses[x].broken \subseteq failed[p] /\ todo[p] \cap failed[p] = {}
    BY <2>1 DEF BatchOf
  <2> HIDE DEF x
  <2> QED BY <2>1, <2>2, <2>3, <2>4 DEF BatchOf
<1> QED BY <1>3, <1>7, <1>8, <1>9, <1>11, <1>12, OwnStep

\* What a commit writes: the planned text in the planned claim; the claims it
\* replaces keep their texts.
LEMMA CommitWrites ==
    ASSUME IInv, NEW p \in Procs, Commit(p)
    PROVE  /\ plan[p].claim \in Claims
           /\ claim'[plan[p].claim].ver = plan[p].ver
           /\ claim'[plan[p].claim].st =
                  IF chal[call[p]].op = "revoke" THEN "revoked" ELSE "approved"
           /\ \A d \in Claims : d # plan[p].claim =>
                  /\ claim'[d].ver = claim[d].ver
                  /\ claim'[d].st =
                         IF chal[call[p]].op # "revoke" /\ d \in Supersedes[plan[p].claim]
                         THEN "superseded" ELSE claim[d].st
<1> USE DEF IInv
<1> DEFINE c == plan[p].claim
           revoking == chal[call[p]].op = "revoke"
           replaced == IF revoking THEN {} ELSE Supersedes[c]
<1>1. Busy(p) /\ HasPlan(p)
  BY DEF Commit, Busy, HasPlan
<1>2. c \in Claims
  <2>1. chal[call[p]] \in Challenge /\ WorkOf(p)
    BY <1>1, AtWork DEF WorkInv
  <2> QED BY <1>1, <2>1 DEF WorkOf, Challenge
<1>3. claim' = [d \in Claims |->
               CASE d = c -> [st |-> IF revoking THEN "revoked" ELSE "approved", ver |-> plan[p].ver]
                 [] d \in replaced -> [claim[d] EXCEPT !.st = "superseded"]
                 [] OTHER -> claim[d]]
  BY DEF Commit
<1>4. claim'[c] = [st |-> IF revoking THEN "revoked" ELSE "approved", ver |-> plan[p].ver]
  <2> DEFINE written == [st |-> IF revoking THEN "revoked" ELSE "approved", ver |-> plan[p].ver]
             kept(d) == [claim[d] EXCEPT !.st = "superseded"]
  <2>1. claim' = [d \in Claims |-> CASE d = c -> written
                                     [] d \in replaced -> kept(d)
                                     [] OTHER -> claim[d]]
    BY <1>3
  <2> HIDE DEF c, written, kept, replaced
  <2>2. claim'[c] = CASE c = c -> written [] c \in replaced -> kept(c) [] OTHER -> claim[c]
    BY <1>2, <2>1, Zenon
  <2>3. c \notin replaced
    BY <1>2, StoreAssumption DEF replaced, c
  <2>4. claim'[c] = written
    BY <2>2, <2>3
  <2> QED BY <2>4 DEF written
<1>5. ASSUME NEW d \in Claims, d # c
      PROVE  /\ claim'[d].ver = claim[d].ver
             /\ claim'[d].st = IF ~revoking /\ d \in Supersedes[c] THEN "superseded"
                                                                 ELSE claim[d].st
  <2>1. claim[d] \in Content
    BY DEF TypeOK
  <2>2. CASE d \in replaced
    BY <1>3, <1>5, <2>1, <2>2 DEF Content
  <2>3. CASE d \notin replaced
    BY <1>3, <1>5, <2>3
  <2> QED BY <2>2, <2>3
<1> QED BY <1>2, <1>4, <1>5

\* A committed claim cites a consumed challenge that granted it.
LEMMA CommitKeeps ==
    ASSUME IInv, NEW p \in Procs, Commit(p)
    PROVE  LockInv' /\ SpentInv' /\ WorkInv' /\ CiteInv' /\ BatchInv'
<1> USE DEF IInv
<1> DEFINE x == call[p]
           c == plan[p].claim
<1>1. Busy(p) /\ pc[p] = "commit" /\ HasPlan(p)
  BY DEF Commit, Busy, HasPlan
<1>2. x \in Challenges /\ chal[x] \in Challenge /\ c \in Claims /\ WorkOf(p)
  BY <1>1, AtWork, CommitWrites DEF WorkInv
<1>3. /\ UNCHANGED <<chal, call, holder, todo>>
      /\ cites' = [cites EXCEPT ![c] = x]
      /\ pc'[p] = IF IsBatch(p) THEN "plan" ELSE "done"
      /\ \A q \in Procs : q # p => pc'[q] = "idle"
  BY <1>1, AtWork DEF Commit, GoTo, TypeOK
<1>10. \E B \in SUBSET {c} :
         /\ failed'[p] = failed[p] \cup B /\ uses'[x].broken = uses[x].broken \cup B
         /\ \A y \in Challenges : /\ y # x => uses'[y] = uses[y]
                                  /\ uses'[y].count = uses[y].count /\ uses'[y].late = uses[y].late
  <2>1. CASE UNCHANGED <<failed, uses>>
    <3> HIDE DEF c, x
    <3> WITNESS {} \in SUBSET {c}
    <3> QED BY <2>1
  <2>2. CASE /\ failed' = [failed EXCEPT ![p] = @ \cup {c}]
             /\ uses' = [uses EXCEPT ![x].broken = @ \cup {c}]
    <3> HIDE DEF c, x
    <3>1. failed'[p] = failed[p] \cup {c}
      BY <2>2 DEF TypeOK
    <3>2. uses'[x].broken = uses[x].broken \cup {c}
      BY <1>2, <2>2 DEF TypeOK
    <3>3. \A y \in Challenges : /\ y # x => uses'[y] = uses[y]
                                /\ uses'[y].count = uses[y].count /\ uses'[y].late = uses[y].late
      BY <1>2, <2>2 DEF TypeOK
    <3> QED BY <3>1, <3>2, <3>3
  <2> QED BY <2>1, <2>2 DEF Commit
<1>4. LockInv' /\ SpentInv'
  <2>1. LockInv'
    BY <1>1, <1>3 DEF LockInv, Busy
  <2>2. chal[x].consumed
    BY <1>1, <1>2 DEF WorkOf
  <2> HIDE DEF x, c
  <2>3. SpentInv'
    BY <1>3, <1>10, <2>2 DEF SpentInv
  <2> QED BY <2>1, <2>3
<1>5. \A y, d : Bound(y, d)' = Bound(y, d)
  BY <1>3 DEF Bound, OutsideTexts
<1>6. c \in chal[x].granted /\ chal[x].consumed /\ plan[p].ver \in Bound(x, c)
  BY <1>1, <1>2 DEF WorkOf
<1>7. CiteInv'
  <2> SUFFICES ASSUME NEW d \in Claims, cites'[d] # Nobody
               PROVE  /\ chal[cites'[d]].consumed /\ d \in chal[cites'[d]].granted
                      /\ claim'[d].ver \in Bound(cites'[d], d)
                      /\ claim'[d].st \notin {"absent", "draft"}
    BY <1>3, <1>5 DEF CiteInv
  <2>1. CASE d = c
    <3>1. cites'[d] = x
      BY <1>2, <1>3, <2>1 DEF TypeOK
    <3> QED BY <1>6, <2>1, <3>1, CommitWrites
  <2>2. CASE d # c
    <3>1. cites'[d] = cites[d]
      BY <1>3, <2>2 DEF TypeOK
    <3> QED BY <2>2, <3>1, CommitWrites DEF CiteInv
  <2> QED BY <2>1, <2>2
<1>8. WorkOf(p)'
  <2>1. ASSUME NEW d \in todo[p] PROVE claim'[d].ver \in Bound(x, d)
    <3>1. d \in Claims /\ claim[d].ver \in Bound(x, d)
      BY <1>2 DEF WorkOf, TypeOK
    <3> QED BY <1>6, <3>1, CommitWrites
  <2>2. ~HasPlan(p)'
    BY <1>3 DEF HasPlan
  <2> QED BY <1>2, <1>3, <1>5, <1>6, <2>1, <2>2 DEF WorkOf
<1>9. IsBatch(p)' => BatchOf(p)'
  <2> SUFFICES ASSUME IsBatch(p) PROVE BatchOf(p)'
    BY <1>3 DEF IsBatch
  <2>1. BatchOf(p) /\ pc'[p] = "plan"
    BY <1>1, <1>3 DEF BatchInv
  <2>5. PICK B \in SUBSET {c} : failed'[p] = failed[p] \cup B /\ uses'[x].broken = uses[x].broken \cup B
    BY <1>10
  <2>2. /\ Pending(p) = todo[p] \cup failed[p] \cup {c}
        /\ Pending(p)' = todo[p] \cup failed[p] \cup B
        /\ c \notin todo[p] \cup failed[p] /\ uses[x].broken \subseteq failed[p]
        /\ todo[p] \cap failed[p] = {}
    BY <1>1, <1>3, <2>1, <2>5 DEF Pending, BatchOf
  <2>3. {d \in chal[x].granted : cites'[d] # x} = {d \in chal[x].granted : cites[d] # x} \ {c}
    <3>1. \A d \in chal[x].granted : d \in Claims
      BY <1>2 DEF Challenge
    <3> QED BY <1>2, <1>3, <3>1 DEF TypeOK
  <2>4. {d \in chal[x].granted : cites[d] # x} \cup uses[x].broken = Pending(p)
    BY <2>1 DEF BatchOf
  <2>6. call'[p] = x /\ chal'[x] = chal[x] /\ todo'[p] = todo[p]
    BY <1>3
  <2> DEFINE U == {d \in chal[x].granted : cites[d] # x}
  <2>7. /\ (U \ {c}) \cup uses'[x].broken = Pending(p)'
        /\ uses'[x].broken \subseteq failed'[p] /\ todo'[p] \cap failed'[p] = {}
    <3> HIDE DEF U, c, x
    <3>1. U \cup uses[x].broken = todo[p] \cup failed[p] \cup {c}
      BY <2>2, <2>4 DEF U
    <3> QED BY <2>2, <2>5, <2>6, <3>1
  <2>8. {d \in chal'[x].granted : cites'[d] # x} = U \ {c}
    BY <2>3, <2>6
  <2> QED BY <2>1, <2>6, <2>7, <2>8 DEF BatchOf
<1> QED BY <1>3, <1>4, <1>7, <1>8, <1>9, OwnStep

\* A commit that fails moves its item to the failed ones.
LEMMA CommitFailsKeeps ==
    ASSUME IInv, NEW p \in Procs, CommitFails(p)
    PROVE  LockInv' /\ SpentInv' /\ WorkInv' /\ CiteInv' /\ BatchInv'
<1> USE DEF IInv
<1>1. Busy(p) /\ pc[p] = "commit"
  BY DEF CommitFails, Busy
<1>2. CASE ~IsBatch(p)
  BY <1>1, <1>2, ReturnKeeps DEF CommitFails
<1>3. CASE IsBatch(p)
  <2>1. /\ UNCHANGED <<claim, cites, chal, uses, call, holder, todo>>
        /\ failed'[p] = failed[p] \cup {plan[p].claim} /\ pc'[p] = "plan"
        /\ \A q \in Procs : q # p => pc'[q] = "idle"
    BY <1>1, <1>3, AtWork DEF CommitFails, GoTo, TypeOK
  <2>2. LockInv' /\ SpentInv' /\ CiteInv'
    BY <1>1, <2>1 DEF LockInv, Busy, SpentInv, CiteInv, Bound
  <2>3. WorkOf(p) /\ BatchOf(p) /\ IsBatch(p)'
    BY <1>1, <1>3, <2>1 DEF WorkInv, BatchInv, IsBatch
  <2>4. WorkOf(p)'
    BY <1>1, <1>3, <2>1, <2>3 DEF WorkOf, Bound, HasPlan
  <2>5. BatchOf(p)'
    BY <1>1, <2>1, <2>3 DEF BatchOf, Pending
  <2> QED BY <2>1, <2>2, <2>4, <2>5, OwnStep
<1> QED BY <1>2, <1>3

\* A batch reports when nothing is left to do.
LEMMA FinishKeeps ==
    ASSUME IInv, NEW p \in Procs, Finish(p)
    PROVE  LockInv' /\ SpentInv' /\ WorkInv' /\ CiteInv' /\ BatchInv'
<1> USE DEF IInv
<1>1. Busy(p) /\ pc[p] = "plan" /\ IsBatch(p) /\ todo[p] = {}
  BY DEF Finish, Busy
<1>2. /\ UNCHANGED <<claim, cites, chal, uses, call, holder, todo, failed, plan>>
      /\ pc'[p] = "done" /\ \A q \in Procs : q # p => pc'[q] = "idle"
  BY <1>1, AtWork DEF Finish, GoTo, TypeOK
<1>3. LockInv' /\ SpentInv' /\ CiteInv'
  BY <1>1, <1>2 DEF LockInv, Busy, SpentInv, CiteInv, Bound
<1>4. WorkOf(p) /\ BatchOf(p)
  BY <1>1 DEF WorkInv, BatchInv
<1>5. WorkOf(p)' /\ BatchOf(p)'
  BY <1>1, <1>2, <1>4 DEF WorkOf, Bound, HasPlan, BatchOf, Pending
<1> QED BY <1>2, <1>3, <1>5, OwnStep

-----------------------------------------------------------------------------
(* The theorems. *)

\* Every step keeps the inductive invariant.
LEMMA NextKeeps == IInv /\ [Next]_vars => IInv'
<1> SUFFICES ASSUME IInv, [Next]_vars PROVE IInv'
  OBVIOUS
<1> DEFINE Rest == LockInv' /\ SpentInv' /\ WorkInv' /\ CiteInv' /\ BatchInv'
<1> USE DEF IInv
<1>1. ASSUME NEW x \in Challenges, NEW op \in Operations, NEW S \in SUBSET Claims,
             Prepare(x, op, S)
      PROVE  IInv'
  BY <1>1, PrepareKeeps, ChallengeTyped
<1>2. ASSUME NEW x \in Challenges, NEW S \in SUBSET Claims, Grant(x, S) PROVE IInv'
  BY <1>2, GrantKeeps, ChallengeTyped
<1>3. ASSUME NEW x \in Challenges, NEW p \in Procs, Validate(p, x) PROVE IInv'
  BY <1>3, ValidateKeeps, ApplyTyped
<1>4. ASSUME NEW p \in Procs, NEW c \in Claims, PlanItem(p, c) \/ PlanFails(p, c) PROVE IInv'
  BY <1>4, PlanItemKeeps, PlanFailsKeeps, ApplyTyped
<1>5. ASSUME NEW p \in Procs, Consume(p) \/ Commit(p) \/ CommitFails(p) \/ Finish(p)
      PROVE  IInv'
  BY <1>5, ConsumeKeeps, CommitKeeps, CommitFailsKeeps, FinishKeeps, ApplyTyped
<1>6. ASSUME NEW p \in Procs, ConsumeFails(p) \/ Respond(p) \/ Crash(p) PROVE IInv'
  <2>1. Busy(p) /\ Return(p)
    BY <1>6 DEF ConsumeFails, Respond, Crash, Busy
  <2> QED BY <1>6, <2>1, ReturnKeeps, ApplyTyped
<1>7. ASSUME NEW c \in Claims,
             DirectApprove(c) \/ DirectRevoke(c) \/ Draft(c) \/ Redraft(c)
      PROVE  IInv'
  BY <1>7, CommandKeeps, OtherTyped
<1>8. ASSUME NEW c \in Claims, OutsideEdit(c) PROVE IInv'
  BY <1>8, EditKeeps, OtherTyped
<1>9. CASE Tick
  <2>1. CASE Challenges = {}
    <3>1. chal' = chal
      BY <1>9, <2>1 DEF Tick, TypeOK
    <3> QED BY <1>9, <2>1, <3>1, TickKeeps DEF Tick, TypeOK, procVars
  <2>2. CASE Challenges # {}
    BY <1>9, <2>2, TickKeeps, ChallengeTyped
  <2> QED BY <2>1, <2>2
<1>10. CASE UNCHANGED vars
  BY <1>10 DEF vars, procVars, TypeOK, LockInv, SpentInv, WorkInv, CiteInv, BatchInv, WorkOf,
               BatchOf, Busy, HasPlan, IsBatch, Pending, Bound, OutsideTexts, CanCommit, Approved
<1> QED BY <1>1, <1>2, <1>3, <1>4, <1>5, <1>6, <1>7, <1>8, <1>9, <1>10 DEF Next

\* The inductive invariant, with the types, holds in every reachable state.
THEOREM Invariance == Spec => []IInv
  BY InitHolds, NextKeeps, PTL DEF Spec

\* Types, and a token that never outlives its challenge (grant caps its expiry).
THEOREM TypeTheorem == Spec => []TypeOK
<1>1. IInv => TypeOK
  BY DEF IInv
<1> QED BY <1>1, Invariance, PTL

\* Whatever cites a challenge was granted under it, has the bound text or an
\* outside one, and the token was used up (apply_challenge, consume_unlocked).
THEOREM GrantTheorem == Spec => []AppliedAsGranted
<1>1. IInv => AppliedAsGranted
  BY DEF IInv, CiteInv, AppliedAsGranted, Bound
<1> QED BY <1>1, Invariance, PTL

\* A token is accepted at most once and only in time, whatever dies or waits.
THEOREM TokenTheorem == Spec => []UsedOnceInTime
<1>1. IInv => UsedOnceInTime
  BY DEF IInv, SpentInv, UsedOnceInTime
<1> QED BY <1>1, Invariance, PTL

\* The report of a batch is exact (apply_challenge_batch).
THEOREM BatchTheorem == Spec => []BatchIsAccounted
<1>1. IInv => BatchIsAccounted
  <2> SUFFICES ASSUME IInv, NEW p \in Procs, pc[p] = "done", IsBatch(p)
               PROVE  failed[p] = {c \in chal[call[p]].granted : cites[c] # call[p]}
                                     \cup uses[call[p]].broken
    BY DEF BatchIsAccounted
  <2>1. BatchOf(p)
    BY DEF IInv, BatchInv, Busy
  <2>2. Pending(p) = failed[p]
    BY <2>1 DEF BatchOf, Pending
  <2> QED BY <2>1, <2>2 DEF BatchOf
<1> QED BY <1>1, Invariance, PTL

\* Seen through the statuses of the claims, every step is a command of
\* AtomicStore or no step at all: the ceremony adds no transition of its own.
THEOREM RefinementTheorem == Spec => ImplementsPromise
<1> DEFINE st == [c \in Claims |-> claim[c].st]
<1>1. Init => Store!Init
  BY StoreAssumption DEF Init, Store!Init
<1>2. IInv /\ [Next]_vars => [Store!Next]_Store!vars
  <2> SUFFICES ASSUME IInv, [Next]_vars PROVE [Store!Next]_Store!vars
    OBVIOUS
  <2> USE DEF IInv
  <2>1. (\A d \in Claims : claim'[d].st = claim[d].st) => [Store!Next]_Store!vars
    BY DEF Store!vars
  <2>2. claim' = claim => [Store!Next]_Store!vars
    BY <2>1
  <2>3. \A d \in Claims : claim[d] \in Content
    BY DEF TypeOK
  <2>4. ASSUME NEW c \in Claims, claim[c].st \in {"absent", "draft"},
               Supersedes[c] # {} => Supersedes[c] \cap Approved # {},
               \A d \in Claims : claim'[d].st = IF d = c THEN "draft" ELSE claim[d].st
        PROVE  [Store!Next]_Store!vars
    <3>1. Store!Draft(c)
      BY <2>4 DEF Store!Draft, Store!Approved, Approved
    <3> QED BY <3>1 DEF Store!Next
  <2>5. ASSUME NEW c \in Claims, CanCommit("approve", c),
               \A d \in Claims : claim'[d].st = IF d = c THEN "approved"
                                                ELSE IF d \in Supersedes[c] THEN "superseded"
                                                ELSE claim[d].st
        PROVE  [Store!Next]_Store!vars
    <3>1. Store!Approve(c)
      BY <2>5 DEF CanCommit, Store!Approve, Store!Approved, Approved
    <3> QED BY <3>1 DEF Store!Next
  <2>6. ASSUME NEW c \in Claims, claim[c].st = "approved",
               \A d \in Claims : claim'[d].st = IF d = c THEN "revoked" ELSE claim[d].st
        PROVE  [Store!Next]_Store!vars
    <3>1. Store!Revoke(c)
      BY <2>6 DEF Store!Revoke
    <3> QED BY <3>1 DEF Store!Next
  <2>7. ASSUME NEW p \in Procs, Commit(p) PROVE [Store!Next]_Store!vars
    <3> DEFINE c == plan[p].claim
               op == chal[call[p]].op
    <3>1. c \in Claims /\ CanCommit(op, c)
      BY <2>7, CommitWrites DEF Commit, WorkInv, WorkOf, Busy, HasPlan
    <3>2. CASE op = "revoke"
      <4>1. claim[c].st = "approved"
        BY <3>1, <3>2 DEF CanCommit, Approved
      <4>2. \A d \in Claims : claim'[d].st = IF d = c THEN "revoked" ELSE claim[d].st
        BY <2>7, <3>2, CommitWrites
      <4> HIDE DEF c
      <4> QED BY <2>6, <3>1, <4>1, <4>2
    <3>3. CASE op # "revoke"
      <4>1. CanCommit("approve", c)
        BY <3>1, <3>3 DEF CanCommit
      <4>2. \A d \in Claims : claim'[d].st = IF d = c THEN "approved"
                                             ELSE IF d \in Supersedes[c] THEN "superseded"
                                             ELSE claim[d].st
        BY <2>7, <3>3, CommitWrites
      <4> HIDE DEF c
      <4> QED BY <2>5, <3>1, <4>1, <4>2
    <3> QED BY <3>2, <3>3
  <2>8. ASSUME NEW c \in Claims, DirectApprove(c) PROVE [Store!Next]_Store!vars
    <3>1. \A d \in Claims : claim'[d].st = IF d = c THEN "approved"
                                           ELSE IF d \in Supersedes[c] THEN "superseded"
                                           ELSE claim[d].st
      BY <2>3, <2>8 DEF DirectApprove, Content
    <3> QED BY <2>5, <2>8, <3>1 DEF DirectApprove
  <2>9. ASSUME NEW c \in Claims, DirectRevoke(c) PROVE [Store!Next]_Store!vars
    <3>1. \A d \in Claims : claim'[d].st = IF d = c THEN "revoked" ELSE claim[d].st
      BY <2>3, <2>9 DEF DirectRevoke, TypeOK, Content
    <3>2. claim[c].st = "approved"
      BY <2>9 DEF DirectRevoke, CanCommit, Approved
    <3> QED BY <2>6, <3>1, <3>2
  <2>10. ASSUME NEW c \in Claims, Draft(c) PROVE [Store!Next]_Store!vars
    <3>1. \A d \in Claims : claim'[d].st = IF d = c THEN "draft" ELSE claim[d].st
      BY <2>3, <2>10 DEF Draft, TypeOK, Content
    <3> QED BY <2>4, <2>10, <3>1 DEF Draft
  <2>11. ASSUME NEW c \in Claims, Redraft(c) \/ OutsideEdit(c) PROVE [Store!Next]_Store!vars
    <3>1. PICK v : claim' = [claim EXCEPT ![c].ver = v]
      BY <2>11 DEF Redraft, OutsideEdit
    <3>2. \A d \in Claims : claim'[d].st = claim[d].st
      BY <2>3, <3>1 DEF TypeOK, Content
    <3> QED BY <2>1, <3>2
  <2>12. ASSUME NEW x \in Challenges,
                \/ \E op \in Operations, S \in SUBSET Claims : Prepare(x, op, S)
                \/ \E S \in SUBSET Claims : Grant(x, S)
                \/ \E p \in Procs : Validate(p, x)
         PROVE  claim' = claim
    BY <2>12 DEF Prepare, Grant, Validate
  <2>13. ASSUME NEW p \in Procs,
                \/ \E c \in Claims : PlanItem(p, c) \/ PlanFails(p, c)
                \/ Consume(p) \/ ConsumeFails(p) \/ CommitFails(p)
                \/ Finish(p) \/ Respond(p) \/ Crash(p)
         PROVE  claim' = claim
    BY <2>13 DEF PlanItem, PlanFails, Consume, Spend, Persist, ConsumeFails, CommitFails, Finish, Respond,
                 Crash, Return
  <2>14. CASE Tick \/ UNCHANGED vars
    BY <2>2, <2>14 DEF Tick, vars
  <2> QED BY <2>2, <2>7, <2>8, <2>9, <2>10, <2>11, <2>12, <2>13, <2>14 DEF Next
<1> QED BY <1>1, <1>2, Invariance, PTL DEF Spec, ImplementsPromise, Store!Spec

-----------------------------------------------------------------------------
(***************************************************************************)
(* What the claim_lifecycle tool does is what the ceremony allows, so that *)
(* every theorem about the ceremony holds of the tool.  The one thing that *)
(* needs an argument is that the digests it collected read by read make    *)
(* the record prepare_challenge would bind from the canonical store: an    *)
(* invariant says how far a call has got and that it collected nothing     *)
(* else, the comparison under the lock does the rest.                      *)
(***************************************************************************)

Asks == [step : {"idle", "digest", "prior", "prepare"}, op : Actions \cup {"none"},
         claim : Claims \cup {Nobody}, ver : Nat \cup {Unsaid}, first : Content,
         bound : [Claims -> Content]]

\* What a call has read concerns the claim it asks about and, for a supersession,
\* the claim whose digest is bound with it.
Concerned(d) == d = ask.claim \/ (ask.op = "supersede" /\ d = Prior(ask.claim))

\* How far a call of prepare has got, and what it has read.
AskInv ==
    /\ ask \in Asks
    /\ ask.step # "idle" => ask.op \in Actions /\ ask.claim \in Claims
    /\ ask.step = "digest" => \A d \in Claims : ask.bound[d] = Blank
    /\ ask.step = "prior" => ask.op = "supersede"
    /\ ask.step # "idle" => \A d \in Claims : ~Concerned(d) => ask.bound[d] = Blank

LEMMA BlankTyped == Blank \in Content
BY DEF Blank, Content, Statuses

\* An abandoned or answered call has read nothing.
LEMMA IdleAsk == NoAsk \in Asks /\ NoAsk.step = "idle"
BY BlankTyped DEF NoAsk, Asks

LEMMA AskInit == LifecycleInit => AskInv
BY IdleAsk DEF LifecycleInit, AskInv

\* A read is recorded at the claim it concerns.
LEMMA AskKeeps == TypeOK /\ AskInv /\ [LifecycleNext]_lifecycleVars => AskInv'
<1> SUFFICES ASSUME TypeOK, AskInv, [LifecycleNext]_lifecycleVars PROVE AskInv'
  OBVIOUS
<1>1. claim \in [Claims -> Content]
  BY DEF TypeOK
<1>2. ASSUME ask' = NoAsk PROVE AskInv'
  BY <1>2, IdleAsk DEF AskInv
<1>3. ASSUME ask' = ask PROVE AskInv'
  BY <1>3 DEF AskInv, Concerned
<1>4. ASSUME NEW op \in Actions, NEW c \in Claims, NEW says \in Sayings, ReadClaim(op, c, says)
      PROVE  AskInv'
  <2>1. /\ ask' \in Asks
        /\ ask'.step = "digest" /\ ask'.op = op /\ ask'.claim = c
        /\ \A d \in Claims : ask'.bound[d] = Blank
    BY <1>1, <1>4, BlankTyped, SayingAssumption DEF ReadClaim, NoAsk, Asks
  <2> QED BY <2>1 DEF AskInv
<1>5. ASSUME ReadDigest PROVE AskInv'
  <2> DEFINE c == ask.claim
             s == IF ask.op = "supersede" THEN "prior" ELSE "prepare"
  <2>1. c \in Claims /\ ask.op \in Actions /\ \A d \in Claims : ask.bound[d] = Blank
    BY <1>5 DEF ReadDigest, AskInv
  <2>2. ask' = [ask EXCEPT !.step = s, !.bound = [@ EXCEPT ![c] = claim[c]]]
    BY <1>5 DEF ReadDigest
  <2>3. /\ ask' \in Asks
        /\ ask'.step = s /\ ask'.op = ask.op /\ ask'.claim = c
        /\ \A d \in Claims : d # c => ask'.bound[d] = Blank
    BY <1>1, <2>1, <2>2 DEF AskInv, Asks
  <2> QED BY <2>1, <2>3 DEF AskInv, Concerned
<1>6. ASSUME ReadPrior PROVE AskInv'
  <2> DEFINE d0 == Prior(ask.claim)
  <2>1. /\ ask.step = "prior" /\ ask.op = "supersede" /\ ask.claim \in Claims
        /\ \A d \in Claims : ~Concerned(d) => ask.bound[d] = Blank
    BY <1>6 DEF ReadPrior, AskInv
  <2>2. \/ ask' = [ask EXCEPT !.step = "prepare"]
        \/ ask' = [ask EXCEPT !.step = "prepare", !.bound = [@ EXCEPT ![d0] = claim[d0]]]
           /\ d0 \in Claims
    BY <1>6 DEF ReadPrior, Approved
  <2>3. /\ ask' \in Asks
        /\ ask'.step = "prepare" /\ ask'.op = ask.op /\ ask'.claim = ask.claim
        /\ \A d \in Claims : d # d0 => ask'.bound[d] = ask.bound[d]
    <3>1. ask \in Asks
      BY DEF AskInv
    <3> HIDE DEF d0
    <3>2. CASE ask' = [ask EXCEPT !.step = "prepare"]
      BY <3>1, <3>2 DEF Asks
    <3>3. CASE ask' = [ask EXCEPT !.step = "prepare", !.bound = [@ EXCEPT ![d0] = claim[d0]]]
               /\ d0 \in Claims
      BY <1>1, <3>1, <3>3 DEF Asks
    <3> QED BY <2>2, <3>2, <3>3
  <2> QED BY <2>1, <2>3 DEF AskInv, Concerned
<1> QED
  BY <1>2, <1>3, <1>4, <1>5, <1>6
  DEF LifecycleNext, lifecycleVars, Abandon, PrepareAsked, ApplyAsked

\* What the locked comparison lets through is what the canonical store binds.
LEMMA BindsCanonical ==
    ASSUME AskInv, TypeOK, NEW x \in Challenges, PrepareAsked(x)
    PROVE  ask.bound = Bind(ask.op, {ask.claim})
<1>1. /\ ask.op \in Actions /\ ask.claim \in Claims
      /\ ask.bound \in [Claims -> Content]
      /\ \A d \in Claims : ~Concerned(d) => ask.bound[d] = Blank
      /\ StillCurrent
  BY DEF AskInv, Asks, PrepareAsked
<1>2. \A d \in Claims : Concerned(d) => ask.bound[d] = claim[d]
  BY <1>1 DEF StillCurrent, Concerned
<1>3. \A d \in Claims :
          ask.bound[d] = IF d \in {ask.claim} \/ (ask.op = "supersede"
                                                  /\ \E e \in {ask.claim} : d = Prior(e))
                         THEN claim[d] ELSE Blank
  BY <1>1, <1>2 DEF Concerned
<1> QED BY <1>1, <1>3 DEF Bind

\* Preparing with the tool is preparing.
LEMMA PreparesAsCeremony ==
    ASSUME AskInv, TypeOK, NEW x \in Challenges, PrepareAsked(x)
    PROVE  /\ ask.op \in Operations /\ {ask.claim} \in SUBSET Claims
           /\ Prepare(x, ask.op, {ask.claim})
<1>1. ask.op \in Actions /\ ask.claim \in Claims
  BY DEF AskInv, PrepareAsked
<1>2. Askable(ask.op, {ask.claim})
  BY FS_Singleton DEF Askable, Bindable
<1>3. Applicable(ask.op, ask.claim)
  BY DEF PrepareAsked, StillCurrent
<1>4. [Prepared(ask.op, {ask.claim}) EXCEPT !.bound = ask.bound] = Prepared(ask.op, {ask.claim})
  BY BindsCanonical DEF Prepared, NoChallenge
<1> QED BY <1>1, <1>2, <1>3, <1>4 DEF PrepareAsked, Prepare, Unused, Operations, Actions

LEMMA StepIsCeremony == AskInv /\ TypeOK /\ [LifecycleNext]_lifecycleVars => [Next]_vars
<1> SUFFICES ASSUME AskInv, TypeOK, [LifecycleNext]_lifecycleVars PROVE [Next]_vars
  OBVIOUS
<1>1. ASSUME UNCHANGED vars PROVE [Next]_vars
  BY <1>1
<1>2. ASSUME NEW x \in Challenges, PrepareAsked(x) PROVE Next
  BY <1>2, PreparesAsCeremony DEF Next
<1>3. ASSUME NEW p \in Procs, NEW x \in Challenges, Validate(p, x) PROVE Next
  BY <1>3 DEF Next
<1>4. ASSUME Batches PROVE Next
  BY <1>4 DEF Batches, Next, Operations
<1>5. ASSUME Ceremony PROVE Next
  BY <1>5 DEF Ceremony, Next
<1>6. ASSUME Applying PROVE Next
  BY <1>6 DEF Applying, Next
<1>7. ASSUME Elsewhere PROVE Next
  BY <1>7 DEF Elsewhere, Next
<1> QED
  BY <1>1, <1>2, <1>3, <1>4, <1>5, <1>6, <1>7
  DEF LifecycleNext, lifecycleVars, ReadClaim, ReadDigest, ReadPrior, Abandon, ApplyAsked

-----------------------------------------------------------------------------

LEMMA TypedCeremony == IInv => TypeOK
BY DEF IInv

\* The tool keeps the invariant of the ceremony, and its own.
THEOREM LifecycleInvariance == LifecycleSpec => [](IInv /\ AskInv)
<1>1. LifecycleInit => IInv /\ AskInv
  BY InitHolds, AskInit DEF LifecycleInit
<1>2. IInv /\ AskInv /\ [LifecycleNext]_lifecycleVars => (IInv /\ AskInv)'
  BY TypedCeremony, AskKeeps, StepIsCeremony, NextKeeps
<1> QED BY <1>1, <1>2, PTL DEF LifecycleSpec

\* The tool implements the ceremony: it can do nothing to a claim or a challenge
\* that prepare, grant and apply do not do, whatever changes between its reads.
THEOREM CeremonyTheorem == LifecycleSpec => ImplementsCeremony
<1>1. LifecycleInit => Init
  BY DEF LifecycleInit
<1>2. IInv /\ AskInv /\ [LifecycleNext]_lifecycleVars => [Next]_vars
  BY TypedCeremony, StepIsCeremony
<1> QED
  BY <1>1, <1>2, LifecycleInvariance, PTL DEF LifecycleSpec, ImplementsCeremony, Spec

\* No text is approved under a challenge of the tool but the one it binds or an
\* edit that ignores the lock.
THEOREM LifecycleGrantTheorem == LifecycleSpec => []AppliedAsGranted
BY CeremonyTheorem, GrantTheorem, PTL DEF ImplementsCeremony

\* A challenge binds a state that its claims had together.
THEOREM BornTheorem == LifecycleSpec => BornCurrent
<1> DEFINE Born == \A x \in Challenges :
                      chal[x].op = "none" /\ chal'[x].op # "none" =>
                          chal'[x].bound = Bind(chal'[x].op, chal'[x].items)
<1>1. ASSUME TypeOK, NEW x \in Challenges, NEW op, NEW S, Prepare(x, op, S) PROVE Born
  <2>1. chal' = [chal EXCEPT ![x] = Prepared(op, S)]
    BY <1>1 DEF Prepare, Persist
  <2>2. \A y \in Challenges : chal'[y] = IF y = x THEN Prepared(op, S) ELSE chal[y]
    BY <1>1, <2>1 DEF TypeOK
  <2>3. /\ Prepared(op, S).op = op /\ Prepared(op, S).items = S
        /\ Prepared(op, S).bound = Bind(op, S)
    BY DEF Prepared, NoChallenge
  <2> QED BY <2>2, <2>3
<1>2. ASSUME \A x \in Challenges : chal[x].op = "none" => chal'[x].op = "none"
      PROVE  Born
  BY <1>2
<1>3. ASSUME TypeOK, NEW x \in Challenges, NEW S, Grant(x, S) PROVE Born
  BY <1>3 DEF Grant, Persist, TypeOK
<1>4. ASSUME TypeOK, NEW p \in Procs, Spend(p) PROVE Born
  BY <1>4 DEF Spend, Persist, TypeOK
<1>5. ASSUME IInv, [Next]_vars PROVE Born
  <2>1. TypeOK
    BY <1>5, TypedCeremony
  <2>2. ASSUME chal' = chal PROVE Born
    BY <1>2, <2>1, <2>2
  <2>3. ASSUME Tick PROVE Born
    <3>1. chal \in [Challenges -> Challenge]
      BY <2>1 DEF TypeOK
    <3>2. \A x \in Challenges : chal'[x].op = chal[x].op
      BY <2>3, <3>1 DEF Tick, Challenge
    <3> HIDE DEF Born
    <3> QED BY <1>2, <2>1, <3>2
  <2> HIDE DEF Born
  <2> QED
    BY <1>1, <1>3, <1>4, <1>5, <2>1, <2>2, <2>3
    DEF Next, vars, procVars, Validate, PlanItem, PlanFails, Consume, ConsumeFails, Commit,
        CommitFails, Finish, Respond, Crash, Return, DirectApprove, DirectRevoke, Draft,
        Redraft, OutsideEdit
<1>6. IInv /\ AskInv /\ [LifecycleNext]_lifecycleVars => Born
  BY <1>5, TypedCeremony, StepIsCeremony
<1>7. Born => [Born]_lifecycleVars
  OBVIOUS
<1> QED
  BY <1>6, LifecycleInvariance, PTL DEF LifecycleSpec, BornCurrent
==============================================================================
