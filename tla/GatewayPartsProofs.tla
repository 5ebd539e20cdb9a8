------------------------- MODULE GatewayPartsProofs -------------------------
(***************************************************************************)
(* Proofs about Campaign and Workspaces, the parts of Gateway that other   *)
(* processes drive as well.                                                *)
(*                                                                         *)
(* Campaign, for any number of clients, runs, items and claims: a          *)
(* submission holds the lock from its checks to the run file, so at most   *)
(* one claim is between its draft and its run file; a new claim takes an   *)
(* id that nothing refers to.                                              *)
(*                                                                         *)
(* Workspaces, for any number of processes and names: what a create has    *)
(* behind it is there, since nothing is removed; and while a settled       *)
(* default stands, nobody is on the way to write config.yml.               *)
(***************************************************************************)
EXTENDS Campaign, Workspaces, FiniteSetTheorems, TLAPS

-----------------------------------------------------------------------------
(* The inductive invariant *)

\* Whoever submits holds the lock, over an item that is still pending.
Submitting ==
    \A p \in Clients : cpc[p] # "idle" =>
        /\ holder = p
        /\ cjob[p].run \in Runs /\ cjob[p].item \in Items
        /\ run[cjob[p].run].phase = "drafting"
        /\ run[cjob[p].run].drafts[cjob[p].item] = Pending

\* The claim of a submission between its two writes is the one it was made for.
AtCheckpoint ==
    \A p \in Clients : cpc[p] = "checkpoint" =>
        LET j == cjob[p]
        IN  /\ j.claim \in Claims /\ claim[j.claim] = run[j.run].cites[j.item]
            /\ origin[j.claim].run = j.run /\ origin[j.claim].item = j.item

\* A run that was begun cites something for every item; one that was not has
\* submitted nothing.
Begun ==
    \A r \in Runs, k \in Items :
        /\ run[r].phase # "none" => run[r].cites[k] \in Cites
        /\ run[r].phase = "none" => run[r].drafts[k] = Pending

\* An id nobody uses was made for nothing.
Fresh == \A c \in Claims : claim[c] = Nobody => origin[c] = NoClaim

FiniteDrafts == \A r \in Runs, k \in Items : IsFiniteSet(CreatedFor(r, k))

CampaignInv == /\ CampaignTypeOK /\ Submitting /\ AtCheckpoint /\ Begun /\ Fresh
        /\ SubmittedHasItsClaim /\ FiniteDrafts /\ OrphansAreDeaths

-----------------------------------------------------------------------------
(* Facts about the operators *)

LEMMA NewIdIsUnused ==
    ASSUME Unused # {}
    PROVE  NewId \in Claims /\ claim[NewId] = Nobody
BY DEF Unused, NewId

LEMMA Quiet ==
    ASSUME CampaignInv, holder = Nobody
    PROVE  /\ \A p \in Clients : cpc[p] = "idle"
           /\ \A r \in Runs, k \in Items : InFlight(r, k) = {}
BY CampaignAssumption DEF CampaignInv, Submitting, InFlight

\* While p submits, nobody else does.
LEMMA Alone ==
    ASSUME CampaignInv, NEW p \in Clients, cpc[p] # "idle"
    PROVE  \A q \in Clients : q # p => cpc[q] = "idle"
BY DEF CampaignInv, Submitting

\* The claim of a submitted draft exists.
LEMMA SubmittedExists ==
    ASSUME CampaignInv, NEW r \in Runs, NEW k \in Items, run[r].drafts[k].st = "submitted"
    PROVE  run[r].drafts[k].claim \in Claims /\ claim[run[r].drafts[k].claim] # Nobody
<1>1. run[r].drafts[k] \in Drafts
  BY DEF CampaignInv, CampaignTypeOK, RunFile
<1>2. run[r].drafts[k].claim \in Claims
  BY <1>1 DEF CampaignInv, SubmittedHasItsClaim, Drafts
<1>3. run[r].phase # "none"
  BY DEF CampaignInv, Begun, Pending
<1>4. run[r].cites[k] # Nobody
  BY <1>3, CampaignAssumption DEF CampaignInv, Begun
<1> QED BY <1>2, <1>4 DEF CampaignInv, SubmittedHasItsClaim

\* What the accounting of an item says.
Balanced(r, k) ==
    Cardinality(CreatedFor(r, k)) =
        lost[r][k] + Cardinality(InFlight(r, k))
        + (IF run[r].drafts[k].st = "submitted" THEN 1 ELSE 0)

LEMMA CampaignStarts == CampaignInit => CampaignInv
<1> SUFFICES ASSUME CampaignInit PROVE CampaignInv
  OBVIOUS
<1> USE DEF CampaignInit
<1>1. CampaignTypeOK
  BY CampaignAssumption DEF CampaignTypeOK, NoRun, Pending, RunFile, Drafts, NoJob, NoClaim
<1>2. Submitting /\ AtCheckpoint /\ Fresh
  BY DEF Submitting, AtCheckpoint, Fresh
<1>3. Begun /\ SubmittedHasItsClaim
  BY DEF Begun, SubmittedHasItsClaim, NoRun, Pending
<1>4. ASSUME NEW r \in Runs, NEW k \in Items
      PROVE  CreatedFor(r, k) = {} /\ InFlight(r, k) = {}
             /\ lost[r][k] = 0 /\ run[r].drafts[k].st # "submitted"
  BY CampaignAssumption DEF CreatedFor, InFlight, NoClaim, NoRun, Pending
<1>5. FiniteDrafts
  BY <1>4, FS_EmptySet DEF FiniteDrafts
<1>6. ASSUME NEW r \in Runs, NEW k \in Items
      PROVE  Cardinality(CreatedFor(r, k)) =
                 lost[r][k] + Cardinality(InFlight(r, k))
                 + (IF run[r].drafts[k].st = "submitted" THEN 1 ELSE 0)
  <2>1. Cardinality({}) = 0
    BY FS_EmptySet, Zenon
  <2>2. Cardinality(CreatedFor(r, k)) = 0 /\ Cardinality(InFlight(r, k)) = 0
    BY <1>4, <2>1
  <2> QED BY <1>4, <2>2
<1>7. OrphansAreDeaths
  BY <1>6 DEF OrphansAreDeaths
<1> QED BY <1>1, <1>2, <1>3, <1>5, <1>7 DEF CampaignInv

-----------------------------------------------------------------------------
(* Types *)

\* A run file with one draft replaced, or in another phase, is a run file.
LEMMA RunUpdated ==
    ASSUME CampaignTypeOK, NEW r \in Runs
    PROVE  /\ \A k \in Items, d \in Drafts :
                 [run EXCEPT ![r].drafts[k] = d] \in [Runs -> RunFile]
           /\ \A ph \in {"none", "drafting", "finished", "malformed"} :
                 [run EXCEPT ![r].phase = ph] \in [Runs -> RunFile]
<1>0. run \in [Runs -> RunFile] /\ run[r] \in RunFile
  BY DEF CampaignTypeOK
<1>1. ASSUME NEW k \in Items, NEW d \in Drafts
      PROVE  [run EXCEPT ![r].drafts[k] = d] \in [Runs -> RunFile]
  <2>1. [run[r].drafts EXCEPT ![k] = d] \in [Items -> Drafts]
    BY <1>0 DEF RunFile
  <2>2. [run[r] EXCEPT !.drafts = [run[r].drafts EXCEPT ![k] = d]] \in RunFile
    BY <1>0, <2>1 DEF RunFile
  <2>3. [run EXCEPT ![r].drafts[k] = d]
            = [run EXCEPT ![r] = [run[r] EXCEPT !.drafts = [run[r].drafts EXCEPT ![k] = d]]]
    BY Zenon
  <2> QED BY <1>0, <2>2, <2>3
<1>2. ASSUME NEW ph \in {"none", "drafting", "finished", "malformed"}
      PROVE  [run EXCEPT ![r].phase = ph] \in [Runs -> RunFile]
  <2>1. [run[r] EXCEPT !.phase = ph] \in RunFile
    BY <1>0 DEF RunFile
  <2> QED BY <1>0, <2>1
<1> QED BY <1>1, <1>2

LEMMA LostUpdated ==
    ASSUME CampaignTypeOK, NEW r \in Runs, NEW k \in Items
    PROVE  [lost EXCEPT ![r][k] = @ + 1] \in [Runs -> [Items -> Nat]]
<1>1. lost[r][k] + 1 \in Nat /\ lost[r] \in [Items -> Nat]
  BY DEF CampaignTypeOK
<1>2. [lost[r] EXCEPT ![k] = lost[r][k] + 1] \in [Items -> Nat]
  BY <1>1
<1>3. [lost EXCEPT ![r][k] = @ + 1] = [lost EXCEPT ![r] = [lost[r] EXCEPT ![k] = lost[r][k] + 1]]
  BY Zenon
<1> QED BY <1>2, <1>3 DEF CampaignTypeOK

LEMMA TypeStep == CampaignTypeOK /\ CampaignInv /\ CampaignNext => CampaignTypeOK'
<1> SUFFICES ASSUME CampaignInv, CampaignNext PROVE CampaignTypeOK'
  OBVIOUS
<1> USE DEF CampaignTypeOK, RunFile, Drafts
<1>0. CampaignTypeOK
  BY DEF CampaignInv
<1>1. ASSUME NEW r \in Runs, NEW f \in [Items -> Cites], BeginCampaign(r, f)
      PROVE  CampaignTypeOK'
  BY <1>0, <1>1 DEF BeginCampaign, NoRun, Pending
<1>2. ASSUME NEW r \in Runs, FinishCampaign(r) \/ DamageRun(r)
      PROVE  CampaignTypeOK'
  <2>1. run' \in [Runs -> RunFile]
    <3>1. CASE FinishCampaign(r)
      BY ONLY <1>0, <3>1, RunUpdated DEF FinishCampaign
    <3>2. CASE DamageRun(r)
      BY ONLY <1>0, <3>2, RunUpdated DEF DamageRun
    <3> QED BY <1>2, <3>1, <3>2
  <2> QED BY <1>0, <1>2, <2>1 DEF FinishCampaign, DamageRun
<1>3. ASSUME NEW r \in Runs, NEW k \in Items, Supersede(r, k)
      PROVE  CampaignTypeOK'
  <2>1. [st |-> "superseded_by_owner", claim |-> NewId] \in Drafts
    BY <1>3, NewIdIsUnused DEF Supersede
  <2>2. run' \in [Runs -> RunFile]
    BY ONLY <1>0, <1>3, <2>1, RunUpdated DEF Supersede
  <2>3. claim' \in [Claims -> Cites \cup {Nobody}]
    BY <1>0, <1>3, NewIdIsUnused DEF Supersede
  <2> QED BY <1>0, <1>3, <2>2, <2>3 DEF Supersede
<1>4. ASSUME NEW p \in Clients, NEW r \in Runs, NEW k \in Items, NEW n \in Nat,
             StartSubmit(p, r, k, n)
      PROVE  CampaignTypeOK'
  BY <1>0, <1>4 DEF StartSubmit
<1>5. ASSUME NEW p \in Clients, WriteClaim(p)
      PROVE  CampaignTypeOK'
  BY <1>0, <1>5, NewIdIsUnused DEF WriteClaim, CampaignInv, Submitting
<1>6. ASSUME NEW p \in Clients, WriteClaimFails(p)
      PROVE  CampaignTypeOK'
  BY <1>0, <1>6, CampaignAssumption DEF WriteClaimFails, EndSubmit, NoJob
<1>7. ASSUME NEW p \in Clients, Checkpoint(p)
      PROVE  CampaignTypeOK'
  <2>1. /\ cjob[p].run \in Runs /\ cjob[p].item \in Items
        /\ [st |-> "submitted", claim |-> cjob[p].claim] \in Drafts
    BY <1>7 DEF CampaignInv, AtCheckpoint, Submitting, Checkpoint
  <2>2. run' \in [Runs -> RunFile]
    BY ONLY <1>0, <1>7, <2>1, RunUpdated DEF Checkpoint
  <2>3. NoJob \in [run : Runs \cup {Nobody}, item : Items \cup {-1},
                   claim : Claims \cup {Nobody}, call : Nat]
    BY DEF NoJob
  <2> QED BY <1>0, <1>7, <2>2, <2>3 DEF Checkpoint, EndSubmit
<1>8. ASSUME NEW p \in Clients, LoseCheckpoint(p)
      PROVE  CampaignTypeOK'
  <2>1. cjob[p].run \in Runs /\ cjob[p].item \in Items
    BY <1>8 DEF CampaignInv, Submitting, LoseCheckpoint
  <2>2. lost' \in [Runs -> [Items -> Nat]]
    BY ONLY <1>0, <1>8, <2>1, LostUpdated DEF LoseCheckpoint
  <2>3. NoJob \in [run : Runs \cup {Nobody}, item : Items \cup {-1},
                   claim : Claims \cup {Nobody}, call : Nat]
    BY DEF NoJob
  <2> QED BY <1>0, <1>8, <2>2, <2>3 DEF LoseCheckpoint, EndSubmit
<1>9. ASSUME NEW e \in Cites, NEW n \in Nat, WriteDraft(e, n)
      PROVE  CampaignTypeOK'
  BY <1>0, <1>9, NewIdIsUnused DEF WriteDraft, NoClaim
<1> QED
  BY <1>1, <1>2, <1>3, <1>4, <1>5, <1>6, <1>7, <1>8, <1>9 DEF CampaignNext

-----------------------------------------------------------------------------
(* What a step leaves of the invariant *)

\* What a submission, a run file and an unused id may be found in.
Kept == Submitting /\ AtCheckpoint /\ Begun /\ Fresh /\ SubmittedHasItsClaim

\* While nobody submits, a step that changes one run only.
LEMMA BeginKept ==
    ASSUME CampaignInv, NEW r \in Runs, NEW f \in [Items -> Cites], BeginCampaign(r, f)
    PROVE  Kept'
<1>1. \A p \in Clients : cpc[p] = "idle"
  BY Quiet DEF BeginCampaign
<1>2. Submitting' /\ AtCheckpoint' /\ Fresh'
  BY <1>1 DEF BeginCampaign, Submitting, AtCheckpoint, Fresh, CampaignInv
<1>3. /\ run'[r].phase = "drafting" /\ run'[r].cites = f
      /\ run'[r].drafts = [k \in Items |-> Pending]
      /\ \A s \in Runs \ {r} : run'[s] = run[s]
  BY DEF BeginCampaign, NoRun, CampaignInv, CampaignTypeOK
<1>4. Begun'
  BY <1>3 DEF CampaignInv, Begun
<1>5. SubmittedHasItsClaim'
  BY <1>3 DEF CampaignInv, SubmittedHasItsClaim, BeginCampaign, Pending
<1> QED BY <1>2, <1>4, <1>5 DEF Kept

LEMMA PhaseKept ==
    ASSUME CampaignInv, NEW r \in Runs, FinishCampaign(r) \/ DamageRun(r)
    PROVE  Kept'
<1>1. \A p \in Clients : cpc[p] = "idle"
  BY Quiet DEF FinishCampaign, DamageRun
<1>2. Submitting' /\ AtCheckpoint' /\ Fresh'
  BY <1>1 DEF FinishCampaign, DamageRun, Submitting, AtCheckpoint, Fresh, CampaignInv
<1>3. /\ run[r].phase # "none" /\ run'[r].phase \in {"finished", "malformed"}
      /\ run'[r].phase = "finished" => Pendings(r) = {}
      /\ run'[r].cites = run[r].cites /\ run'[r].drafts = run[r].drafts
      /\ \A s \in Runs \ {r} : run'[s] = run[s]
      /\ claim' = claim /\ origin' = origin
  BY DEF FinishCampaign, DamageRun, Valid, CampaignInv, CampaignTypeOK, RunFile
<1>4. Begun'
  BY <1>3 DEF CampaignInv, Begun
<1>5. SubmittedHasItsClaim'
  BY <1>3 DEF CampaignInv, SubmittedHasItsClaim, Pendings
<1> QED BY <1>2, <1>4, <1>5 DEF Kept

LEMMA SupersedeKept ==
    ASSUME CampaignInv, NEW r \in Runs, NEW k \in Items, Supersede(r, k)
    PROVE  Kept'
<1>1. \A p \in Clients : cpc[p] = "idle"
  BY Quiet DEF Supersede
<1>2. NewId \in Claims /\ claim[NewId] = Nobody
  BY NewIdIsUnused DEF Supersede
<1>3. Submitting' /\ AtCheckpoint'
  BY <1>1 DEF Supersede, Submitting, AtCheckpoint
<1>4. \A c \in Claims : claim'[c] = Nobody => claim[c] = Nobody
  BY <1>2 DEF Supersede, CampaignInv, CampaignTypeOK
<1>5. Fresh'
  BY <1>4 DEF Fresh, CampaignInv, Supersede
<1>6. /\ run'[r].phase = "drafting" /\ run[r].phase = "drafting"
      /\ run'[r].cites = run[r].cites
      /\ run'[r].drafts[k].st = "superseded_by_owner"
      /\ \A n \in Items \ {k} : run'[r].drafts[n] = run[r].drafts[n]
      /\ \A s \in Runs \ {r} : run'[s] = run[s]
  BY DEF Supersede, CampaignInv, CampaignTypeOK, RunFile
<1>7. Begun'
  BY <1>6 DEF CampaignInv, Begun
<1>8. \A c \in Claims : claim[c] # Nobody => claim'[c] = claim[c] /\ origin'[c] = origin[c]
  BY <1>2 DEF Supersede, CampaignInv, CampaignTypeOK
<1>9. SubmittedHasItsClaim'
  <2>1. ASSUME NEW s \in Runs, NEW n \in Items, run'[s].drafts[n].st = "submitted"
        PROVE  /\ run'[s].drafts[n] = run[s].drafts[n] /\ run'[s].cites = run[s].cites
               /\ claim'[run[s].drafts[n].claim] = claim[run[s].drafts[n].claim]
               /\ origin'[run[s].drafts[n].claim] = origin[run[s].drafts[n].claim]
    <3>1. run'[s].drafts[n] = run[s].drafts[n] /\ run'[s].cites = run[s].cites
      BY <1>6, <2>1
    <3>2. run[s].drafts[n].claim \in Claims /\ claim[run[s].drafts[n].claim] # Nobody
      BY <2>1, <3>1, SubmittedExists
    <3> QED BY <1>8, <3>1, <3>2
  <2>2. \A s \in Runs, n \in Items : run'[s].phase = "finished" => run'[s].drafts[n].st # "pending"
    BY <1>6 DEF CampaignInv, SubmittedHasItsClaim
  <2> QED BY <2>1, <2>2 DEF CampaignInv, SubmittedHasItsClaim
<1> QED BY <1>3, <1>5, <1>7, <1>9 DEF Kept

LEMMA StartKept ==
    ASSUME CampaignInv, NEW p \in Clients, NEW r \in Runs, NEW k \in Items, NEW n \in Nat,
           StartSubmit(p, r, k, n)
    PROVE  Kept'
<1>1. \A q \in Clients : cpc[q] = "idle"
  BY Quiet DEF StartSubmit
<1>2. /\ cpc' = [cpc EXCEPT ![p] = "claim"] /\ holder' = p
      /\ cjob'[p].run = r /\ cjob'[p].item = k
      /\ run[r].phase = "drafting" /\ run' = run /\ claim' = claim /\ origin' = origin
  BY DEF StartSubmit, Accepts, CampaignInv, CampaignTypeOK
<1>3. run[r].drafts[k] = Pending
  <2>1. run[r].drafts[k].st = "pending" /\ Valid(run[r]) /\ run[r].drafts[k] \in Drafts
    BY DEF StartSubmit, Accepts, CampaignInv, CampaignTypeOK, RunFile
  <2> QED BY <2>1 DEF Valid, Pending, Drafts
<1>4. Submitting'
  BY <1>1, <1>2, <1>3 DEF CampaignInv, Submitting, CampaignTypeOK
<1>5. AtCheckpoint'
  BY <1>1, <1>2 DEF AtCheckpoint, CampaignInv, CampaignTypeOK
<1>6. Begun' /\ Fresh' /\ SubmittedHasItsClaim'
  BY <1>2 DEF CampaignInv, Begun, Fresh, SubmittedHasItsClaim
<1> QED BY <1>4, <1>5, <1>6 DEF Kept

LEMMA WriteClaimKept ==
    ASSUME CampaignInv, NEW p \in Clients, WriteClaim(p)
    PROVE  Kept'
<1>1. NewId \in Claims /\ claim[NewId] = Nobody
  BY NewIdIsUnused DEF WriteClaim
<1>2. \A q \in Clients \ {p} : cpc[q] = "idle"
  BY Alone DEF WriteClaim
<1>3. /\ cjob[p].run \in Runs /\ cjob[p].item \in Items
      /\ run[cjob[p].run].cites[cjob[p].item] \in Cites
  BY DEF CampaignInv, Submitting, Begun, WriteClaim
<1>4. /\ claim'[NewId] = run[cjob[p].run].cites[cjob[p].item]
      /\ origin'[NewId].run = cjob[p].run /\ origin'[NewId].item = cjob[p].item
      /\ \A c \in Claims \ {NewId} : claim'[c] = claim[c] /\ origin'[c] = origin[c]
      /\ run' = run /\ holder' = holder
  BY <1>1 DEF WriteClaim, CampaignInv, CampaignTypeOK
<1>5. /\ cjob'[p].run = cjob[p].run /\ cjob'[p].item = cjob[p].item
      /\ cjob'[p].claim = NewId
      /\ cpc' = [cpc EXCEPT ![p] = "checkpoint"]
      /\ \A q \in Clients \ {p} : cjob'[q] = cjob[q]
  BY DEF WriteClaim, CampaignInv, CampaignTypeOK
<1>6. Submitting'
  <2>1. ASSUME NEW q \in Clients, cpc'[q] # "idle" PROVE q = p
    BY <1>2, <1>5, <2>1 DEF CampaignInv, CampaignTypeOK
  <2>2. cpc[p] # "idle"
    BY DEF WriteClaim
  <2> QED BY <1>4, <1>5, <2>1, <2>2 DEF CampaignInv, Submitting
<1>7. AtCheckpoint'
  <2>1. ASSUME NEW q \in Clients, cpc'[q] = "checkpoint" PROVE q = p
    BY <1>2, <1>5, <2>1 DEF CampaignInv, CampaignTypeOK
  <2> QED BY <1>1, <1>4, <1>5, <2>1 DEF AtCheckpoint
<1>8. Begun' /\ Fresh'
  BY <1>3, <1>4, CampaignAssumption DEF CampaignInv, Begun, Fresh
<1>9. SubmittedHasItsClaim'
  <2>1. ASSUME NEW r \in Runs, NEW k \in Items, run[r].drafts[k].st = "submitted"
        PROVE  run[r].drafts[k].claim \in Claims \ {NewId}
    BY <1>1, <2>1, SubmittedExists
  <2> QED BY <1>4, <2>1 DEF CampaignInv, SubmittedHasItsClaim
<1> QED BY <1>6, <1>7, <1>8, <1>9 DEF Kept

LEMMA WriteDraftKept ==
    ASSUME CampaignInv, NEW e \in Cites, NEW n \in Nat, WriteDraft(e, n)
    PROVE  Kept'
<1>1. NewId \in Claims /\ claim[NewId] = Nobody
  BY NewIdIsUnused DEF WriteDraft
<1>2. \A q \in Clients : cpc[q] = "idle"
  BY Quiet DEF WriteDraft
<1>3. Submitting' /\ AtCheckpoint'
  BY <1>2 DEF WriteDraft, Submitting, AtCheckpoint
<1>4. /\ claim'[NewId] = e /\ run' = run
      /\ \A c \in Claims \ {NewId} : claim'[c] = claim[c] /\ origin'[c] = origin[c]
  BY <1>1 DEF WriteDraft, CampaignInv, CampaignTypeOK
<1>5. Begun' /\ Fresh'
  BY <1>4, CampaignAssumption DEF CampaignInv, Begun, Fresh
<1>6. SubmittedHasItsClaim'
  <2>1. ASSUME NEW r \in Runs, NEW k \in Items, run[r].drafts[k].st = "submitted"
        PROVE  run[r].drafts[k].claim \in Claims \ {NewId}
    BY <1>1, <2>1, SubmittedExists
  <2> QED BY <1>4, <2>1 DEF CampaignInv, SubmittedHasItsClaim
<1> QED BY <1>3, <1>5, <1>6 DEF Kept

\* A submission ends without its run file: nothing on disk changes.
LEMMA EndKept ==
    ASSUME CampaignInv, NEW p \in Clients, WriteClaimFails(p) \/ LoseCheckpoint(p)
    PROVE  Kept'
<1>1. \A q \in Clients \ {p} : cpc[q] = "idle"
  BY Alone DEF WriteClaimFails, LoseCheckpoint
<1>2. \A q \in Clients : cpc'[q] = "idle"
  BY <1>1 DEF WriteClaimFails, LoseCheckpoint, EndSubmit, CampaignInv, CampaignTypeOK
<1>3. Submitting' /\ AtCheckpoint'
  BY <1>2 DEF Submitting, AtCheckpoint
<1>4. run' = run /\ claim' = claim /\ origin' = origin
  BY DEF WriteClaimFails, LoseCheckpoint
<1>5. Begun' /\ Fresh' /\ SubmittedHasItsClaim'
  BY <1>4 DEF CampaignInv, Begun, Fresh, SubmittedHasItsClaim
<1> QED BY <1>3, <1>5 DEF Kept

LEMMA CheckpointKept ==
    ASSUME CampaignInv, NEW p \in Clients, Checkpoint(p)
    PROVE  Kept'
<1> DEFINE r == cjob[p].run  k == cjob[p].item
<1>1. \A q \in Clients \ {p} : cpc[q] = "idle"
  BY Alone DEF Checkpoint
<1>2. \A q \in Clients : cpc'[q] = "idle"
  BY <1>1 DEF Checkpoint, EndSubmit, CampaignInv, CampaignTypeOK
<1>3. Submitting' /\ AtCheckpoint'
  BY <1>2 DEF Submitting, AtCheckpoint
<1>4. /\ r \in Runs /\ k \in Items /\ run[r].phase = "drafting"
      /\ cjob[p].claim \in Claims /\ claim[cjob[p].claim] = run[r].cites[k]
      /\ origin[cjob[p].claim].run = r /\ origin[cjob[p].claim].item = k
  BY DEF Checkpoint, CampaignInv, Submitting, AtCheckpoint
<1>5. /\ claim' = claim /\ origin' = origin
      /\ \A s \in Runs : run'[s].phase = run[s].phase /\ run'[s].cites = run[s].cites
      /\ run'[r].drafts[k] = [st |-> "submitted", claim |-> cjob[p].claim]
      /\ \A n \in Items \ {k} : run'[r].drafts[n] = run[r].drafts[n]
      /\ \A s \in Runs \ {r} : run'[s] = run[s]
  BY <1>4 DEF Checkpoint, CampaignInv, CampaignTypeOK, RunFile
<1>6. Begun' /\ Fresh'
  BY <1>4, <1>5 DEF CampaignInv, Begun, Fresh
<1>7. SubmittedHasItsClaim'
  <2>1. cjob[p].claim # Nobody
    BY <1>4, CampaignAssumption
  <2> SUFFICES ASSUME NEW s \in Runs, NEW n \in Items
               PROVE  SubmittedHasItsClaim!(s, n)'
    BY DEF SubmittedHasItsClaim
  <2>2. CASE s = r /\ n = k
    <3>1. /\ run'[s].drafts[n].st = "submitted"
          /\ run'[s].drafts[n].claim = cjob[p].claim
      BY <1>5, <2>2
    <3>2. /\ claim'[cjob[p].claim] = run'[s].cites[n]
          /\ origin'[cjob[p].claim].run = s /\ origin'[cjob[p].claim].item = n
      BY <1>4, <1>5, <2>2
    <3> QED BY <2>1, <3>1, <3>2
  <2>3. CASE ~(s = r /\ n = k)
    <3>1. run'[s].drafts[n] = run[s].drafts[n]
      BY <1>5, <2>3
    <3> QED BY <1>5, <3>1 DEF CampaignInv, SubmittedHasItsClaim
  <2> QED BY <2>2, <2>3
<1> QED BY <1>3, <1>6, <1>7 DEF Kept

-----------------------------------------------------------------------------
(* The claims of an item *)

\* A step that makes no claim of a run, ends no submission between its writes,
\* and submits nothing leaves every account as it was.
LEMMA Untouched ==
    ASSUME CampaignInv, lost' = lost,
           NEW r \in Runs, NEW k \in Items,
           CreatedFor(r, k)' = CreatedFor(r, k), InFlight(r, k)' = InFlight(r, k),
           run'[r].drafts[k].st = "submitted" <=> run[r].drafts[k].st = "submitted"
    PROVE  Balanced(r, k)' /\ IsFiniteSet(CreatedFor(r, k))'
<1>1. Balanced(r, k) /\ IsFiniteSet(CreatedFor(r, k))
  BY DEF CampaignInv, OrphansAreDeaths, FiniteDrafts, Balanced
<1> QED BY <1>1 DEF Balanced

LEMMA RunStepBalanced ==
    ASSUME CampaignInv, NEW s \in Runs, NEW r \in Runs, NEW k \in Items,
           \/ \E f \in [Items -> Cites] : BeginCampaign(s, f)
           \/ FinishCampaign(s) \/ DamageRun(s) \/ \E n \in Items : Supersede(s, n)
    PROVE  Balanced(r, k)' /\ IsFiniteSet(CreatedFor(r, k))'
<1>1. lost' = lost /\ CreatedFor(r, k)' = CreatedFor(r, k) /\ InFlight(r, k)' = InFlight(r, k)
  BY DEF BeginCampaign, FinishCampaign, DamageRun, Supersede, CreatedFor, InFlight
<1>2. run'[r].drafts[k].st = "submitted" <=> run[r].drafts[k].st = "submitted"
  <2>0. run \in [Runs -> RunFile] /\ run[r] \in RunFile /\ run[s] \in RunFile
    BY DEF CampaignInv, CampaignTypeOK
  <2>1. CASE \E f \in [Items -> Cites] : BeginCampaign(s, f)
    <3>1. CASE r = s
      <4>1. run[s].phase = "none" /\ run'[s].drafts[k].st = "pending"
        <5>1. PICK f \in [Items -> Cites] : BeginCampaign(s, f)
          BY <2>1
        <5>2. run'[s].drafts = [n \in Items |-> Pending] /\ run[s].phase = "none"
          BY <5>1 DEF BeginCampaign, NoRun, CampaignInv, CampaignTypeOK
        <5> QED BY <5>2 DEF Pending
      <4>2. run[s].drafts[k].st = "pending"
        BY <4>1 DEF CampaignInv, Begun, Pending
      <4> QED BY <3>1, <4>1, <4>2
    <3>2. CASE r # s
      BY <2>0, <2>1, <3>2 DEF BeginCampaign
    <3> QED BY <3>1, <3>2
  <2>2. CASE FinishCampaign(s)
    BY <2>0, <2>2 DEF FinishCampaign, RunFile
  <2>3. CASE DamageRun(s)
    BY <2>0, <2>3 DEF DamageRun, RunFile
  <2>4. ASSUME NEW n \in Items, Supersede(s, n)
        PROVE  run'[r].drafts[k].st = "submitted" <=> run[r].drafts[k].st = "submitted"
    <3>1. /\ run[s].drafts[n].st = "pending" /\ run'[s].drafts[n].st = "superseded_by_owner"
          /\ \A i \in Items \ {n} : run'[s].drafts[i] = run[s].drafts[i]
          /\ \A i \in Runs \ {s} : run'[i] = run[i]
      BY <2>0, <2>4 DEF Supersede, RunFile
    <3> QED BY <3>1
  <2> QED BY <2>1, <2>2, <2>3, <2>4
<1> QED BY <1>1, <1>2, Untouched

LEMMA StartBalanced ==
    ASSUME CampaignInv, NEW p \in Clients, NEW s \in Runs, NEW i \in Items, NEW n \in Nat,
           StartSubmit(p, s, i, n), NEW r \in Runs, NEW k \in Items
    PROVE  Balanced(r, k)' /\ IsFiniteSet(CreatedFor(r, k))'
<1>1. lost' = lost /\ run' = run /\ CreatedFor(r, k)' = CreatedFor(r, k)
  BY DEF StartSubmit, CreatedFor
<1>2. \A q \in Clients : cpc[q] # "checkpoint" /\ cpc'[q] # "checkpoint"
  BY Quiet DEF StartSubmit, CampaignInv, CampaignTypeOK
<1>3. InFlight(r, k)' = InFlight(r, k)
  BY <1>2 DEF InFlight
<1> QED BY <1>1, <1>3, Untouched

LEMMA WriteDraftBalanced ==
    ASSUME CampaignInv, NEW e \in Cites, NEW n \in Nat, WriteDraft(e, n),
           NEW r \in Runs, NEW k \in Items
    PROVE  Balanced(r, k)' /\ IsFiniteSet(CreatedFor(r, k))'
<1>1. NewId \in Claims /\ claim[NewId] = Nobody
  BY NewIdIsUnused DEF WriteDraft
<1>2. origin[NewId] = NoClaim
  BY <1>1 DEF CampaignInv, Fresh
<1>3. /\ origin'[NewId].run = Nobody
      /\ \A c \in Claims \ {NewId} : origin'[c] = origin[c]
  BY <1>1 DEF WriteDraft, NoClaim, CampaignInv, CampaignTypeOK
<1>4. CreatedFor(r, k)' = CreatedFor(r, k)
  BY <1>1, <1>2, <1>3, CampaignAssumption DEF CreatedFor, NoClaim
<1>5. lost' = lost /\ run' = run /\ InFlight(r, k)' = InFlight(r, k)
  BY DEF WriteDraft, InFlight
<1> QED BY <1>4, <1>5, Untouched

LEMMA FailBalanced ==
    ASSUME CampaignInv, NEW p \in Clients, WriteClaimFails(p), NEW r \in Runs, NEW k \in Items
    PROVE  Balanced(r, k)' /\ IsFiniteSet(CreatedFor(r, k))'
<1>1. lost' = lost /\ run' = run /\ CreatedFor(r, k)' = CreatedFor(r, k)
  BY DEF WriteClaimFails, CreatedFor
<1>2. \A q \in Clients : cpc[q] # "checkpoint" /\ cpc'[q] # "checkpoint"
  BY Alone DEF WriteClaimFails, EndSubmit, CampaignInv, CampaignTypeOK
<1>3. InFlight(r, k)' = InFlight(r, k)
  BY <1>2 DEF InFlight
<1> QED BY <1>1, <1>3, Untouched

\* A submission that has written its claim is counted as under way.
LEMMA WriteClaimBalanced ==
    ASSUME CampaignInv, NEW p \in Clients, WriteClaim(p), NEW r \in Runs, NEW k \in Items
    PROVE  Balanced(r, k)' /\ IsFiniteSet(CreatedFor(r, k))'
<1>1. NewId \in Claims /\ origin[NewId] = NoClaim
  BY NewIdIsUnused DEF WriteClaim, CampaignInv, Fresh
<1>2. NewId \notin CreatedFor(r, k)
  BY <1>1, CampaignAssumption DEF CreatedFor, NoClaim
<1>3. \A q \in Clients \ {p} : cpc[q] = "idle" /\ cpc'[q] = "idle" /\ cjob'[q] = cjob[q]
  BY Alone DEF WriteClaim, CampaignInv, CampaignTypeOK
<1>4. /\ cpc[p] = "claim" /\ cpc'[p] = "checkpoint"
      /\ cjob'[p].run = cjob[p].run /\ cjob'[p].item = cjob[p].item
      /\ origin'[NewId].run = cjob[p].run /\ origin'[NewId].item = cjob[p].item
      /\ \A c \in Claims \ {NewId} : origin'[c] = origin[c]
      /\ run' = run /\ lost' = lost
  BY <1>1 DEF WriteClaim, CampaignInv, CampaignTypeOK
<1>5. InFlight(r, k) = {}
  BY <1>3, <1>4 DEF InFlight
<1>6. CASE cjob[p].run = r /\ cjob[p].item = k
  <2>1. CreatedFor(r, k)' = CreatedFor(r, k) \cup {NewId}
    BY <1>1, <1>2, <1>4, <1>6 DEF CreatedFor
  <2>2. InFlight(r, k)' = {p}
    BY <1>3, <1>4, <1>6 DEF InFlight
  <2>3. IsFiniteSet(CreatedFor(r, k)) /\ Balanced(r, k)
    BY DEF CampaignInv, FiniteDrafts, OrphansAreDeaths, Balanced
  <2>4. /\ IsFiniteSet(CreatedFor(r, k) \cup {NewId})
        /\ Cardinality(CreatedFor(r, k) \cup {NewId}) = Cardinality(CreatedFor(r, k)) + 1
    BY <1>2, <2>3, FS_AddElement
  <2>5. Cardinality({p}) = 1 /\ Cardinality({}) = 0
    BY FS_Singleton, FS_EmptySet
  <2>6. lost[r][k] \in Nat
    BY DEF CampaignInv, CampaignTypeOK
  <2>7. Balanced(r, k)'
    BY <1>4, <1>5, <2>1, <2>2, <2>3, <2>4, <2>5, <2>6 DEF Balanced
  <2> QED BY <2>1, <2>4, <2>7
<1>7. CASE ~(cjob[p].run = r /\ cjob[p].item = k)
  <2>1. CreatedFor(r, k)' = CreatedFor(r, k)
    BY <1>1, <1>2, <1>4, <1>7 DEF CreatedFor
  <2>2. InFlight(r, k)' = {}
    BY <1>3, <1>4, <1>7 DEF InFlight
  <2> QED BY <1>4, <1>5, <2>1, <2>2, Untouched
<1> QED BY <1>6, <1>7

\* Ending between the writes moves the claim to the lost ones.
LEMMA LoseBalanced ==
    ASSUME CampaignInv, NEW p \in Clients, LoseCheckpoint(p), NEW r \in Runs, NEW k \in Items
    PROVE  Balanced(r, k)' /\ IsFiniteSet(CreatedFor(r, k))'
<1>1. /\ run' = run /\ CreatedFor(r, k)' = CreatedFor(r, k)
      /\ cjob[p].run \in Runs /\ cjob[p].item \in Items
  BY DEF LoseCheckpoint, CreatedFor, CampaignInv, Submitting
<1>2. \A q \in Clients : cpc'[q] = "idle"
  BY Alone DEF LoseCheckpoint, EndSubmit, CampaignInv, CampaignTypeOK
<1>3. InFlight(r, k)' = {}
  BY <1>2 DEF InFlight
<1>4. \A q \in Clients \ {p} : cpc[q] = "idle"
  BY Alone DEF LoseCheckpoint
<1>5. IsFiniteSet(CreatedFor(r, k)) /\ Balanced(r, k) /\ lost \in [Runs -> [Items -> Nat]]
  BY DEF CampaignInv, FiniteDrafts, OrphansAreDeaths, Balanced, CampaignTypeOK
<1>6. Cardinality({p}) = 1 /\ Cardinality({}) = 0
  BY FS_Singleton, FS_EmptySet
<1>7. lost' = [lost EXCEPT ![cjob[p].run][cjob[p].item] = @ + 1]
  BY DEF LoseCheckpoint
<1>8. CASE cjob[p].run = r /\ cjob[p].item = k
  <2>1. InFlight(r, k) = {p}
    BY <1>4, <1>8 DEF InFlight, LoseCheckpoint
  <2>2. lost'[r][k] = lost[r][k] + 1
    BY <1>5, <1>7, <1>8
  <2>3. lost[r][k] \in Nat
    BY <1>5
  <2> QED BY <1>1, <1>3, <1>5, <1>6, <2>1, <2>2, <2>3 DEF Balanced
<1>9. CASE ~(cjob[p].run = r /\ cjob[p].item = k)
  <2>1. InFlight(r, k) = {}
    BY <1>4, <1>9 DEF InFlight
  <2>2. lost'[r][k] = lost[r][k]
    BY <1>1, <1>5, <1>7, <1>9
  <2> QED BY <1>1, <1>3, <1>5, <2>1, <2>2 DEF Balanced
<1> QED BY <1>8, <1>9

\* The run file takes the claim over from the submission under way.
LEMMA CheckpointBalanced ==
    ASSUME CampaignInv, NEW p \in Clients, Checkpoint(p), NEW r \in Runs, NEW k \in Items
    PROVE  Balanced(r, k)' /\ IsFiniteSet(CreatedFor(r, k))'
<1> DEFINE s == cjob[p].run  i == cjob[p].item
<1>1. /\ lost' = lost /\ CreatedFor(r, k)' = CreatedFor(r, k)
      /\ s \in Runs /\ i \in Items /\ run[s].drafts[i].st = "pending"
  BY DEF Checkpoint, CreatedFor, CampaignInv, Submitting, Pending
<1>2. \A q \in Clients : cpc'[q] = "idle"
  BY Alone DEF Checkpoint, EndSubmit, CampaignInv, CampaignTypeOK
<1>3. InFlight(r, k)' = {}
  BY <1>2 DEF InFlight
<1>4. \A q \in Clients \ {p} : cpc[q] = "idle"
  BY Alone DEF Checkpoint
<1>5. /\ run'[s].drafts[i].st = "submitted"
      /\ \A n \in Items \ {i} : run'[s].drafts[n] = run[s].drafts[n]
      /\ \A q \in Runs \ {s} : run'[q] = run[q]
  BY <1>1 DEF Checkpoint, CampaignInv, CampaignTypeOK, RunFile
<1>6. IsFiniteSet(CreatedFor(r, k)) /\ Balanced(r, k) /\ lost[r][k] \in Nat
  BY DEF CampaignInv, FiniteDrafts, OrphansAreDeaths, Balanced, CampaignTypeOK
<1>7. Cardinality({p}) = 1 /\ Cardinality({}) = 0
  BY FS_Singleton, FS_EmptySet
<1>8. CASE s = r /\ i = k
  <2>1. InFlight(r, k) = {p}
    BY <1>4, <1>8 DEF InFlight, Checkpoint
  <2> QED BY <1>1, <1>3, <1>5, <1>6, <1>7, <1>8, <2>1 DEF Balanced
<1>9. CASE ~(s = r /\ i = k)
  <2>1. InFlight(r, k) = {}
    BY <1>4, <1>9 DEF InFlight
  <2>2. run'[r].drafts[k] = run[r].drafts[k]
    BY <1>5, <1>9
  <2> QED BY <1>1, <1>3, <1>6, <2>1, <2>2 DEF Balanced
<1> QED BY <1>8, <1>9

-----------------------------------------------------------------------------
(* The theorems *)

LEMMA CampaignKeeps == CampaignInv /\ [CampaignNext]_campaignVars => CampaignInv'
<1>1. ASSUME CampaignInv, CampaignNext PROVE CampaignInv'
  <2>1. CampaignTypeOK'
    BY <1>1, TypeStep DEF CampaignInv
  <2>2. Kept'
    BY <1>1, BeginKept, PhaseKept, SupersedeKept, StartKept, WriteClaimKept, EndKept,
       CheckpointKept, WriteDraftKept DEF CampaignNext
  <2>3. ASSUME NEW r \in Runs, NEW k \in Items
        PROVE  Balanced(r, k)' /\ IsFiniteSet(CreatedFor(r, k))'
    BY <1>1, RunStepBalanced, StartBalanced, WriteDraftBalanced, FailBalanced,
       WriteClaimBalanced, LoseBalanced, CheckpointBalanced DEF CampaignNext
  <2>4. OrphansAreDeaths' /\ FiniteDrafts'
    BY <2>3 DEF OrphansAreDeaths, FiniteDrafts, Balanced
  <2> QED BY <2>1, <2>2, <2>4 DEF CampaignInv, Kept
<1>2. ASSUME CampaignInv, UNCHANGED campaignVars PROVE CampaignInv'
  <2> USE <1>2 DEF campaignVars, CampaignInv
  <2>1. CampaignTypeOK' /\ Fresh'
    BY DEF CampaignTypeOK, Fresh
  <2>2. Submitting' /\ AtCheckpoint' /\ Begun' /\ SubmittedHasItsClaim'
    BY DEF Submitting, AtCheckpoint, Begun, SubmittedHasItsClaim
  <2>3. ASSUME NEW r \in Runs, NEW k \in Items
        PROVE  CreatedFor(r, k)' = CreatedFor(r, k) /\ InFlight(r, k)' = InFlight(r, k)
    BY DEF CreatedFor, InFlight
  <2>4. FiniteDrafts'
    BY <2>3 DEF FiniteDrafts
  <2>5. OrphansAreDeaths'
    BY <2>3 DEF OrphansAreDeaths
  <2> QED BY <2>1, <2>2, <2>4, <2>5
<1> QED BY <1>1, <1>2

\* The inductive invariant holds whatever the clients, the owner and the deaths
\* of processes do.
THEOREM CampaignInvariance == CampaignSpec => []CampaignInv
BY CampaignStarts, CampaignKeeps, PTL DEF CampaignSpec

\* A draft a run file calls submitted has its claim (submit_campaign_draft).
THEOREM SubmittedTheorem == CampaignSpec => []SubmittedHasItsClaim
<1>1. CampaignInv => SubmittedHasItsClaim
  BY DEF CampaignInv
<1> QED BY <1>1, CampaignInvariance, PTL

\* Every extra claim of an item is a submission that ended between its two
\* writes, for any number of clients and retries.
THEOREM OrphansTheorem == CampaignSpec => []OrphansAreDeaths
<1>1. CampaignInv => OrphansAreDeaths
  BY DEF CampaignInv
<1> QED BY <1>1, CampaignInvariance, PTL

-----------------------------------------------------------------------------
(* Workspaces *)

Positions == 1..8

\* The type of a command: the step is one of its task, and the place within the
\* step is one that its kind of step has.
JobOK(job) ==
    /\ job \in [task : {"none", "create", "setup", "ended"}, name : Names \cup {NoName},
                step : 0..8, at : {"probe", "make", "cut", "write"}]
    /\ job.task = "create" => job.step \in 1..8 /\ job.name \in Names
    /\ job.task = "setup" => job.step \in 1..4
    /\ job.task \in {"create", "setup"} /\ job.at \in {"cut", "write"} =>
          Steps(job)[job.step] = "config"

WorkspacesTyped ==
    /\ config.default \in Names \cup {NoName}
    /\ DOMAIN config = {"exists", "default"}
    /\ settled \in Names \cup {NoName}
    /\ DOMAIN work = Hands
    /\ \A p \in Hands : JobOK(work[p])

\* A create has made what lies behind it.
BehindIsMade ==
    \A p \in Hands : work[p].task = "create" =>
        \A i \in Positions : i < work[p].step =>
            Path(work[p].name, CreateSteps[i]) \in made

\* Nobody is about to write config.yml once the default is settled.
NobodyWrites ==
    settled # NoName =>
        /\ config.exists
        /\ \A p \in Hands : AtWork(p) => work[p].at \notin {"cut", "write"}

\* A config.yml that is about to be written, or that names a default, is there.
ConfigExists ==
    config.default # NoName \/ (\E p \in Hands : AtWork(p) /\ work[p].at = "write")
        => config.exists

WorkspacesInv == WorkspacesTyped /\ BehindIsMade /\ DefaultIsWhole /\ SettledDefaultStays
        /\ NobodyWrites /\ ConfigExists

-----------------------------------------------------------------------------
(* The steps *)

LEMMA CreateSequence ==
    /\ Len(CreateSteps) = 8
    /\ CreateSteps[3] = "root" /\ CreateSteps[4] = "wiki" /\ CreateSteps[5] = "evidence"
    /\ CreateSteps[6] = "workspace.md" /\ CreateSteps[7] = "_index.md"
    /\ \A i \in 1..8 : CreateSteps[i] = "config" => i = 8
BY DEF CreateSteps

LEMMA SetupSequence == Len(SetupSteps) = 4 /\ \A i \in 1..4 : SetupSteps[i] = "config" => i = 2
BY DEF SetupSteps

\* What a step does to the command of its process: it ends or begins one, stays at
\* its place to make something or to write config.yml, or has made it and goes on.
Moved(p) ==
    \/ work' = [work EXCEPT ![p] = Ended]
    \/ \E n \in Names : work' = [work EXCEPT ![p] = Job("create", n, 1)]
    \/ work' = [work EXCEPT ![p] = Job("setup", NoName, 1)]
    \/ AtWork(p) /\ work' = [work EXCEPT ![p].at = "make"]
    \/ /\ AtWork(p) /\ Doing(p) = "config" /\ settled = NoName
       /\ work' = [work EXCEPT ![p].at = "cut"]
    \/ /\ AtWork(p) /\ Doing(p) = "config" /\ settled = NoName
       /\ work' = [work EXCEPT ![p].at = "write"] /\ config'.exists
    \/ /\ AtWork(p) /\ work[p].step # Len(Steps(work[p]))
       /\ work[p].task = "create" => Target(p) \in made'
       /\ work' = [work EXCEPT ![p].step = @ + 1, ![p].at = "probe"]

\* A default settles only as nobody is at work.
Settles == \/ settled' = settled
           \/ settled' = config'.default /\ \A q \in Hands : ~AtWork(q)'

\* config.yml changes only under a command that was on the way to write it.
Configures(p) ==
    \/ config' = config
    \/ /\ AtWork(p) /\ work[p].at \in {"cut", "write"} /\ Doing(p) = "config"
       /\ \/ config' = [exists |-> TRUE, default |-> NoName]
          \/ /\ work[p].at = "write" /\ work[p].task = "create"
             /\ config' = [config EXCEPT !.default = work[p].name]

\* EndCommand settles the default if the process was the last one at work.
LEMMA Ending ==
    ASSUME DOMAIN work = Hands, NEW p \in Hands, EndCommand(p)
    PROVE  work' = [work EXCEPT ![p] = Ended] /\ Settles
<1>1. ~AtWork(p)'
  BY DEF EndCommand, AtWork, Ended, Job
<1>2. ASSUME \A q \in Hands \ {p} : ~AtWork(q)
      PROVE  \A q \in Hands : ~AtWork(q)'
  BY <1>1, <1>2 DEF EndCommand, AtWork
<1> QED BY <1>2 DEF EndCommand, Settles

\* Going on ends the command, or moves it past a step that was made.
LEMMA GoingOn ==
    ASSUME WorkspacesTyped, NEW p \in Hands, AtWork(p), NextStep(p),
           work[p].task = "create" =>
              Target(p) \in made' \/ work[p].step = Len(Steps(work[p]))
    PROVE  Moved(p) /\ Settles
<1>1. CASE work[p].step = Len(Steps(work[p]))
  BY <1>1, Ending DEF NextStep, Moved, WorkspacesTyped
<1>2. CASE work[p].step # Len(Steps(work[p]))
  BY <1>2 DEF NextStep, Moved, Settles
<1> QED BY <1>1, <1>2

\* The step of config.yml is the last one of a create.
LEMMA LastOfCreate ==
    ASSUME WorkspacesTyped, NEW p \in Hands, AtWork(p), Doing(p) = "config", work[p].task = "create"
    PROVE  work[p].step = 8 /\ work[p].step = Len(Steps(work[p]))
BY CreateSequence DEF WorkspacesTyped, JobOK, Doing, Steps

\* What a step of process p may do, and that nothing is ever removed.
LEMMA StepShape ==
    ASSUME WorkspacesInv, NEW p \in Hands, HandSteps(p) \/ GiveUp(p)
    PROVE  Moved(p) /\ Settles /\ Configures(p) /\ made \subseteq made'
<1> USE DEF WorkspacesInv
<1>0. DOMAIN work = Hands /\ WorkspacesTyped
  BY DEF WorkspacesTyped
<1>1. ASSUME NEW n \in Names \cup Unsafe, StartCreate(p, n)
      PROVE  Moved(p) /\ Settles /\ Configures(p) /\ made \subseteq made'
  BY <1>1 DEF StartCreate, Safe, Moved, Settles, Configures
<1>2. ASSUME NEW n \in Names \cup Unsafe, RefuseCreate(p, n)
      PROVE  Moved(p) /\ Settles /\ Configures(p) /\ made \subseteq made'
  BY <1>0, <1>2, Ending DEF RefuseCreate, Moved, Configures
<1>3. CASE StartSetup(p)
  BY <1>3 DEF StartSetup, Moved, Settles, Configures
<1>4. CASE Probe(p)
  <2>1. CASE Target(p) \in made
    BY <1>0, <1>4, <2>1, GoingOn DEF Probe, Configures
  <2>2. CASE Target(p) \notin made
    BY <1>4, <2>2 DEF Probe, Goto, Moved, Settles, Configures
  <2> QED BY <2>1, <2>2
<1>5. CASE MakeDirectory(p)
  <2>1. CASE Target(p) \in made
    BY <1>0, <1>5, <2>1, Ending DEF MakeDirectory, Moved, Configures
  <2>2. CASE Target(p) \notin made
    BY <1>0, <1>5, <2>2, GoingOn DEF MakeDirectory, Configures
  <2> QED BY <2>1, <2>2
<1>6. CASE WriteFile(p)
  BY <1>0, <1>6, GoingOn DEF WriteFile, Configures
<1>7. CASE LookAtConfig(p)
  <2> DEFINE leave == \/ work[p].task = "create" /\ config.default # NoName
                      \/ work[p].task = "setup" /\ config.exists
  <2>1. CASE leave
    BY <1>0, <1>7, <2>1, GoingOn, LastOfCreate DEF LookAtConfig, Configures
  <2>2. CASE ~leave
    <3>1. AtWork(p) /\ Doing(p) = "config" /\ Goto(p, "cut") /\ UNCHANGED <<made, config>>
      BY <1>7, <2>2 DEF LookAtConfig
    <3>2. settled = NoName
      BY <2>2, <3>1 DEF SettledDefaultStays, ConfigExists, AtWork
    <3> QED BY <3>1, <3>2 DEF Goto, Moved, Settles, Configures
  <2> QED BY <2>1, <2>2
<1>8. CASE CutConfig(p)
  <2>1. Doing(p) = "config" /\ settled = NoName
    BY <1>8 DEF CutConfig, AtWork, Doing, WorkspacesTyped, JobOK, NobodyWrites
  <2> QED BY <1>8, <2>1 DEF CutConfig, Goto, Moved, Settles, Configures
<1>9. CASE WriteConfig(p)
  <2>1. Doing(p) = "config"
    BY <1>9 DEF WriteConfig, AtWork, Doing, WorkspacesTyped, JobOK
  <2>2. Moved(p) /\ Settles
    BY <1>0, <1>9, <2>1, GoingOn, LastOfCreate DEF WriteConfig
  <2> QED BY <1>9, <2>1, <2>2 DEF WriteConfig, Configures
<1>10. CASE GiveUp(p)
  BY <1>0, <1>10, Ending DEF GiveUp, Moved, Configures
<1> QED BY <1>1, <1>2, <1>3, <1>4, <1>5, <1>6, <1>7, <1>8, <1>9, <1>10 DEF HandSteps

-----------------------------------------------------------------------------
(* The invariant *)

LEMMA InitTyped ==
    ASSUME NEW there \in {{}, Names}, NEW default \in Names \cup {NoName},
           default # NoName => there = Names,
           WorkspacesInit(there, default)
    PROVE  WorkspacesInv
<1>1. WorkspacesTyped
  BY DEF WorkspacesInit, WorkspacesTyped, JobOK, Idle, Job
<1>2. \A p \in Hands : ~AtWork(p)
  BY DEF WorkspacesInit, AtWork, Idle, Job
<1>3. DefaultIsWhole
  BY WorkspacesAssumption DEF WorkspacesInit, DefaultIsWhole, Whole
<1>4. BehindIsMade
  BY <1>2 DEF BehindIsMade, AtWork
<1>5. SettledDefaultStays /\ ConfigExists
  BY <1>2, WorkspacesAssumption DEF WorkspacesInit, SettledDefaultStays, ConfigExists
<1>6. NobodyWrites
  BY <1>2, WorkspacesAssumption DEF WorkspacesInit, NobodyWrites
<1> QED BY <1>1, <1>3, <1>4, <1>5, <1>6 DEF WorkspacesInv

LEMMA StepTyped ==
    ASSUME WorkspacesTyped, NEW p \in Hands, Moved(p), Settles, Configures(p)
    PROVE  WorkspacesTyped'
<1>1. config'.default \in Names \cup {NoName} /\ DOMAIN config' = {"exists", "default"}
  BY DEF WorkspacesTyped, Configures, AtWork, JobOK
<1>2. settled' \in Names \cup {NoName}
  BY <1>1 DEF WorkspacesTyped, Settles
<1>3. DOMAIN work' = Hands /\ \A q \in Hands \ {p} : work'[q] = work[q]
  BY DEF WorkspacesTyped, Moved
<1>4. JobOK(work'[p])
  <2>1. JobOK(work[p])
    BY DEF WorkspacesTyped
  <2>2. CASE work' = [work EXCEPT ![p] = Ended]
    BY <2>2 DEF WorkspacesTyped, JobOK, Ended, Job
  <2>3. ASSUME NEW n \in Names, work' = [work EXCEPT ![p] = Job("create", n, 1)]
        PROVE  JobOK(work'[p])
    BY <2>3 DEF WorkspacesTyped, JobOK, Job
  <2>4. CASE work' = [work EXCEPT ![p] = Job("setup", NoName, 1)]
    BY <2>4 DEF WorkspacesTyped, JobOK, Job
  <2>5. ASSUME NEW at \in {"make", "cut", "write"}, AtWork(p),
               at = "make" \/ Doing(p) = "config",
               work' = [work EXCEPT ![p].at = at]
        PROVE  JobOK(work'[p])
    BY <2>1, <2>5 DEF WorkspacesTyped, JobOK, Doing, Steps, AtWork
  <2>6. CASE /\ AtWork(p) /\ work[p].step # Len(Steps(work[p]))
             /\ work' = [work EXCEPT ![p].step = @ + 1, ![p].at = "probe"]
    <3>1. work'[p] = [work[p] EXCEPT !.step = @ + 1, !.at = "probe"]
      BY <2>6 DEF WorkspacesTyped
    <3>2. work[p].task = "create" => work[p].step + 1 \in 1..8
      BY <2>1, <2>6, CreateSequence DEF JobOK, Steps
    <3>3. work[p].task = "setup" => work[p].step + 1 \in 1..4
      BY <2>1, <2>6, SetupSequence DEF JobOK, Steps
    <3>4. work[p].step + 1 \in 0..8
      BY <2>6, <3>2, <3>3 DEF AtWork
    <3> QED BY <2>1, <3>1, <3>2, <3>3, <3>4 DEF JobOK
  <2> QED BY <2>2, <2>3, <2>4, <2>5, <2>6 DEF Moved
<1> QED BY <1>1, <1>2, <1>3, <1>4 DEF WorkspacesTyped

LEMMA StepBehind ==
    ASSUME WorkspacesTyped, BehindIsMade, NEW p \in Hands, Moved(p), made \subseteq made'
    PROVE  BehindIsMade'
<1> SUFFICES ASSUME NEW q \in Hands, work'[q].task = "create",
                    NEW i \in Positions, i < work'[q].step
             PROVE  Path(work'[q].name, CreateSteps[i]) \in made'
  BY DEF BehindIsMade
<1>1. JobOK(work[q])
  BY DEF WorkspacesTyped
<1>2. CASE /\ work'[q].task = work[q].task /\ work'[q].name = work[q].name
           /\ work'[q].step = work[q].step
  BY <1>2 DEF BehindIsMade
<1>3. CASE q = p /\ ~(work'[q].task = work[q].task /\ work'[q].name = work[q].name
                      /\ work'[q].step = work[q].step)
  <2>1. CASE work' = [work EXCEPT ![p] = Ended]
    BY <1>3, <2>1 DEF WorkspacesTyped, Ended, Job
  <2>2. ASSUME NEW n \in Names, work' = [work EXCEPT ![p] = Job("create", n, 1)]
        PROVE  FALSE
    BY <1>3, <2>2 DEF WorkspacesTyped, Job, Positions
  <2>3. CASE work' = [work EXCEPT ![p] = Job("setup", NoName, 1)]
    BY <1>3, <2>3 DEF WorkspacesTyped, Job
  <2>4. ASSUME NEW at \in {"make", "cut", "write"}, work' = [work EXCEPT ![p].at = at]
        PROVE  FALSE
    BY <1>1, <1>3, <2>4 DEF WorkspacesTyped, JobOK
  <2>5. CASE /\ AtWork(p)
             /\ work[p].task = "create" => Target(p) \in made'
             /\ work' = [work EXCEPT ![p].step = @ + 1, ![p].at = "probe"]
    <3>1. /\ work'[q].step = work[q].step + 1 /\ work'[q].name = work[q].name
          /\ work[q].task = "create"
      BY <1>1, <1>3, <2>5 DEF WorkspacesTyped, JobOK
    <3>2. CASE i = work[q].step
      <4>1. Target(p) \in made'
        BY <1>3, <2>5, <3>1
      <4>2. Target(p) = Path(work[p].name, CreateSteps[work[p].step])
        BY <1>3, <3>1 DEF Target, Doing, Steps
      <4> QED BY <1>3, <3>1, <3>2, <4>1, <4>2
    <3>3. CASE i # work[q].step
      <4>1. i < work[q].step
        BY <1>1, <3>1, <3>3 DEF JobOK, Positions
      <4> QED BY <3>1, <4>1 DEF BehindIsMade
    <3> QED BY <3>2, <3>3
  <2> QED BY <2>1, <2>2, <2>3, <2>4, <2>5 DEF Moved
<1>4. CASE q # p
  BY <1>2, <1>4 DEF WorkspacesTyped, Moved
<1> QED BY <1>2, <1>3, <1>4

LEMMA StepWhole ==
    ASSUME WorkspacesTyped, BehindIsMade, DefaultIsWhole,
           NEW p \in Hands, Configures(p), made \subseteq made'
    PROVE  DefaultIsWhole'
<1>1. CASE config' = config
  BY <1>1 DEF DefaultIsWhole, Whole
<1>2. CASE config' = [exists |-> TRUE, default |-> NoName]
  BY <1>2 DEF DefaultIsWhole
<1>3. CASE /\ AtWork(p) /\ Doing(p) = "config" /\ work[p].task = "create"
           /\ config' = [config EXCEPT !.default = work[p].name]
  <2>1. work[p].step = 8
    BY <1>3, LastOfCreate
  <2>2. \A i \in 3..7 : Path(work[p].name, CreateSteps[i]) \in made
    BY <1>3, <2>1 DEF BehindIsMade, Positions
  <2>3. \A part \in OfOne : \E i \in 3..7 : part = CreateSteps[i]
    BY CreateSequence DEF OfOne
  <2>4. \A part \in OfOne : <<work[p].name, part>> = Path(work[p].name, part)
    BY DEF OfOne, Shared, Path
  <2>5. config'.default = work[p].name
    BY <1>3 DEF WorkspacesTyped
  <2> QED BY <2>2, <2>3, <2>4, <2>5 DEF DefaultIsWhole, Whole
<1> QED BY <1>1, <1>2, <1>3 DEF Configures

LEMMA StepSettled ==
    ASSUME WorkspacesInv, NEW p \in Hands, Moved(p), Settles, Configures(p), WorkspacesTyped'
    PROVE  SettledDefaultStays' /\ NobodyWrites' /\ ConfigExists'
<1>0. WorkspacesTyped /\ SettledDefaultStays /\ NobodyWrites /\ ConfigExists
  BY DEF WorkspacesInv
<1>1. ConfigExists'
  <2>1. config.exists => config'.exists
    BY <1>0 DEF Configures, WorkspacesTyped
  <2>2. ASSUME config'.default # NoName PROVE config'.exists
    <3>1. CASE config' = config
      BY <1>0, <2>2, <3>1 DEF ConfigExists
    <3>2. CASE AtWork(p) /\ work[p].at = "write"
      BY <1>0, <2>1, <3>2 DEF ConfigExists
    <3> QED BY <2>2, <3>1, <3>2 DEF Configures
  <2>3. ASSUME NEW q \in Hands, AtWork(q)', work'[q].at = "write" PROVE config'.exists
    <3>1. CASE q # p
      <4>1. AtWork(q) /\ work[q].at = "write"
        BY <1>0, <2>3, <3>1 DEF Moved, AtWork, WorkspacesTyped
      <4> QED BY <1>0, <2>1, <4>1 DEF ConfigExists
    <3>2. CASE q = p
      <4>1. JobOK(work[p])
        BY <1>0 DEF WorkspacesTyped
      <4> QED BY <1>0, <2>3, <3>2, <4>1 DEF Moved, AtWork, WorkspacesTyped, Ended, Job, JobOK
    <3> QED BY <3>1, <3>2
  <2> QED BY <2>2, <2>3 DEF ConfigExists
<1>2. CASE settled' = config'.default /\ \A q \in Hands : ~AtWork(q)'
  <2>1. SettledDefaultStays'
    BY <1>2 DEF SettledDefaultStays
  <2>2. NobodyWrites'
    BY <1>1, <1>2 DEF NobodyWrites, ConfigExists
  <2> QED BY <1>1, <2>1, <2>2
<1>3. CASE settled' = settled /\ settled = NoName
  <2>1. SettledDefaultStays'
    BY <1>3 DEF SettledDefaultStays
  <2>2. NobodyWrites'
    BY <1>3 DEF NobodyWrites
  <2> QED BY <1>1, <2>1, <2>2
<1>4. CASE settled' = settled /\ settled # NoName
  <2>1. config' = config
    BY <1>0, <1>4 DEF Configures, NobodyWrites
  <2>2. ASSUME NEW q \in Hands, AtWork(q)' PROVE work'[q].at \notin {"cut", "write"}
    <3>1. CASE q # p
      BY <1>0, <1>4, <2>2, <3>1 DEF NobodyWrites, Moved, AtWork, WorkspacesTyped
    <3>2. CASE q = p
      <4>1. JobOK(work[p])
        BY <1>0 DEF WorkspacesTyped
      <4> QED BY <1>0, <1>4, <2>2, <3>2, <4>1
               DEF NobodyWrites, Moved, AtWork, WorkspacesTyped, Ended, Job, JobOK
    <3> QED BY <3>1, <3>2
  <2>3. SettledDefaultStays'
    BY <1>0, <1>4, <2>1 DEF SettledDefaultStays
  <2>4. NobodyWrites'
    BY <1>0, <1>4, <2>1, <2>2 DEF NobodyWrites
  <2> QED BY <1>1, <2>3, <2>4
<1> QED BY <1>2, <1>3, <1>4 DEF Settles

LEMMA WorkspacesKeeps == WorkspacesInv /\ [WorkspacesNext]_workspacesVars => WorkspacesInv'
<1> SUFFICES ASSUME WorkspacesInv, [WorkspacesNext]_workspacesVars PROVE WorkspacesInv'
  OBVIOUS
<1>1. ASSUME NEW p \in Hands, HandSteps(p) \/ GiveUp(p) PROVE WorkspacesInv'
  <2>1. Moved(p) /\ Settles /\ Configures(p) /\ made \subseteq made'
    BY <1>1, StepShape
  <2>2. WorkspacesTyped'
    BY <2>1, StepTyped DEF WorkspacesInv
  <2>3. BehindIsMade'
    BY <2>1, StepBehind DEF WorkspacesInv
  <2>4. DefaultIsWhole'
    BY <2>1, StepWhole DEF WorkspacesInv
  <2>5. SettledDefaultStays' /\ NobodyWrites' /\ ConfigExists'
    BY <2>1, <2>2, StepSettled
  <2> QED BY <2>2, <2>3, <2>4, <2>5 DEF WorkspacesInv
<1>2. CASE UNCHANGED workspacesVars
  BY <1>2 DEF workspacesVars, WorkspacesInv, WorkspacesTyped, BehindIsMade, DefaultIsWhole, Whole,
              SettledDefaultStays, NobodyWrites, ConfigExists, AtWork
<1> QED BY <1>1, <1>2 DEF WorkspacesNext

THEOREM WorkspacesInvariance == WorkspacesSpec => []WorkspacesInv
<1>1. WorkspacesInit({}, NoName) \/ (\E n \in Names : WorkspacesInit(Names, n)) => WorkspacesInv
  BY InitTyped
<1> QED BY <1>1, WorkspacesKeeps, PTL DEF WorkspacesSpec

\* However many commands make workspaces, the default of config.yml is a workspace
\* with all its directories and files (create_workspace).
THEOREM WholeTheorem == WorkspacesSpec => []DefaultIsWhole
BY WorkspacesInvariance, PTL DEF WorkspacesInv

\* A default that was settled is never lost, whatever commands follow
\* (create_workspace, ensure_config).
THEOREM SettledTheorem == WorkspacesSpec => []SettledDefaultStays
BY WorkspacesInvariance, PTL DEF WorkspacesInv
=============================================================================
