------------------------------ MODULE Campaign ------------------------------
(***************************************************************************)
(* Promotion campaigns (campaign.rs): a run file lists draft specs; each   *)
(* submission turns one pending spec into a claim draft and then records   *)
(* the claim in the run file, under one exclusive lock but as two file     *)
(* writes.  An index a client holds may have been submitted meanwhile, a   *)
(* process may die between the two writes, and the owner may edit or       *)
(* damage a run file.                                                      *)
(***************************************************************************)
EXTENDS Integers, FiniteSets

CONSTANTS
    Clients,   \* processes that drive campaigns
    Runs,      \* campaign run ids
    Items,     \* draft indices of every run
    Claims,    \* claim ids
    Cites,     \* what a spec may cite, any values
    Nobody

ASSUME CampaignAssumption ==
    /\ Items \subseteq Nat /\ IsFiniteSet(Items)
    /\ Nobody \notin Clients \cup Claims \cup Runs \cup Cites

VARIABLES
    holder,  \* the exclusive workspace lock; shared holders never wait
    claim,   \* the claim drafts: what each cites, Nobody while there is none
    run,     \* campaigns/<run>.json
    cpc, cjob, \* submissions in progress
    origin,  \* history: the run, the item and the call each claim was made for
    lost     \* history: submissions that ended between the two writes

campaignVars == <<holder, claim, run, cpc, cjob, origin, lost>>

Pending == [st |-> "pending", claim |-> Nobody]
NoRun   == [phase |-> "none", drafts |-> [k \in Items |-> Pending],
            cites |-> [k \in Items |-> Nobody]]
Drafts  == [st : {"pending", "submitted", "superseded_by_owner"},
            claim : Claims \cup {Nobody}]
RunFile == [phase  : {"none", "drafting", "finished", "malformed"},
            drafts : [Items -> Drafts],
            cites  : [Items -> Cites \cup {Nobody}]]
NoJob   == [run |-> Nobody, item |-> -1, claim |-> Nobody, call |-> 0]
NoClaim == [run |-> Nobody, item |-> -1, call |-> 0]

CampaignInit ==
    /\ holder = Nobody
    /\ claim = [c \in Claims |-> Nobody] /\ origin = [c \in Claims |-> NoClaim]
    /\ run = [r \in Runs |-> NoRun]
    /\ cpc = [p \in Clients |-> "idle"] /\ cjob = [p \in Clients |-> NoJob]
    /\ lost = [r \in Runs |-> [k \in Items |-> 0]]

\* validate_campaign_run_file, after every read and before every write.
Valid(file) ==
    /\ file.phase \in {"drafting", "finished"}
    /\ \A k \in Items : file.drafts[k].st = "pending" <=> file.drafts[k].claim = Nobody
    /\ \A k, n \in Items :
          file.drafts[k].claim = file.drafts[n].claim => k = n \/ file.drafts[k] = Pending
    /\ file.phase = "finished" => \A k \in Items : file.drafts[k].st # "pending"

\* campaign_state_from_run: the first pending item, which campaign_next reports.
Pendings(r)    == {k \in Items : run[r].drafts[k].st = "pending"}
NextPending(r) == IF Pendings(r) = {} THEN -1
                  ELSE CHOOSE k \in Pendings(r) : \A n \in Pendings(r) : k <= n

\* begin_campaign: no claim is created.
BeginCampaign(r, cites) ==
    /\ holder = Nobody /\ run[r].phase = "none"
    /\ run' = [run EXCEPT ![r] = [NoRun EXCEPT !.phase = "drafting", !.cites = cites]]
    /\ UNCHANGED <<holder, claim, cpc, cjob, origin, lost>>

\* resume_campaign: it reads, and fails on a missing or malformed file.
Resumable(r) == holder = Nobody /\ Valid(run[r])
Resume(r)    == holder = Nobody /\ UNCHANGED campaignVars

\* Mutant: the status of the draft is not looked at.
Accepts_Stale(r, k) ==
    run[r].phase = "drafting" /\ Valid(run[r]) /\ k \in Items

\* The checks of submit_campaign_draft under the lock.
Accepts(r, k) ==
    /\ run[r].phase = "drafting" /\ Valid(run[r])
    /\ k \in Items /\ run[r].drafts[k].st = "pending"

StartSubmit(p, r, k, call) ==
    /\ cpc[p] = "idle" /\ holder = Nobody /\ Accepts(r, k)
    /\ holder' = p
    /\ cpc' = [cpc EXCEPT ![p] = "claim"]
    /\ cjob' = [cjob EXCEPT ![p] = [run |-> r, item |-> k, claim |-> Nobody, call |-> call]]
    /\ UNCHANGED <<claim, run, origin, lost>>

RefuseSubmit(p, r, k) ==
    /\ cpc[p] = "idle" /\ holder = Nobody /\ ~Accepts(r, k)
    /\ UNCHANGED campaignVars

\* The lock is released when the submission returns or its process dies.
EndSubmit(p) ==
    /\ holder' = Nobody
    /\ cpc' = [cpc EXCEPT ![p] = "idle"]
    /\ cjob' = [cjob EXCEPT ![p] = NoJob]

\* new_claim_id: any id not in use, so one of them will do.
Unused == {c \in Claims : claim[c] = Nobody}
NewId  == CHOOSE c \in Unused : TRUE

\* write_draft_unlocked with a new claim id.
WriteClaim(p) ==
    LET j == cjob[p]
        c == NewId
    IN  /\ cpc[p] = "claim" /\ Unused # {}
        /\ claim' = [claim EXCEPT ![c] = run[j.run].cites[j.item]]
        /\ origin' = [origin EXCEPT ![c] = [run |-> j.run, item |-> j.item, call |-> j.call]]
        /\ cjob' = [cjob EXCEPT ![p].claim = c]
        /\ cpc' = [cpc EXCEPT ![p] = "checkpoint"]
        /\ UNCHANGED <<holder, run, lost>>

\* write_draft of a claim that belongs to no run.
WriteDraft(cited, number) ==
    /\ holder = Nobody /\ Unused # {}
    /\ claim' = [claim EXCEPT ![NewId] = cited]
    /\ origin' = [origin EXCEPT ![NewId] = [NoClaim EXCEPT !.call = number]]
    /\ UNCHANGED <<holder, run, cpc, cjob, lost>>

\* The draft is not written, and the run file is not advanced.
WriteClaimFails(p) ==
    /\ cpc[p] = "claim" /\ EndSubmit(p)
    /\ UNCHANGED <<claim, run, origin, lost>>

\* Mutant: the last pending draft is recorded, not the one submitted.
Checkpoint_LastPending(p) ==
    LET j == cjob[p]
        waiting == {k \in Items : run[j.run].drafts[k].st = "pending"}
        last == CHOOSE k \in waiting : \A n \in waiting : n <= k
    IN  /\ cpc[p] = "checkpoint" /\ waiting # {}
        /\ run' = [run EXCEPT ![j.run].drafts[last] = [st |-> "submitted", claim |-> j.claim]]
        /\ EndSubmit(p)
        /\ UNCHANGED <<claim, origin, lost>>

\* write_campaign_run_unlocked: the run file read under the lock, advanced.
Checkpoint(p) ==
    LET j == cjob[p]
    IN  /\ cpc[p] = "checkpoint"
        /\ run' = [run EXCEPT ![j.run].drafts[j.item] =
                       [st |-> "submitted", claim |-> j.claim]]
        /\ EndSubmit(p)
        /\ UNCHANGED <<claim, origin, lost>>

\* Death of the process, or an error on the run file: the draft stays.
LoseCheckpoint(p) ==
    /\ cpc[p] = "checkpoint"
    /\ lost' = [lost EXCEPT ![cjob[p].run][cjob[p].item] = @ + 1]
    /\ EndSubmit(p)
    /\ UNCHANGED <<claim, run, origin>>

\* finish_campaign, which no tool offers.
FinishCampaign(r) ==
    /\ holder = Nobody /\ Valid(run[r])
    /\ Pendings(r) = {}
    /\ run' = [run EXCEPT ![r].phase = "finished"]
    /\ UNCHANGED <<holder, claim, cpc, cjob, origin, lost>>

\* External: the owner strikes out a pending draft, naming a claim of their own,
\* or leaves the file unreadable.  Neither is done while a submission runs.
Supersede(r, k) ==
    /\ Unused # {}
    /\ holder = Nobody /\ run[r].phase = "drafting" /\ run[r].drafts[k].st = "pending"
    /\ run' = [run EXCEPT ![r].drafts[k] = [st |-> "superseded_by_owner", claim |-> NewId]]
    /\ claim' = [claim EXCEPT ![NewId] = run[r].cites[k]]
    /\ UNCHANGED <<holder, cpc, cjob, origin, lost>>

DamageRun(r) ==
    /\ holder = Nobody /\ run[r].phase # "none"
    /\ run' = [run EXCEPT ![r].phase = "malformed"]
    /\ UNCHANGED <<holder, claim, cpc, cjob, origin, lost>>

\* The campaigns on their own: any number of clients, drafts of no campaign, the owner.
CampaignNext ==
    \/ \E r \in Runs :
          \/ \E f \in [Items -> Cites] : BeginCampaign(r, f)
          \/ FinishCampaign(r) \/ DamageRun(r)
          \/ \E k \in Items : Supersede(r, k)
    \/ \E p \in Clients, r \in Runs, k \in Items, n \in Nat : StartSubmit(p, r, k, n)
    \/ \E p \in Clients : WriteClaim(p) \/ WriteClaimFails(p) \/ Checkpoint(p) \/ LoseCheckpoint(p)
    \/ \E e \in Cites, n \in Nat : WriteDraft(e, n)

CampaignSpec == CampaignInit /\ [][CampaignNext]_campaignVars

-----------------------------------------------------------------------------
(* Properties *)

CampaignTypeOK ==
    /\ holder \in Clients \cup {Nobody}
    /\ claim \in [Claims -> Cites \cup {Nobody}]
    /\ run \in [Runs -> RunFile]
    /\ cpc \in [Clients -> {"idle", "claim", "checkpoint"}]
    /\ cjob \in [Clients -> [run : Runs \cup {Nobody}, item : Items \cup {-1},
                             claim : Claims \cup {Nobody}, call : Nat]]
    /\ origin \in [Claims -> [run : Runs \cup {Nobody}, item : Items \cup {-1}, call : Nat]]
    /\ lost \in [Runs -> [Items -> Nat]]

\* Every draft a run file calls submitted names a claim that exists, that was
\* created for this very spec and cites what the spec cites; a finished run has
\* a claim for every spec (submit_campaign_draft, validate_campaign_run_file).
SubmittedHasItsClaim ==
    \A r \in Runs, k \in Items :
        LET d == run[r].drafts[k]
        IN  /\ d.st = "submitted" =>
                  /\ d.claim # Nobody /\ claim[d.claim] = run[r].cites[k]
                  /\ origin[d.claim].run = r /\ origin[d.claim].item = k
            /\ run[r].phase = "finished" => d.st # "pending"

CreatedFor(r, k) == {c \in Claims : origin[c].run = r /\ origin[c].item = k}
InFlight(r, k)   == {p \in Clients : cpc[p] = "checkpoint"
                                     /\ cjob[p].run = r /\ cjob[p].item = k}

\* However often an item is submitted, retried and resumed, by however many
\* clients, it has one claim, and one more for each submission that ended
\* between the draft and its checkpoint (submit_campaign_draft).
OrphansAreDeaths ==
    \A r \in Runs, k \in Items :
        Cardinality(CreatedFor(r, k)) =
            lost[r][k] + Cardinality(InFlight(r, k))
            + (IF run[r].drafts[k].st = "submitted" THEN 1 ELSE 0)
=============================================================================
