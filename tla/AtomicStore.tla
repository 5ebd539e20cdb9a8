---------------------------- MODULE AtomicStore -----------------------------
(***************************************************************************)
(* What a zbrain workspace promises to its users, with no files, locks,    *)
(* generations or crashes in sight: every lifecycle command takes effect   *)
(* at once, approving a replacement supersedes what it replaces in the     *)
(* same instant, and a query tells exactly the claims approved right now.  *)
(***************************************************************************)
CONSTANTS Procs, Claims, Supersedes, Supports, InitStatus

VARIABLES
    status, \* status of every claim
    told    \* the answer each process holds: {} or {set of claims}

vars == <<status, told>>

Approved == {c \in Claims : status[c] = "approved"}

Init == status = InitStatus /\ told = [p \in Procs |-> {}]

Draft(c) ==
    /\ status[c] \in {"absent", "draft"}
    /\ Supersedes[c] # {} => Supersedes[c] \cap Approved # {}
    /\ status' = [status EXCEPT ![c] = "draft"]
    /\ UNCHANGED told

Approve(c) ==
    /\ status[c] = "draft"
    /\ Supersedes[c] \cup Supports[c] \subseteq Approved
    /\ status' = [d \in Claims |-> IF d = c THEN "approved"
                                   ELSE IF d \in Supersedes[c] THEN "superseded"
                                   ELSE status[d]]
    /\ UNCHANGED told

Revoke(c) ==
    /\ status[c] = "approved"
    /\ status' = [status EXCEPT ![c] = "revoked"]
    /\ UNCHANGED told

Tell(p) ==
    /\ told[p] = {}
    /\ told' = [told EXCEPT ![p] = {Approved}]
    /\ UNCHANGED status

Forget(p) ==
    /\ told' = [told EXCEPT ![p] = {}]
    /\ UNCHANGED status

Next ==
    \/ \E c \in Claims : Draft(c) \/ Approve(c) \/ Revoke(c)
    \/ \E p \in Procs : Tell(p) \/ Forget(p)

Spec == Init /\ [][Next]_vars

=============================================================================
