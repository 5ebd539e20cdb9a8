---------------------------- MODULE TrustClosure ----------------------------
(***************************************************************************)
(* TrustValidator (trust.rs): the depth-first search that decides whether  *)
(* everything a claim rests on is approved and free of cycles.  One        *)
(* validator serves many roots (all approved claims of a rebuild, all rows *)
(* of an answer) and remembers what it has seen, so a verdict depends on   *)
(* the roots validated before it.                                          *)
(*                                                                         *)
(* `trusted` is the set of claims that load, are approved with a matching  *)
(* digest, pass the caller's evidence check and name no support twice.  (A *)
(* root that does is rejected whatever it rests on; it is left out here.)  *)
(* The code visits supports in the order of their ids; here any order is   *)
(* possible.                                                               *)
(***************************************************************************)
EXTENDS Sequences, Integers

CONSTANTS Claims, NoClaim

ASSUME NoClaimAssumption == NoClaim \notin Claims

VARIABLES
    supports,  \* supporting_claim_ids of each claim, as a set (never changes)
    trusted,   \* the claims fit to support others (never changes)
    state,     \* memo of the validator
    root,      \* the claim being validated, or NoClaim
    path,      \* the recursion: the root, then the claims being visited
    todo,      \* supports the frame of each claim on the path has left to visit
    verdict    \* what validate_claim returned for each root

vars == <<supports, trusted, state, root, path, todo, verdict>>

VisitState == {"unvisited", "visiting", "valid", "invalid"}

Init ==
    /\ supports \in [Claims -> SUBSET Claims]
    /\ trusted \in SUBSET Claims
    /\ state = [c \in Claims |-> "unvisited"]
    /\ root = NoClaim
    /\ path = <<>>
    /\ todo = [c \in Claims |-> {}]
    /\ verdict = [c \in Claims |-> "none"]

Top == path[Len(path)]
OnPath == {path[i] : i \in 1 .. Len(path)}

\* validate_claim starts with an empty recursion and the memo of earlier roots.
BeginRoot(r) ==
    /\ root = NoClaim /\ verdict[r] = "none"
    /\ root' = r
    /\ path' = <<r>>
    /\ todo' = [todo EXCEPT ![r] = supports[r]]
    /\ UNCHANGED <<supports, trusted, state, verdict>>

\* The next support of the claim on top of the recursion is already known.
SkipValid(c) ==
    /\ root # NoClaim /\ c \in todo[Top]
    /\ c # root /\ state[c] = "valid"
    /\ todo' = [todo EXCEPT ![Top] = @ \ {c}]
    /\ UNCHANGED <<supports, trusted, state, root, path, verdict>>

\* Mutant: a claim is remembered as valid before its supports are.
Descend_Optimistic(c) ==
    /\ root # NoClaim /\ c \in todo[Top]
    /\ c # root /\ state[c] = "unvisited" /\ c \in trusted
    /\ state' = [state EXCEPT ![c] = "valid"]
    /\ path' = Append(path, c)
    /\ todo' = [todo EXCEPT ![c] = supports[c]]
    /\ UNCHANGED <<supports, trusted, root, verdict>>

Descend(c) ==
    /\ root # NoClaim /\ c \in todo[Top]
    /\ c # root /\ state[c] = "unvisited" /\ c \in trusted
    /\ state' = [state EXCEPT ![c] = "visiting"]
    /\ path' = Append(path, c)
    /\ todo' = [todo EXCEPT ![c] = supports[c]]
    /\ UNCHANGED <<supports, trusted, root, verdict>>

\* Mutant: the claim stays "visiting" when its frame returns.
Ascend_Unmarked ==
    /\ Len(path) > 1 /\ todo[Top] = {}
    /\ path' = SubSeq(path, 1, Len(path) - 1)
    /\ todo' = [todo EXCEPT ![path[Len(path) - 1]] = @ \ {Top}]
    /\ UNCHANGED <<supports, trusted, state, root, verdict>>

\* All supports of the top claim are valid, so it is.
Ascend ==
    /\ Len(path) > 1 /\ todo[Top] = {}
    /\ state' = [state EXCEPT ![Top] = "valid"]
    /\ path' = SubSeq(path, 1, Len(path) - 1)
    /\ todo' = [todo EXCEPT ![path[Len(path) - 1]] = @ \ {Top}]
    /\ UNCHANGED <<supports, trusted, root, verdict>>

\* An error unwinds the whole recursion; every claim on it but the root is
\* remembered as invalid, and so are the claims in `culprits`.
Unwind(culprits) ==
    /\ state' = [c \in Claims |->
                   IF c \in culprits \cup (OnPath \ {root}) THEN "invalid" ELSE state[c]]
    /\ verdict' = [verdict EXCEPT ![root] = "rejected"]
    /\ root' = NoClaim /\ path' = <<>>
    /\ todo' = [c \in Claims |-> {}]
    /\ UNCHANGED <<supports, trusted>>

\* The support is already known to be invalid, or does not qualify itself.
RejectInvalid(c) ==
    /\ root # NoClaim /\ c \in todo[Top] /\ c # root
    /\ \/ state[c] = "invalid"
       \/ state[c] = "unvisited" /\ c \notin trusted
    /\ Unwind({c})

\* Mutant: only a return to the root counts as a cycle.
RejectCycle_RootOnly(c) ==
    /\ root # NoClaim /\ c \in todo[Top]
    /\ c = root
    /\ Unwind({c})

\* The support is the root, or is being visited: every claim of the cycle is
\* invalid, the root only when it is on the cycle itself.
RejectCycle(c) ==
    /\ root # NoClaim /\ c \in todo[Top]
    /\ c = root \/ state[c] = "visiting"
    /\ Unwind({c})

\* All supports of the root are valid.
Accept ==
    /\ Len(path) = 1 /\ todo[root] = {}
    /\ verdict' = [verdict EXCEPT ![root] = "accepted"]
    /\ root' = NoClaim /\ path' = <<>>
    /\ UNCHANGED <<supports, trusted, state, todo>>

Next ==
    \/ \E c \in Claims : \/ BeginRoot(c) \/ SkipValid(c) \/ Descend(c)
                         \/ RejectInvalid(c) \/ RejectCycle(c)
    \/ Ascend \/ Accept

Spec == Init /\ [][Next]_vars /\ WF_vars(Next)

-----------------------------------------------------------------------------
(* Properties *)

TypeOK ==
    /\ supports \in [Claims -> SUBSET Claims] /\ trusted \in SUBSET Claims
    /\ state \in [Claims -> VisitState]
    /\ path \in Seq(Claims)
    /\ root = IF path = <<>> THEN NoClaim ELSE path[1]
    /\ todo \in [Claims -> SUBSET Claims]
    /\ verdict \in [Claims -> {"none", "accepted", "rejected"}]

\* The reference: what c rests on in the graph g, directly or not, is the
\* smallest set that holds its supports and the supports of its members.
Closed(g, S) == \A d \in S : g[d] \subseteq S
Reach(g, c) ==
    {d \in Claims : \A S \in SUBSET Claims : g[c] \subseteq S /\ Closed(g, S) => d \in S}

\* Everything c rests on is fit for it, and there is no cycle in it.
Sound(c) ==
    /\ Reach(supports, c) \subseteq trusted
    /\ \A d \in Reach(supports, c) \cup {c} : d \notin Reach(supports, d)

\* Whatever roots were validated before, in whatever order, and however they
\* failed, a root is accepted exactly when everything it rests on is approved
\* and acyclic (validate_claim).
VerdictsAreRight ==
    \A r \in Claims : verdict[r] # "none" => (verdict[r] = "accepted" <=> Sound(r))

\* What the validator remembers is true of the claim itself, not of the root
\* it was met under.
MemoIsRight ==
    \A c \in Claims :
        /\ state[c] = "valid" => c \in trusted /\ Sound(c)
        /\ state[c] = "invalid" => ~(c \in trusted /\ Sound(c))

\* Every root gets its verdict: cycles do not trap the recursion.
EveryRootDecided == <>(\A r \in Claims : verdict[r] # "none")

=============================================================================
