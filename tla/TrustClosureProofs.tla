------------------------- MODULE TrustClosureProofs -------------------------
(***************************************************************************)
(* The memoised search of TrustClosure decides reachability questions      *)
(* correctly for every set of claims and every support graph.              *)
(***************************************************************************)
EXTENDS TrustClosure, TLAPS

(* Reach is the least closed set: what follows needs nothing else of it. *)

\* The direct supports of a claim are among what it rests on.
LEMMA ReachSupports ==
    ASSUME NEW g \in [Claims -> SUBSET Claims], NEW c \in Claims
    PROVE  g[c] \subseteq Reach(g, c) /\ Reach(g, c) \in SUBSET Claims
  BY DEF Reach

\* What a claim rests on contains what its members rest on.
LEMMA ReachClosed ==
    ASSUME NEW g \in [Claims -> SUBSET Claims], NEW c \in Claims
    PROVE  Closed(g, Reach(g, c))
<1> SUFFICES ASSUME NEW d \in Reach(g, c), NEW e \in g[d],
                    NEW S \in SUBSET Claims, g[c] \subseteq S, Closed(g, S)
             PROVE  e \in Claims /\ e \in S
  BY DEF Closed, Reach
<1>1. d \in S /\ d \in Claims
  BY DEF Reach
<1> QED BY <1>1 DEF Closed

\* Any closed set with the direct supports holds all a claim rests on.
LEMMA ReachLeast ==
    ASSUME NEW g, NEW c \in Claims, NEW S \in SUBSET Claims,
           g[c] \subseteq S, Closed(g, S)
    PROVE  Reach(g, c) \subseteq S
  BY DEF Reach

\* Resting on a claim means resting on everything it rests on.
LEMMA ReachTransitive ==
    ASSUME NEW g \in [Claims -> SUBSET Claims], NEW c \in Claims, NEW d \in Reach(g, c)
    PROVE  Reach(g, d) \subseteq Reach(g, c)
<1>1. d \in Claims /\ Reach(g, c) \in SUBSET Claims
  BY ReachSupports
<1>2. Closed(g, Reach(g, c)) /\ g[d] \subseteq Reach(g, c)
  BY ReachClosed DEF Closed
<1> QED BY <1>1, <1>2, ReachLeast

\* A claim that rests on an unfit or unsound claim is not sound.
LEMMA UnsoundSpreads ==
    ASSUME TypeOK, NEW c \in Claims, NEW d \in Reach(supports, c),
           ~(d \in trusted /\ Sound(d))
    PROVE  ~Sound(c)
<1>1. Reach(supports, d) \subseteq Reach(supports, c)
  BY ReachTransitive DEF TypeOK
<1> QED BY <1>1 DEF Sound

-----------------------------------------------------------------------------
(* The inductive invariant. *)

\* The recursion: distinct claims, each resting on the next; the supports a
\* frame has done with are valid; only its claims are being visited.
PathInv ==
    /\ \A i \in 2 .. Len(path) : state[path[i]] = "visiting" /\ path[i] \in trusted
    /\ \A i, j \in 1 .. Len(path) : i < j => path[j] \in Reach(supports, path[i]) /\ path[i] # path[j]
    /\ \A c \in Claims : state[c] = "visiting" => \E i \in 2 .. Len(path) : path[i] = c
    /\ \A i \in 1 .. Len(path) :
          /\ todo[path[i]] \subseteq supports[path[i]]
          /\ \A d \in supports[path[i]] \ todo[path[i]] : state[d] = "valid"

\* What is remembered as valid is fit, rests on valid claims only and is on no
\* cycle; what is remembered as invalid is not.
MemoInv ==
    \A c \in Claims :
        /\ state[c] = "valid" => /\ c \in trusted /\ c \notin Reach(supports, c)
                                 /\ \A d \in supports[c] : state[d] = "valid"
        /\ state[c] = "invalid" => ~(c \in trusted /\ Sound(c))

IInv == PathInv /\ MemoInv /\ VerdictsAreRight

Valid == {c \in Claims : state[c] = "valid"}

\* A claim whose supports are all valid rests on valid claims only.
LEMMA RestsOnValid ==
    ASSUME TypeOK, MemoInv, NEW c \in Claims, supports[c] \subseteq Valid
    PROVE  /\ Reach(supports, c) \subseteq Valid
           /\ c \notin Valid => Sound(c)
           /\ c \in Valid => Sound(c)
<1>1. Closed(supports, Valid)
  BY DEF Closed, Valid, MemoInv, TypeOK
<1>2. Reach(supports, c) \subseteq Valid
  BY <1>1, ReachLeast DEF Valid
<1>3. Reach(supports, c) \subseteq trusted /\ \A d \in Reach(supports, c) : d \notin Reach(supports, d)
  BY <1>2 DEF MemoInv, Valid
<1>4. c \notin Reach(supports, c)
  BY <1>2 DEF MemoInv, Valid
<1> QED BY <1>2, <1>3, <1>4 DEF Sound

\* The memo is right whenever the inductive invariant holds.
LEMMA MemoFollows == ASSUME TypeOK, IInv PROVE MemoIsRight
<1> SUFFICES ASSUME NEW c \in Claims, state[c] = "valid" PROVE c \in trusted /\ Sound(c)
  BY DEF MemoIsRight, IInv, MemoInv
<1>1. supports[c] \subseteq Valid
  BY DEF IInv, MemoInv, Valid, TypeOK
<1> QED BY <1>1, RestsOnValid DEF IInv, MemoInv

\* A validator that has seen nothing satisfies the invariant.
LEMMA InitHolds == Init => TypeOK /\ IInv
  BY NoClaimAssumption DEF Init, TypeOK, IInv, PathInv, MemoInv, VerdictsAreRight, VisitState

-----------------------------------------------------------------------------
(* Every step keeps the invariant. *)

\* Starting on a root: the recursion is the root alone.
LEMMA BeginRootKeeps ==
    ASSUME TypeOK, IInv, NEW r \in Claims, BeginRoot(r)
    PROVE  TypeOK' /\ IInv'
<1>1. path = <<>> /\ path' = <<r>> /\ Len(path') = 1 /\ path'[1] = r
  BY NoClaimAssumption DEF BeginRoot, TypeOK
<1>2. TypeOK'
  BY <1>1, NoClaimAssumption DEF BeginRoot, TypeOK
<1>3. PathInv'
  BY <1>1 DEF BeginRoot, IInv, PathInv, TypeOK
<1>4. MemoInv' /\ VerdictsAreRight'
  BY DEF BeginRoot, IInv, MemoInv, VerdictsAreRight, Sound
<1> QED BY <1>2, <1>3, <1>4 DEF IInv

\* A support that is known to be valid is done with.
LEMMA SkipValidKeeps ==
    ASSUME TypeOK, IInv, NEW c \in Claims, SkipValid(c)
    PROVE  TypeOK' /\ IInv'
<1>1. TypeOK'
  BY DEF SkipValid, TypeOK
<1>2. PathInv'
  <2>1. path' = path /\ state' = state /\ UNCHANGED <<supports, trusted>>
    BY DEF SkipValid
  <2>3. ASSUME NEW i \in 1 .. Len(path)
        PROVE  /\ todo'[path[i]] \subseteq supports[path[i]]
               /\ \A d \in supports[path[i]] \ todo'[path[i]] : state[d] = "valid"
    BY DEF SkipValid, IInv, PathInv, TypeOK
  <2> QED BY <2>1, <2>3 DEF IInv, PathInv
<1>3. MemoInv' /\ VerdictsAreRight'
  BY DEF SkipValid, IInv, MemoInv, VerdictsAreRight, Sound
<1> QED BY <1>1, <1>2, <1>3 DEF IInv

\* Entering a support: it rests below everything on the path.
LEMMA DescendKeeps ==
    ASSUME TypeOK, IInv, NEW c \in Claims, Descend(c)
    PROVE  TypeOK' /\ IInv'
<1>0. Len(path) \in Nat /\ Len(path) > 0 /\ root = path[1] /\ Top \in Claims
  BY NoClaimAssumption DEF Descend, TypeOK, Top
<1>1. /\ Len(path') = Len(path) + 1 /\ path'[Len(path) + 1] = c
      /\ \A i \in 1 .. Len(path) : path'[i] = path[i] /\ path[i] \in Claims
  BY <1>0 DEF Descend, TypeOK
<1>2. /\ state' = [state EXCEPT ![c] = "visiting"] /\ state[c] = "unvisited" /\ c \in trusted
      /\ todo' = [todo EXCEPT ![c] = supports[c]] /\ UNCHANGED <<supports, trusted, verdict>>
      /\ c \in todo[Top] /\ c # root
  BY DEF Descend
<1>3. TypeOK'
  BY <1>0, <1>1, <1>2 DEF Descend, TypeOK, VisitState
<1>4. \A i \in 1 .. Len(path) : path[i] # c
  <2>1. \A i \in 2 .. Len(path) : path[i] # c
    BY <1>2 DEF IInv, PathInv
  <2> QED BY <1>0, <1>2, <2>1
<1>5. \A i \in 1 .. Len(path) : c \in Reach(supports, path[i])
  <2>1. c \in supports[Top]
    BY <1>0, <1>2 DEF IInv, PathInv, Top
  <2>2. c \in Reach(supports, Top)
    BY <1>0, <2>1, ReachSupports DEF TypeOK
  <2>3. SUFFICES ASSUME NEW i \in 1 .. Len(path), i < Len(path) PROVE c \in Reach(supports, path[i])
    BY <1>0, <2>2 DEF Top
  <2>4. Top \in Reach(supports, path[i])
    BY <1>0, <2>3 DEF IInv, PathInv, Top
  <2> QED BY <1>1, <2>2, <2>4, ReachTransitive DEF TypeOK
<1>6. PathInv'
  <2>1. \A i \in 2 .. Len(path') : state'[path'[i]] = "visiting" /\ path'[i] \in trusted'
    BY <1>0, <1>1, <1>2 DEF IInv, PathInv, TypeOK
  <2>2. ASSUME NEW i \in 1 .. Len(path'), NEW j \in 1 .. Len(path'), i < j
        PROVE  path'[j] \in Reach(supports, path'[i]) /\ path'[i] # path'[j]
    <3>1. i \in 1 .. Len(path) /\ path'[i] = path[i]
      BY <1>0, <1>1, <2>2
    <3>2. CASE j = Len(path) + 1
      BY <1>1, <1>4, <1>5, <3>1, <3>2
    <3>3. CASE j # Len(path) + 1
      BY <1>0, <1>1, <2>2, <3>1, <3>3 DEF IInv, PathInv
    <3> QED BY <3>2, <3>3
  <2>3. ASSUME NEW d \in Claims, state'[d] = "visiting"
        PROVE  \E i \in 2 .. Len(path') : path'[i] = d
    BY <1>0, <1>1, <1>2, <2>3 DEF IInv, PathInv, TypeOK
  <2>4. ASSUME NEW i \in 1 .. Len(path')
        PROVE  /\ todo'[path'[i]] \subseteq supports'[path'[i]]
               /\ \A d \in supports'[path'[i]] \ todo'[path'[i]] : state'[d] = "valid"
    <3>1. CASE i = Len(path) + 1
      BY <1>1, <1>2, <3>1 DEF TypeOK
    <3>2. CASE i # Len(path) + 1
      BY <1>0, <1>1, <1>2, <1>4, <3>2 DEF IInv, PathInv, TypeOK
    <3> QED BY <3>1, <3>2
  <2> QED BY <1>2, <2>1, <2>2, <2>3, <2>4 DEF PathInv
<1>7. MemoInv' /\ VerdictsAreRight'
  BY <1>2 DEF IInv, MemoInv, VerdictsAreRight, TypeOK, Sound
<1> QED BY <1>3, <1>6, <1>7 DEF IInv

\* Leaving a claim: its supports are all valid, so it rests on no cycle.
LEMMA AscendKeeps == ASSUME TypeOK, IInv, Ascend PROVE TypeOK' /\ IInv'
<1> DEFINE n == Len(path)
<1>0. n \in Nat /\ n > 1 /\ todo[path[n]] = {} /\ Top = path[n]
  BY DEF Ascend, TypeOK, Top
<1>1. /\ Len(path') = n - 1
      /\ \A i \in 1 .. n - 1 : path'[i] = path[i]
      /\ \A i \in 1 .. n : path[i] \in Claims
      /\ path' \in Seq(Claims)
  BY <1>0 DEF Ascend, TypeOK
<1>2. /\ state' = [state EXCEPT ![path[n]] = "valid"]
      /\ todo' = [todo EXCEPT ![path[n - 1]] = @ \ {path[n]}]
      /\ UNCHANGED <<supports, trusted, root, verdict>>
  BY <1>0 DEF Ascend
<1>3. /\ state[path[n]] = "visiting" /\ path[n] \in trusted
      /\ \A i \in 1 .. n - 1 : path[i] # path[n]
      /\ \A d \in supports[path[n]] : state[d] = "valid"
  BY <1>0 DEF IInv, PathInv
<1> HIDE DEF n
<1>4. TypeOK'
  <2>1. path' # <<>> /\ path # <<>> /\ path'[1] = path[1]
    BY <1>0, <1>1 DEF n
  <2> QED BY <1>0, <1>1, <1>2, <2>1 DEF TypeOK, VisitState
<1>5. PathInv'
  <2>1. \A i \in 2 .. n - 1 : state'[path[i]] = "visiting" /\ path[i] \in trusted
    BY <1>0, <1>1, <1>2, <1>3 DEF IInv, PathInv, TypeOK, n
  <2>2. \A i, j \in 1 .. n - 1 :
           i < j => path[j] \in Reach(supports, path[i]) /\ path[i] # path[j]
    BY <1>0 DEF IInv, PathInv, n
  <2>3. ASSUME NEW c \in Claims, state'[c] = "visiting"
        PROVE  \E i \in 2 .. n - 1 : path[i] = c
    <3>1. c # path[n] /\ state[c] = "visiting"
      BY <1>0, <1>1, <1>2, <2>3 DEF TypeOK
    <3> QED BY <1>0, <3>1 DEF IInv, PathInv, n
  <2>4. ASSUME NEW i \in 1 .. n - 1
        PROVE  /\ todo'[path[i]] \subseteq supports[path[i]]
               /\ \A d \in supports[path[i]] \ todo'[path[i]] : state'[d] = "valid"
    <3>1. /\ todo[path[i]] \subseteq supports[path[i]]
          /\ \A d \in supports[path[i]] \ todo[path[i]] : state[d] = "valid"
      BY <1>0, <2>4 DEF IInv, PathInv, n
    <3>2. \A d \in Claims : state[d] = "valid" => state'[d] = "valid"
      BY <1>0, <1>1, <1>2 DEF TypeOK
    <3>3. state'[path[n]] = "valid" /\ supports[path[i]] \subseteq Claims
      BY <1>0, <1>1, <1>2 DEF TypeOK
    <3>4. todo'[path[i]] = IF path[i] = path[n - 1] THEN todo[path[i]] \ {path[n]}
                           ELSE todo[path[i]]
      <4>1. path[i] \in Claims /\ todo \in [Claims -> SUBSET Claims]
        BY <1>0, <1>1 DEF TypeOK
      <4> QED BY <1>2, <4>1, Zenon
    <3> QED BY <3>1, <3>2, <3>3, <3>4
  <2> QED BY <1>0, <1>1, <1>2, <2>1, <2>2, <2>3, <2>4 DEF PathInv
<1>6. MemoInv'
  <2>1. supports[path[n]] \subseteq Valid /\ path[n] \notin Valid /\ path[n] \in Claims
    BY <1>0, <1>1, <1>3 DEF Valid, TypeOK
  <2>2. path[n] \notin Reach(supports, path[n])
    BY <2>1, RestsOnValid DEF IInv
  <2> QED BY <1>2, <1>3, <2>1, <2>2 DEF IInv, MemoInv, Sound, TypeOK
<1>7. VerdictsAreRight'
  BY <1>2 DEF IInv, VerdictsAreRight, Sound
<1> QED BY <1>4, <1>5, <1>6, <1>7 DEF IInv

\* A claim above everything on the recursion that is unfit makes all of it
\* unsound, so forgetting the recursion may remember all of it as invalid.
LEMMA UnwindKeeps ==
    ASSUME TypeOK, IInv, root # NoClaim, NEW c \in todo[Top], Unwind({c}),
           ~(c \in trusted /\ Sound(c))
    PROVE  TypeOK' /\ IInv'
<1>0. /\ Len(path) \in Nat /\ Len(path) > 0 /\ path[1] = root /\ root \in Claims
      /\ \A i \in 1 .. Len(path) : path[i] \in Claims
      /\ c \in Claims /\ c \in supports[Top] /\ Top \in Claims
  BY NoClaimAssumption DEF TypeOK, Top, IInv, PathInv
<1>1. /\ state' = [d \in Claims |->
                     IF d \in {c} \cup (OnPath \ {root}) THEN "invalid" ELSE state[d]]
      /\ verdict' = [verdict EXCEPT ![root] = "rejected"]
      /\ root' = NoClaim /\ path' = <<>> /\ todo' = [d \in Claims |-> {}]
      /\ UNCHANGED <<supports, trusted>>
  BY DEF Unwind
<1>2. ASSUME NEW i \in 1 .. Len(path) PROVE c \in Reach(supports, path[i])
  <2>1. c \in Reach(supports, Top)
    BY <1>0, ReachSupports DEF TypeOK
  <2>2. CASE i = Len(path)
    BY <2>1, <2>2 DEF Top
  <2>3. CASE i < Len(path)
    <3>1. Top \in Reach(supports, path[i])
      BY <1>0, <2>3 DEF IInv, PathInv, Top
    <3> QED BY <1>0, <2>1, <3>1, ReachTransitive DEF TypeOK
  <2> QED BY <1>0, <2>2, <2>3
<1>3. \A i \in 1 .. Len(path) : ~Sound(path[i])
  BY <1>0, <1>2, UnsoundSpreads
<1>4. TypeOK'
  <2>1. state' \in [Claims -> VisitState]
    BY <1>1 DEF TypeOK, VisitState
  <2>2. verdict' \in [Claims -> {"none", "accepted", "rejected"}]
    BY <1>1 DEF TypeOK
  <2> QED BY <1>1, <2>1, <2>2 DEF TypeOK
<1>5. \A d \in Claims : state'[d] # "visiting"
  <2> SUFFICES ASSUME NEW d \in Claims, state[d] = "visiting" PROVE d \in OnPath \ {root}
    BY <1>1
  <2>1. PICK i \in 2 .. Len(path) : path[i] = d
    BY DEF IInv, PathInv
  <2>2. path[1] # path[i]
    BY <1>0, <2>1 DEF IInv, PathInv
  <2> QED BY <1>0, <2>1, <2>2 DEF OnPath
<1>6. PathInv'
  BY <1>1, <1>5 DEF PathInv
<1>7. MemoInv'
  <2>1. \A d \in Claims : state[d] = "valid" => d \in trusted /\ Sound(d)
    BY MemoFollows DEF MemoIsRight
  <2>2. \A d \in Claims : state[d] = "valid" => d # c /\ d \notin OnPath
    BY <1>3, <2>1 DEF OnPath
  <2>3. ASSUME NEW d \in Claims, state'[d] = "valid"
        PROVE  /\ d \in trusted /\ d \notin Reach(supports, d)
               /\ \A e \in supports[d] : state'[e] = "valid"
    <3>1. state[d] = "valid"
      BY <1>1, <2>3
    <3>2. /\ d \in trusted /\ d \notin Reach(supports, d)
          /\ \A e \in supports[d] : state[e] = "valid" /\ e \in Claims
      BY <3>1 DEF IInv, MemoInv, TypeOK
    <3> QED BY <1>1, <2>2, <3>2
  <2>4. ASSUME NEW d \in Claims, state'[d] = "invalid"
        PROVE  ~(d \in trusted /\ Sound(d))
    <3>1. CASE d \in OnPath
      BY <1>3, <3>1 DEF OnPath
    <3>2. CASE d = c
      BY <3>2
    <3>3. CASE d # c /\ d \notin OnPath
      BY <1>1, <2>4, <3>3 DEF IInv, MemoInv
    <3> QED BY <3>1, <3>2, <3>3
  <2>5. \A d \in Claims : Sound(d)' <=> Sound(d)
    BY <1>1 DEF Sound
  <2> QED BY <1>1, <2>3, <2>4, <2>5 DEF MemoInv
<1>8. VerdictsAreRight'
  <2>1. ~Sound(root)
    BY <1>0, <1>3
  <2> QED BY <1>1, <2>1 DEF IInv, VerdictsAreRight, Sound, TypeOK
<1> QED BY <1>4, <1>6, <1>7, <1>8 DEF IInv

\* An invalid or untrusted support is unfit by what the memo says of it.
LEMMA RejectInvalidKeeps ==
    ASSUME TypeOK, IInv, NEW c \in Claims, RejectInvalid(c)
    PROVE  TypeOK' /\ IInv'
<1>1. ~(c \in trusted /\ Sound(c))
  BY DEF RejectInvalid, IInv, MemoInv
<1> QED BY <1>1, UnwindKeeps DEF RejectInvalid

\* A support that is the root, or is being visited, rests on itself.
LEMMA RejectCycleKeeps ==
    ASSUME TypeOK, IInv, NEW c \in Claims, RejectCycle(c)
    PROVE  TypeOK' /\ IInv'
<1>0. /\ Len(path) \in Nat /\ Len(path) > 0 /\ path[1] = root
      /\ c \in supports[Top] /\ Top \in Claims
  BY NoClaimAssumption DEF RejectCycle, TypeOK, Top, IInv, PathInv
<1>1. PICK k \in 1 .. Len(path) : path[k] = c
  BY <1>0 DEF RejectCycle, IInv, PathInv
<1>2. Top = c \/ Top \in Reach(supports, c)
  BY <1>0, <1>1 DEF IInv, PathInv, Top
<1>3. c \in Reach(supports, Top)
  BY <1>0, ReachSupports DEF TypeOK
<1>4. c \in Reach(supports, c)
  BY <1>2, <1>3, ReachTransitive DEF TypeOK
<1>5. ~Sound(c)
  BY <1>4 DEF Sound
<1> QED BY <1>5, UnwindKeeps DEF RejectCycle

\* A root all of whose supports are valid rests on valid claims only.
LEMMA AcceptKeeps == ASSUME TypeOK, IInv, Accept PROVE TypeOK' /\ IInv'
<1>0. /\ Len(path) = 1 /\ path[1] = root /\ root \in Claims /\ todo[root] = {}
      /\ verdict' = [verdict EXCEPT ![root] = "accepted"]
      /\ root' = NoClaim /\ path' = <<>>
      /\ UNCHANGED <<supports, trusted, state, todo>>
  BY DEF Accept, TypeOK
<1>1. TypeOK'
  BY <1>0 DEF TypeOK
<1>2. supports[root] \subseteq Valid
  BY <1>0 DEF IInv, PathInv, Valid, TypeOK
<1>3. Sound(root)
  BY <1>0, <1>2, RestsOnValid DEF IInv
<1>4. PathInv'
  BY <1>0 DEF IInv, PathInv
<1>5. MemoInv' /\ VerdictsAreRight'
  BY <1>0, <1>3 DEF IInv, MemoInv, VerdictsAreRight, Sound, TypeOK
<1> QED BY <1>1, <1>4, <1>5 DEF IInv

\* The types and the inductive invariant hold in every behaviour.
THEOREM Invariance == Spec => [](TypeOK /\ IInv)
<1>1. ASSUME TypeOK, IInv, Next PROVE TypeOK' /\ IInv'
  BY <1>1, BeginRootKeeps, SkipValidKeeps, DescendKeeps, AscendKeeps,
     RejectInvalidKeeps, RejectCycleKeeps, AcceptKeeps DEF Next
<1>2. ASSUME TypeOK, IInv, UNCHANGED vars PROVE TypeOK' /\ IInv'
  <2>1. TypeOK'
    BY <1>2 DEF vars, TypeOK
  <2>2. PathInv' /\ MemoInv' /\ VerdictsAreRight'
    BY <1>2 DEF vars, IInv, PathInv, MemoInv, VerdictsAreRight, Sound
  <2> QED BY <2>1, <2>2 DEF IInv
<1> QED BY <1>1, <1>2, InitHolds, PTL DEF Spec

\* Every verdict is right, for every set of claims, every support graph and
\* every order in which roots and supports are taken.
THEOREM VerdictTheorem == Spec => []VerdictsAreRight
<1>1. TypeOK /\ IInv => VerdictsAreRight
  BY DEF IInv
<1> QED BY <1>1, Invariance, PTL

\* What the validator remembers is true of each claim, whatever root it was
\* met under.
THEOREM MemoTheorem == Spec => []MemoIsRight
<1>1. TypeOK /\ IInv => MemoIsRight
  BY MemoFollows
<1> QED BY <1>1, Invariance, PTL

=============================================================================
