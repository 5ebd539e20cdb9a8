------------------------- MODULE TrustedStoreProofs -------------------------
(***************************************************************************)
(* Theorems about TrustedStore, for every set of processes and claims and  *)
(* every bound.                                                            *)
(***************************************************************************)
EXTENDS TrustedStore, TLAPS

USE DEF lockVars, fileVars, ctlVars, localVars

\* The first use of a workspace (no generation, no index) is well typed.
LEMMA InitTyped == Init => TypeOK
<1>1. NoSnapshot \in Snapshot /\ NoBatch \in Batch
  BY BoundsAssumption DEF NoSnapshot, NoBatch, Snapshot, Batch, Blank, Gone, Content, Statuses
<1>2. NoOp \in Ops
  BY DEF NoOp, Ops
<1> SUFFICES ASSUME Init PROVE TypeOK
  OBVIOUS
<1>3. file \in [Claims -> Content] /\ saved \in [Claims -> Content]
  BY InitAssumption DEF Init, Content, Statuses
<1>4. db \in [built : BOOLEAN, snap : Snapshot]
  BY <1>1 DEF Init
<1> QED BY <1>1, <1>2, <1>3, <1>4 DEF Init, TypeOK, Labels

\* A command that returns, or dies, leaves well-typed locals.
LEMMA ReturnTyped ==
    ASSUME TypeOK, NEW p \in Procs, Return(p)
    PROVE  /\ exHolder' \in Procs \cup {Nobody} /\ readers' \subseteq Procs
           /\ pc' \in [Procs -> Labels] /\ op' \in [Procs -> Ops]
           /\ todo' \in [Procs -> SUBSET Claims] /\ plan' \in [Procs -> Batch]
           /\ snap' \in [Procs -> Snapshot] /\ ans' \in [Procs -> SUBSET Claims]
<1>1. NoSnapshot \in Snapshot /\ NoBatch \in Batch
  BY BoundsAssumption DEF NoSnapshot, NoBatch, Snapshot, Batch, Blank, Gone, Content, Statuses
<1>2. NoOp \in Ops
  BY DEF NoOp, Ops
<1> QED BY <1>1, <1>2 DEF Return, GoTo, TypeOK, Labels

\* A command that fails before it touches a file leaves a well-typed state.
LEMMA FailTyped == ASSUME TypeOK, NEW p \in Procs, Fail(p) PROVE TypeOK'
  BY ReturnTyped DEF Fail, TypeOK

\* An atomic replacement of a claim file keeps contents and tokens typed.
LEMMA ReplaceTyped ==
    ASSUME TypeOK, NEW c, NEW content, c \in Claims => content \in Content,
           Replace(c, content)
    PROVE  /\ file' \in [Claims -> Content] /\ saved' \in [Claims -> Content]
           /\ stamp' \in [Claims -> Nat] /\ edits' \in Nat
  BY DEF Replace, TypeOK

\* Every step of a lifecycle command and of recovery keeps the types.
LEMMA MutationTyped == ASSUME TypeOK, NEW p \in Procs, Mutation(p) PROVE TypeOK'
<1>1. ASSUME NEW c, NEW kind, AcquireExclusive(p, kind, c),
             \/ kind \in {"draft", "approve", "revoke"} /\ c \in Claims
             \/ kind = "reindex" /\ c = Nobody
      PROVE  TypeOK'
  <2>1. [kind |-> kind, claim |-> c, phase |-> "recover"] \in Ops
    BY <1>1 DEF Ops
  <2> QED BY <1>1, <2>1 DEF AcquireExclusive, GoTo, TypeOK, Labels
<1>2. CASE Start(p)
  BY <1>2 DEF Start, AfterRecovery, GoTo, TypeOK, Labels
<1>3. CASE MarkDirty(p)
  BY <1>3 DEF MarkDirty, GoTo, TypeOK, Labels
<1>4. CASE GenerationExhausted(p)
  BY <1>4, FailTyped DEF GenerationExhausted
<1>5. CASE AdvanceGeneration(p)
  BY <1>5 DEF AdvanceGeneration, GoTo, TypeOK, Labels
<1>6. CASE Plan(p)
  <2>1. op[p].kind \in {"draft", "approve", "revoke"} /\ op[p].claim \in Claims
    BY <1>6 DEF Plan, Permitted, TypeOK, Ops
  <2>2. Planned(op[p].kind, op[p].claim) \in Batch
    BY <2>1, SupersedesAssumption
    DEF Planned, Batch, Content, Statuses, Blank, Gone, TypeOK
  <2> QED BY <1>6, <2>2 DEF Plan, GoTo, TypeOK, Labels, Ops
<1>7. CASE Refuse(p)
  BY <1>7, FailTyped DEF Refuse
<1>8. CASE WriteClaim(p)
  <2>1. op[p].claim \in Claims => plan[p].post[op[p].claim] \in Content
    BY DEF TypeOK, Batch
  <2> QED BY <1>8, <2>1, ReturnTyped, ReplaceTyped DEF WriteClaim, TypeOK
<1>9. CASE PublishJournal(p)
  BY <1>9 DEF PublishJournal, GoTo, TypeOK, Labels
<1>10. CASE Classify(p)
  BY <1>10 DEF Classify, GoTo, TypeOK, Labels, Batch
<1>11. CASE PreimageMismatch(p)
  BY <1>11, FailTyped DEF PreimageMismatch
<1>12. ASSUME NEW c \in Claims, ApplyTarget(p, c) PROVE TypeOK'
  <2>1. journal.post[c] \in Content
    BY DEF TypeOK, Batch
  <2> QED BY <1>12, <2>1, ReplaceTyped DEF ApplyTarget, TypeOK
<1>13. CASE RemoveJournal(p)
  <2>1. NoBatch \in Batch
    BY DEF NoBatch, Batch, Blank, Gone, Content, Statuses
  <2>2. CASE op[p].phase = "recover"
    BY <1>13, <2>1, <2>2 DEF RemoveJournal, AfterRecovery, GoTo, TypeOK, Labels
  <2>3. CASE op[p].phase # "recover"
    BY <1>13, <2>1, <2>3, ReturnTyped DEF RemoveJournal, TypeOK
  <2> QED BY <2>2, <2>3
<1>14. CASE VerifyFails(p)
  BY <1>14, FailTyped DEF VerifyFails
<1>15. ASSUME NEW c \in Claims, NEW kind \in {"draft", "approve", "revoke"},
              MarkFirst(p, kind, c)
       PROVE  TypeOK'
  <2>1. [kind |-> kind, claim |-> c, phase |-> "recover"] \in Ops
    BY DEF Ops
  <2> QED BY <1>15, <2>1 DEF MarkFirst, GoTo, TypeOK, Labels
<1> QED
  BY <1>1, <1>2, <1>3, <1>4, <1>5, <1>6, <1>7, <1>8, <1>9, <1>10, <1>11, <1>12, <1>13, <1>14,
     <1>15
  DEF Mutation

\* Reading one file of a rebuild pass keeps the types.
LEMMA PassedTyped ==
    ASSUME TypeOK, NEW p \in Procs, NEW c \in Claims, NEW next \in Labels,
           Passed(p, c, next), snap' \in [Procs -> Snapshot]
    PROVE  TypeOK'
  BY DEF Passed, GoTo, TypeOK

\* A publication that puts the dirty marker back keeps the types.
LEMMA AbandonTyped == ASSUME TypeOK, NEW p \in Procs, AbandonPublication(p) PROVE TypeOK'
  BY ReturnTyped DEF AbandonPublication, TypeOK

\* Every step of a rebuild, collection and publication, keeps the types.
LEMMA RebuildTyped == ASSUME TypeOK, NEW p \in Procs, Rebuild(p) PROVE TypeOK'
<1>1. CASE Observe(p)
  <2>1. snap' \in [Procs -> Snapshot]
    BY <1>1 DEF Observe, TypeOK, Snapshot
  <2> QED BY <1>1, <2>1 DEF Observe, GoTo, TypeOK, Labels
<1>2. ASSUME NEW c \in Claims, ReadManifest(p, c) PROVE TypeOK'
  <2>1. snap' \in [Procs -> Snapshot]
    BY <1>2 DEF ReadManifest, TypeOK, Snapshot
  <2> QED BY <1>2, <2>1, PassedTyped DEF ReadManifest, Labels
<1>3. ASSUME NEW c \in Claims, ScanClaim(p, c) PROVE TypeOK'
  <2>1. snap' \in [Procs -> Snapshot]
    BY <1>3 DEF ScanClaim, TypeOK, Snapshot
  <2> QED BY <1>3, <2>1, PassedTyped DEF ScanClaim, Labels
<1>4. ASSUME NEW c \in Claims, RecheckManifest(p, c) PROVE TypeOK'
  <2>1. snap' \in [Procs -> Snapshot]
    BY <1>4 DEF RecheckManifest, TypeOK
  <2> QED BY <1>4, <2>1, PassedTyped DEF RecheckManifest, Labels
<1>5. ASSUME NEW c \in Claims, InputsChanged(p, c) PROVE TypeOK'
  BY <1>5, FailTyped DEF InputsChanged
<1>6. ASSUME NEW c \in Claims, CaptureStamp(p, c) PROVE TypeOK'
  <2>1. snap' \in [Procs -> Snapshot]
    BY <1>6 DEF CaptureStamp, TypeOK, Snapshot
  <2> QED BY <1>6, <2>1, PassedTyped DEF CaptureStamp, Labels
<1>7. CASE AcquirePublication(p)
  BY <1>7 DEF AcquirePublication, GoTo, TypeOK, Labels
<1>8. CASE CheckPublication(p)
  BY <1>8 DEF CheckPublication, GoTo, TypeOK, Labels
<1>9. CASE StalePublication(p)
  BY <1>9, AbandonTyped DEF StalePublication
<1>10. CASE RenameDatabase(p)
  BY <1>10 DEF RenameDatabase, GoTo, TypeOK, Labels
<1>11. CASE PublishGeneration(p)
  BY <1>11 DEF PublishGeneration, GoTo, TypeOK, Labels
<1>12. CASE RemoveDirty(p)
  BY <1>12, ReturnTyped DEF RemoveDirty, TypeOK
<1> QED
  BY <1>1, <1>2, <1>3, <1>4, <1>5, <1>6, <1>7, <1>8, <1>9, <1>10, <1>11, <1>12 DEF Rebuild

\* Every step of a query and of a viewer keeps the types.
LEMMA ReaderTyped == ASSUME TypeOK, NEW p \in Procs, Ask(p) \/ View(p) PROVE TypeOK'
<1>1. CASE AcquireShared(p)
  <2>1. [NoOp EXCEPT !.kind = "ask"] \in Ops
    BY DEF NoOp, Ops
  <2> QED BY <1>1, <2>1 DEF AcquireShared, GoTo, TypeOK, Labels
<1>2. CASE CheckFresh(p)
  BY <1>2 DEF CheckFresh, GoTo, TypeOK, Labels
<1>3. CASE NotFresh(p)
  BY <1>3, FailTyped DEF NotFresh
<1>4. ASSUME NEW c \in Claims, BindClaim(p, c) PROVE TypeOK'
  BY <1>4 DEF BindClaim, TypeOK
<1>5. ASSUME NEW c \in Claims, BindingFails(p, c) PROVE TypeOK'
  BY <1>5, FailTyped DEF BindingFails
<1>6. CASE Answer(p)
  BY <1>6 DEF Answer, GoTo, TypeOK, Labels
<1>7. CASE FinishAsk(p)
  BY <1>7, FailTyped DEF FinishAsk
<1>8. CASE StartView(p)
  <2>1. [NoOp EXCEPT !.kind = "view"] \in Ops
    BY DEF NoOp, Ops
  <2> QED BY <1>8, <2>1 DEF StartView, GoTo, TypeOK, Labels
<1>9. ASSUME NEW c \in Claims, ViewClaim(p, c) PROVE TypeOK'
  BY <1>9 DEF ViewClaim, TypeOK
<1>10. CASE FinishView(p)
  BY <1>10, FailTyped DEF FinishView
<1> QED
  BY <1>1, <1>2, <1>3, <1>4, <1>5, <1>6, <1>7, <1>8, <1>9, <1>10 DEF Ask, View

\* Any edit of a claim file behind the program's back keeps the types.
LEMMA EditTyped ==
    ASSUME TypeOK, NEW c \in Claims, NEW content \in Content, Edit(c, content)
    PROVE  TypeOK'
  BY BoundsAssumption DEF Edit, TypeOK

\* Deleting, breaking, redrafting and reverting a file keep the types.
LEMMA OutsideTyped == ASSUME TypeOK, Outside PROVE TypeOK'
<1>1. PICK c \in Claims : \E content \in Rewritten(c) : Edit(c, content)
  BY DEF Outside
<1>2. Rewritten(c) \subseteq Content
  BY BoundsAssumption DEF Rewritten, Gone, Content, Statuses, TypeOK
<1> QED BY <1>1, <1>2, EditTyped

\* Every step of the system, and every stutter, keeps the types.
LEMMA NextTyped == ASSUME TypeOK, [Next]_vars PROVE TypeOK'
<1>1. ASSUME NEW p \in Procs, PublicationError(p) PROVE TypeOK'
  BY <1>1, AbandonTyped DEF PublicationError
<1>2. ASSUME NEW p \in Procs, Crash(p) PROVE TypeOK'
  BY <1>2, FailTyped DEF Crash
<1>3. CASE UNCHANGED vars
  BY <1>3 DEF vars, TypeOK
<1> QED
  BY <1>1, <1>2, <1>3, MutationTyped, RebuildTyped, ReaderTyped, OutsideTyped DEF Next

\* Type correctness: every variable keeps its type in every behaviour.
THEOREM TypeCorrect == Spec => []TypeOK
  BY InitTyped, NextTyped, PTL DEF Spec

-----------------------------------------------------------------------------
(* The inductive invariant behind FreshIndexIsCanonical and               *)
(* CleanMarkerIsEarned.                                                    *)

\* Labels at which a process holds the exclusive lock.
Exclusive == {"start", "plan", "mark", "bump", "write", "publish", "check", "apply",
              "observe", "checkpub", "rename", "pubgen", "undirty"}
\* Labels at which a process writes claim files or is about to.
Writing == {"write", "publish", "check", "apply"}
\* Labels at which a process carries the snapshot of a rebuild.
Collecting == {"manifest", "scan", "recheck", "stamps", "confirm", "lockpub",
               "checkpub", "rename", "pubgen", "undirty"}
Collected  == {"lockpub", "checkpub", "rename", "pubgen", "undirty"}
Publishing == {"rename", "pubgen", "undirty"}

LockInv == \A p \in Procs : pc[p] \in Exclusive => exHolder = p

\* No snapshot is from the future, and a writer has moved the generation past
\* every snapshot before it touches a file.
GenerationInv ==
    /\ gen.published <= gen.current /\ gen.current <= MaxGen
    /\ db.snap.gen <= gen.current
    /\ \A p \in Procs : pc[p] \in Collecting => snap[p].gen <= gen.current
    /\ \A p \in Procs : pc[p] = "bump" => gen.current < MaxGen
    /\ \A p \in Procs : pc[p] \in Writing =>
          /\ db.built => db.snap.gen < gen.current
          /\ \A q \in Procs : pc[q] \in Collecting => snap[q].gen < gen.current

\* Tokens of future edits are fresh.
StampInv ==
    \A c \in Claims :
        /\ stamp[c] <= MaxGen + edits
        /\ db.snap.stamps[c] <= MaxGen + edits
        /\ \A p \in Procs : snap[p].stamps[c] <= MaxGen + edits

\* A snapshot whose generation and token for c still hold describes c.
Describes(s, c) ==
    s.gen = gen.current /\ s.stamps[c] = stamp[c] => file[c] = s.manifest[c]

SnapshotInv ==
    /\ \A p \in Procs, c \in Claims :
          pc[p] \in Collected \/ (pc[p] = "confirm" /\ c \notin todo[p]) => Describes(snap[p], c)
    /\ db.built => \A c \in Claims : Describes(db.snap, c)

\* What the publication steps have established so far.
PublicationInv ==
    /\ db.built /\ gen.published = gen.current => db.snap.gen = gen.current
    /\ \A p \in Procs :
          /\ pc[p] \in Publishing => snap[p].gen = gen.current
          /\ pc[p] \in {"pubgen", "undirty"} => db.built /\ db.snap.gen = gen.current
          /\ pc[p] = "undirty" => gen.published = gen.current
          /\ pc[p] = "bump" => dirty
    /\ gen.published # gen.current => dirty

IInv == LockInv /\ GenerationInv /\ StampInv /\ SnapshotInv /\ PublicationInv

\* A process that gives up its lock and its locals disturbs nothing.
LEMMA ReturnKeeps ==
    ASSUME TypeOK, TypeOK', IInv, NEW p \in Procs, Return(p),
           UNCHANGED <<gen, dirty, file, stamp, edits, db>>
    PROVE  IInv'
<1>1. /\ \A q \in Procs : pc'[q] = IF q = p THEN "idle" ELSE pc[q]
      /\ \A q \in Procs : snap'[q] = IF q = p THEN NoSnapshot ELSE snap[q]
      /\ \A q \in Procs : q # p => todo'[q] = todo[q]
      /\ \A q \in Procs : q # p /\ exHolder = q => exHolder' = q
      /\ UNCHANGED <<gen, dirty, file, stamp, edits, db>>
  BY DEF Return, GoTo, TypeOK
<1>2. LockInv'
  BY <1>1 DEF IInv, LockInv, Exclusive
<1>3. GenerationInv'
  BY <1>1 DEF IInv, GenerationInv, Writing, Collecting
<1>4. StampInv'
  BY <1>1, BoundsAssumption DEF IInv, StampInv, NoSnapshot, TypeOK
<1>5. SnapshotInv'
  BY <1>1 DEF IInv, SnapshotInv, Describes, Collected
<1>6. PublicationInv'
  BY <1>1 DEF IInv, PublicationInv, Publishing
<1> QED BY <1>2, <1>3, <1>4, <1>5, <1>6 DEF IInv

\* A command that fails or dies keeps the inductive invariant.
LEMMA FailKeeps == ASSUME TypeOK, TypeOK', IInv, NEW p \in Procs, Fail(p) PROVE IInv'
  BY ReturnKeeps DEF Fail

\* In the lemmas below a step that moves one process between labels, without
\* writing a file, is a leaf: it disturbs no conjunct other than by the label.
LEMMA ReplaceKeeps ==
    ASSUME TypeOK, IInv, NEW p \in Procs, pc[p] \in Writing, NEW c, NEW content,
           Replace(c, content), UNCHANGED <<gen, db>>,
           \A q \in Procs : q # p => pc'[q] = pc[q] /\ todo'[q] = todo[q] /\ snap'[q] = snap[q],
           pc'[p] \notin Collecting,
           \A d \in Claims : snap'[p].stamps[d] <= MaxGen + edits
    PROVE  StampInv' /\ SnapshotInv'
<1>1. \A d \in Claims : stamp'[d] = stamp[d] \/ stamp'[d] = gen.current
  BY DEF Replace, TypeOK
<1>2. gen.current <= MaxGen /\ (db.built => db.snap.gen < gen.current)
  BY DEF IInv, GenerationInv
<1>3. \A q \in Procs : q # p /\ pc[q] \in Collecting => snap[q].gen < gen.current
  BY DEF IInv, GenerationInv
<1>4. StampInv'
  BY <1>1, <1>2, BoundsAssumption DEF IInv, StampInv, Replace, TypeOK
<1>5. ASSUME NEW q \in Procs, NEW d \in Claims,
             pc'[q] \in Collected \/ (pc'[q] = "confirm" /\ d \notin todo'[q])
      PROVE  Describes(snap[q], d)'
  <2>1. q # p /\ pc[q] \in Collecting
    BY <1>5 DEF Collected, Collecting
  <2>2. snap'[q].gen # gen.current /\ gen' = gen
    BY <2>1, <1>3 DEF TypeOK, Snapshot
  <2> QED BY <2>2 DEF Describes
<1>6. ASSUME db.built, NEW d \in Claims PROVE Describes(db.snap, d)'
  BY <1>2, <1>6 DEF Describes, TypeOK, Snapshot
<1> QED BY <1>4, <1>5, <1>6 DEF SnapshotInv

\* Every step of a lifecycle command and of recovery keeps the invariant:
\* the generation only moves under the lock, before the first file is written.
LEMMA MutationKeeps ==
    ASSUME TypeOK, TypeOK', IInv, NEW p \in Procs, Mutation(p) PROVE IInv'
<1> USE BoundsAssumption, NobodyAssumption
    DEF GoTo, TypeOK, IInv, LockInv, GenerationInv, StampInv, SnapshotInv, PublicationInv,
        Describes, Exclusive, Writing, Collecting, Collected, Publishing
<1>1. ASSUME NEW c, NEW kind, AcquireExclusive(p, kind, c) PROVE IInv'
  BY <1>1 DEF AcquireExclusive
<1>2. CASE Start(p)
  BY <1>2 DEF Start, AfterRecovery
<1>3. CASE MarkDirty(p)
  BY <1>3 DEF MarkDirty
<1>4. CASE GenerationExhausted(p)
  BY <1>4, FailKeeps DEF GenerationExhausted
<1>5. CASE AdvanceGeneration(p)
  <2>1. LockInv'
    BY <1>5 DEF AdvanceGeneration
  <2>2. gen'.current = gen.current + 1 /\ gen'.published = gen.published /\ dirty' = dirty
    BY <1>5 DEF AdvanceGeneration
  <2>3. \A q \in Procs : /\ pc'[q] = "bump" => q # p /\ pc[q] = "bump"
                         /\ pc'[q] \in Collecting => pc[q] \in Collecting
                         /\ q # p => pc[q] \notin Exclusive
    BY <1>5 DEF AdvanceGeneration
  <2>4. GenerationInv'
    BY <1>5, <2>2, <2>3 DEF AdvanceGeneration, Snapshot
  <2>5. StampInv'
    BY <1>5 DEF AdvanceGeneration
  <2>6. SnapshotInv'
    BY <1>5, <2>2, <2>3 DEF AdvanceGeneration, Snapshot
  <2>7. PublicationInv'
    BY <1>5, <2>2, <2>3 DEF AdvanceGeneration, Snapshot
  <2> QED BY <2>1, <2>4, <2>5, <2>6, <2>7
<1>6. CASE Plan(p)
  BY <1>6 DEF Plan
<1>7. CASE Refuse(p)
  BY <1>7, FailKeeps DEF Refuse
<1>8. CASE WriteClaim(p)
  <2>1. LockInv' /\ GenerationInv' /\ PublicationInv'
    BY <1>8 DEF WriteClaim, Replace, Return
  <2>2. StampInv' /\ SnapshotInv'
    <3>1. /\ pc[p] \in Writing /\ Replace(op[p].claim, plan[p].post[op[p].claim])
          /\ UNCHANGED <<gen, db>> /\ pc'[p] \notin Collecting
          /\ \A q \in Procs : q # p =>
                pc'[q] = pc[q] /\ todo'[q] = todo[q] /\ snap'[q] = snap[q]
      BY <1>8 DEF WriteClaim, Return
    <3>2. \A d \in Claims : snap'[p].stamps[d] <= MaxGen + edits
      BY <1>8 DEF WriteClaim, Return, NoSnapshot
    <3> QED BY ONLY <3>1, <3>2, ReplaceKeeps, TypeOK, IInv, p \in Procs
  <2> QED BY <2>1, <2>2
<1>9. CASE PublishJournal(p)
  BY <1>9 DEF PublishJournal
<1>10. CASE Classify(p)
  BY <1>10 DEF Classify
<1>11. CASE PreimageMismatch(p)
  BY <1>11, FailKeeps DEF PreimageMismatch
<1>12. ASSUME NEW c \in Claims, ApplyTarget(p, c) PROVE IInv'
  <2>1. LockInv' /\ GenerationInv' /\ PublicationInv'
    BY <1>12 DEF ApplyTarget, Replace
  <2>2. StampInv' /\ SnapshotInv'
    <3>1. /\ pc[p] \in Writing /\ Replace(c, journal.post[c])
          /\ UNCHANGED <<gen, db>> /\ pc'[p] \notin Collecting
          /\ \A q \in Procs : q # p =>
                pc'[q] = pc[q] /\ todo'[q] = todo[q] /\ snap'[q] = snap[q]
          /\ \A d \in Claims : snap'[p].stamps[d] <= MaxGen + edits
      BY <1>12 DEF ApplyTarget
    <3> QED BY ONLY <3>1, ReplaceKeeps, TypeOK, IInv, p \in Procs
  <2> QED BY <2>1, <2>2
<1>13. CASE RemoveJournal(p)
  <2>1. CASE op[p].phase = "recover"
    BY <1>13, <2>1 DEF RemoveJournal, AfterRecovery
  <2>2. CASE op[p].phase # "recover"
    BY <1>13, <2>2, ReturnKeeps DEF RemoveJournal
  <2> QED BY <2>1, <2>2
<1>14. CASE VerifyFails(p)
  BY <1>14, FailKeeps DEF VerifyFails
<1>15. ASSUME NEW c, NEW kind, MarkFirst(p, kind, c) PROVE IInv'
  BY <1>15 DEF MarkFirst
<1> QED
  BY <1>1, <1>2, <1>3, <1>4, <1>5, <1>6, <1>7, <1>8, <1>9, <1>10, <1>11, <1>12, <1>13, <1>14,
     <1>15
  DEF Mutation

\* A publication that puts the dirty marker back keeps the invariant.
LEMMA AbandonKeeps ==
    ASSUME TypeOK, TypeOK', IInv, NEW p \in Procs, AbandonPublication(p) PROVE IInv'
  BY BoundsAssumption, NobodyAssumption
  DEF AbandonPublication, Return, NoSnapshot, GoTo, TypeOK, IInv, LockInv, GenerationInv,
      StampInv, SnapshotInv, PublicationInv, Describes, Exclusive, Writing, Collecting,
      Collected, Publishing

\* Every step of a rebuild keeps the invariant: tokens are recorded before
\* the second comparison, and publication re-checks the generation.
LEMMA RebuildKeeps ==
    ASSUME TypeOK, TypeOK', IInv, NEW p \in Procs, Rebuild(p) PROVE IInv'
<1> USE BoundsAssumption, NobodyAssumption
    DEF GoTo, TypeOK, IInv, LockInv, GenerationInv, StampInv, SnapshotInv, PublicationInv,
        Describes, Exclusive, Writing, Collecting, Collected, Publishing
<1>1. CASE Observe(p)
  BY <1>1 DEF Observe
<1>2. ASSUME NEW c \in Claims, ReadManifest(p, c) PROVE IInv'
  BY <1>2 DEF ReadManifest, Passed
<1>3. ASSUME NEW c \in Claims, ScanClaim(p, c) PROVE IInv'
  BY <1>3 DEF ScanClaim, Passed
<1>4. ASSUME NEW c \in Claims, RecheckManifest(p, c) PROVE IInv'
  BY <1>4 DEF RecheckManifest, Passed
<1>5. ASSUME NEW c \in Claims, InputsChanged(p, c) PROVE IInv'
  BY <1>5, FailKeeps DEF InputsChanged
<1>6. ASSUME NEW c \in Claims, CaptureStamp(p, c) PROVE IInv'
  BY <1>6 DEF CaptureStamp, Passed
<1>7. CASE AcquirePublication(p)
  BY <1>7 DEF AcquirePublication
<1>8. CASE CheckPublication(p)
  BY <1>8 DEF CheckPublication, Publishable
<1>9. CASE StalePublication(p)
  BY <1>9, AbandonKeeps DEF StalePublication
<1>10. CASE RenameDatabase(p)
  BY <1>10 DEF RenameDatabase
<1>11. CASE PublishGeneration(p)
  BY <1>11 DEF PublishGeneration
<1>12. CASE RemoveDirty(p)
  BY <1>12 DEF RemoveDirty, Return, NoSnapshot
<1> QED
  BY <1>1, <1>2, <1>3, <1>4, <1>5, <1>6, <1>7, <1>8, <1>9, <1>10, <1>11, <1>12 DEF Rebuild

\* Queries and viewers write nothing the invariant speaks of.
LEMMA ReaderKeeps ==
    ASSUME TypeOK, TypeOK', IInv, NEW p \in Procs, Ask(p) \/ View(p) PROVE IInv'
<1> USE DEF GoTo, TypeOK, IInv, LockInv, GenerationInv, StampInv, SnapshotInv,
        PublicationInv, Describes, Exclusive, Writing, Collecting, Collected, Publishing
<1>1. CASE AcquireShared(p)
  BY <1>1 DEF AcquireShared
<1>2. CASE CheckFresh(p)
  BY <1>2 DEF CheckFresh
<1>3. CASE NotFresh(p)
  BY <1>3, FailKeeps DEF NotFresh
<1>4. ASSUME NEW c \in Claims, BindClaim(p, c) PROVE IInv'
  BY <1>4 DEF BindClaim
<1>5. ASSUME NEW c \in Claims, BindingFails(p, c) PROVE IInv'
  BY <1>5, FailKeeps DEF BindingFails
<1>6. CASE Answer(p)
  BY <1>6 DEF Answer
<1>7. CASE FinishAsk(p)
  BY <1>7, FailKeeps DEF FinishAsk
<1>8. CASE StartView(p)
  BY <1>8 DEF StartView
<1>9. ASSUME NEW c \in Claims, ViewClaim(p, c) PROVE IInv'
  BY <1>9 DEF ViewClaim
<1>10. CASE FinishView(p)
  BY <1>10, FailKeeps DEF FinishView
<1> QED
  BY <1>1, <1>2, <1>3, <1>4, <1>5, <1>6, <1>7, <1>8, <1>9, <1>10 DEF Ask, View

\* An outside edit leaves a token no snapshot has recorded.
LEMMA EditKeeps ==
    ASSUME TypeOK, TypeOK', IInv, NEW c \in Claims, NEW content, Edit(c, content)
    PROVE  IInv'
<1>1. LockInv' /\ GenerationInv' /\ PublicationInv'
  BY DEF Edit, IInv, LockInv, GenerationInv, PublicationInv
<1>2. /\ edits' = edits + 1 /\ stamp'[c] = MaxGen + edits + 1
      /\ \A d \in Claims : d # c => stamp'[d] = stamp[d] /\ file'[d] = file[d]
      /\ UNCHANGED <<gen, db, pc, todo, snap>>
  BY DEF Edit, TypeOK
<1>3. StampInv'
  <2> SUFFICES ASSUME NEW d \in Claims
               PROVE  /\ stamp'[d] <= MaxGen + edits'
                      /\ db.snap.stamps[d] <= MaxGen + edits'
                      /\ \A q \in Procs : snap[q].stamps[d] <= MaxGen + edits'
    BY <1>2 DEF StampInv
  <2>1. /\ stamp[d] \in Nat /\ db.snap.stamps[d] \in Nat /\ edits \in Nat
        /\ \A q \in Procs : snap[q].stamps[d] \in Nat
    BY DEF TypeOK, Snapshot
  <2>2. /\ stamp[d] <= MaxGen + edits /\ db.snap.stamps[d] <= MaxGen + edits
        /\ \A q \in Procs : snap[q].stamps[d] <= MaxGen + edits
    BY DEF IInv, StampInv
  <2> QED BY <1>2, <2>1, <2>2, BoundsAssumption
<1>4. db.snap.stamps[c] # stamp'[c] /\ \A q \in Procs : snap[q].stamps[c] # stamp'[c]
  BY <1>2, BoundsAssumption DEF IInv, StampInv, TypeOK, Snapshot
<1>5. SnapshotInv'
  BY <1>2, <1>4 DEF IInv, SnapshotInv, Describes
<1> QED BY <1>1, <1>3, <1>5 DEF IInv

\* A workspace without an index satisfies the invariant.
LEMMA InitInvariant == Init => IInv
  BY BoundsAssumption
  DEF Init, NoSnapshot, IInv, LockInv, GenerationInv, StampInv, SnapshotInv, PublicationInv,
      Describes, Exclusive, Writing, Collecting, Collected, Publishing

\* Every step of the system, and every stutter, keeps the invariant.
LEMMA NextKeeps == ASSUME TypeOK, TypeOK', IInv, [Next]_vars PROVE IInv'
<1>1. ASSUME NEW p \in Procs, PublicationError(p) PROVE IInv'
  BY <1>1, AbandonKeeps DEF PublicationError
<1>2. ASSUME NEW p \in Procs, Crash(p) PROVE IInv'
  BY <1>2, FailKeeps DEF Crash
<1>3. CASE Outside
  BY <1>3, EditKeeps DEF Outside
<1>4. CASE UNCHANGED vars
  BY <1>4 DEF vars, IInv, LockInv, GenerationInv, StampInv, SnapshotInv, PublicationInv, Describes
<1> QED
  BY <1>1, <1>2, <1>3, <1>4, MutationKeeps, RebuildKeeps, ReaderKeeps DEF Next

\* The types and the inductive invariant hold in every behaviour.
THEOREM Invariance == Spec => [](TypeOK /\ IInv)
<1>1. Init => TypeOK /\ IInv
  BY InitTyped, InitInvariant
<1>2. TypeOK /\ IInv /\ [Next]_vars => (TypeOK /\ IInv)'
  BY NextTyped, NextKeeps
<1> QED BY <1>1, <1>2, PTL DEF Spec

\* An index that the freshness check accepts describes the claim files as they
\* are, whatever crashed, raced or was edited.
THEOREM FreshIndexTheorem == Spec => []FreshIndexIsCanonical
<1>1. TypeOK /\ IInv => FreshIndexIsCanonical
  BY DEF FreshIndexIsCanonical, Fresh, Servable, DirectoryChanged, DigestsMatch, Listed, SameToken,
         TypeOK, IInv, SnapshotInv, PublicationInv, Describes
<1> QED BY <1>1, Invariance, PTL

\* The dirty marker is only absent when the index comes from a rebuild that saw
\* the last mutation.
THEOREM CleanMarkerTheorem == Spec => []CleanMarkerIsEarned
<1>1. IInv => CleanMarkerIsEarned
  BY DEF CleanMarkerIsEarned, IInv, PublicationInv
<1> QED BY <1>1, Invariance, PTL

-----------------------------------------------------------------------------
(* What commands know between their steps: the journal, the write plan and *)
(* the locks.  A step of p either writes what other processes read while it *)
(* holds the exclusive lock, or moves p's locals and nothing else.         *)

\* A file that was edited outside the program since its last program write.
Edited(c) == stamp[c] > MaxGen

\* p has planned a lifecycle command and has not published or written it.
Committing(p) == op[p].phase = "commit" /\ pc[p] \in {"mark", "bump", "write", "publish"}

\* Labels at which a query holds the shared lock.
Reading == {"fresh", "bind", "answered"}

\* One step of process p.
Step(p) == Mutation(p) \/ Rebuild(p) \/ Ask(p) \/ View(p) \/ PublicationError(p) \/ Crash(p)

\* The steps that change the files, the journal, the generation or the index.
DiskStep(p) ==
    \/ AdvanceGeneration(p) \/ WriteClaim(p) \/ PublishJournal(p)
    \/ (\E c \in Claims : ApplyTarget(p, c)) \/ RemoveJournal(p) \/ RenameDatabase(p)

diskVars == <<gen.current, journal, file, stamp, edits, db>>

\* Readers exclude writers, and a query keeps its shared lock to its end.
SharedInv ==
    /\ exHolder = Nobody \/ readers = {}
    /\ \A p \in Procs : pc[p] \in Reading => p \in readers

\* What the label of a process says about its command and about the journal.
PhaseOf(p) ==
    /\ pc[p] \in {"start", "plan"} => op[p].phase = "recover"
    /\ pc[p] \in {"mark", "bump"} => op[p].phase \in {"recover", "commit"}
    /\ pc[p] \in {"write", "publish"} => op[p].phase = "commit"
    /\ pc[p] \in {"plan", "observe"} \/ Committing(p) => ~Pending
    /\ pc[p] = "apply" => todo[p] \subseteq journal.targets
    /\ pc[p] = "write" => plan[p].targets = {op[p].claim}
    /\ pc[p] = "publish" => plan[p].targets # {op[p].claim}
    /\ pc[p] \in {"idle", "marked", "fresh"} => ans[p] = {}

NewStatus(kind) ==
    CASE kind = "draft" -> "draft" [] kind = "approve" -> "approved" [] OTHER -> "revoked"

\* A write plan is what its command computed, its preimages are still on disk
\* unless somebody edited a file, and then the command may still run.
PlanOf(p) ==
    Committing(p) =>
        LET c == op[p].claim
        IN  /\ op[p].kind \in {"draft", "approve", "revoke"} /\ c \in Claims
            /\ plan[p].targets =
                 IF op[p].kind = "approve" THEN {c} \cup Supersedes[c] ELSE {c}
            /\ \A d \in plan[p].targets :
                  /\ plan[p].post[d].st = IF d = c THEN NewStatus(op[p].kind) ELSE "superseded"
                  /\ plan[p].pre[d] = file[d] \/ Edited(d)
            /\ edits = 0 => Permitted(op[p].kind, c)

\* Every target of the journal holds its preimage or its target bytes, or was
\* edited outside the program.
JournalInv == \A c \in journal.targets : Explained(c) \/ Edited(c)

CommandInv ==
    /\ SharedInv /\ JournalInv /\ edits <= MaxEdits
    /\ \A p \in Procs : PhaseOf(p) /\ PlanOf(p)

\* A process that returns forgets its own locals only.
LEMMA ReturnFrame ==
    ASSUME TypeOK, NEW p \in Procs, Return(p), NEW q \in Procs, q # p
    PROVE  /\ pc'[q] = pc[q] /\ op'[q] = op[q] /\ todo'[q] = todo[q]
           /\ plan'[q] = plan[q] /\ snap'[q] = snap[q] /\ ans'[q] = ans[q]
  BY DEF Return, GoTo, TypeOK

\* A step of one process leaves the locals of the others as they are.
LEMMA StepFrame ==
    ASSUME TypeOK, NEW p \in Procs, Step(p), NEW q \in Procs, q # p
    PROVE  /\ pc'[q] = pc[q] /\ op'[q] = op[q] /\ todo'[q] = todo[q]
           /\ plan'[q] = plan[q] /\ snap'[q] = snap[q] /\ ans'[q] = ans[q]
<1> USE ReturnFrame DEF GoTo, TypeOK
<1> DEFINE Same == /\ pc'[q] = pc[q] /\ op'[q] = op[q] /\ todo'[q] = todo[q]
                   /\ plan'[q] = plan[q] /\ snap'[q] = snap[q] /\ ans'[q] = ans[q]
<1>1. CASE Mutation(p)
  <2>1. ASSUME NEW c, NEW kind, MarkFirst(p, kind, c) \/ AcquireExclusive(p, kind, c)
        PROVE  Same
    BY <2>1 DEF MarkFirst, AcquireExclusive
  <2>2. CASE Start(p) \/ MarkDirty(p) \/ GenerationExhausted(p) \/ AdvanceGeneration(p)
    BY <2>2 DEF Start, MarkDirty, GenerationExhausted, AdvanceGeneration, Fail
  <2>3. CASE Plan(p) \/ Refuse(p) \/ WriteClaim(p) \/ PublishJournal(p)
    BY <2>3 DEF Plan, Refuse, WriteClaim, PublishJournal, Fail
  <2>4. CASE Classify(p) \/ PreimageMismatch(p) \/ VerifyFails(p)
    BY <2>4 DEF Classify, PreimageMismatch, VerifyFails, Fail
  <2>5. ASSUME NEW c \in Claims, ApplyTarget(p, c) PROVE Same
    BY <2>5 DEF ApplyTarget
  <2>6. CASE RemoveJournal(p)
    BY <2>6 DEF RemoveJournal
  <2> QED BY <1>1, <2>1, <2>2, <2>3, <2>4, <2>5, <2>6 DEF Mutation
<1>2. CASE Rebuild(p)
  <2>1. ASSUME NEW c \in Claims,
               \/ ReadManifest(p, c) \/ ScanClaim(p, c) \/ RecheckManifest(p, c)
               \/ InputsChanged(p, c) \/ CaptureStamp(p, c)
        PROVE  Same
    BY <2>1 DEF ReadManifest, ScanClaim, RecheckManifest, InputsChanged, CaptureStamp, Passed, Fail
  <2>2. CASE Observe(p) \/ AcquirePublication(p) \/ CheckPublication(p) \/ StalePublication(p)
    BY <2>2 DEF Observe, AcquirePublication, CheckPublication, StalePublication,
                AbandonPublication
  <2>3. CASE RenameDatabase(p) \/ PublishGeneration(p) \/ RemoveDirty(p)
    BY <2>3 DEF RenameDatabase, PublishGeneration, RemoveDirty
  <2> QED BY <1>2, <2>1, <2>2, <2>3 DEF Rebuild
<1>3. CASE Ask(p)
  <2>1. ASSUME NEW c \in Claims, BindClaim(p, c) \/ BindingFails(p, c) PROVE Same
    BY <2>1 DEF BindClaim, BindingFails, Fail
  <2>2. CASE AcquireShared(p) \/ CheckFresh(p) \/ NotFresh(p) \/ Answer(p) \/ FinishAsk(p)
    BY <2>2 DEF AcquireShared, CheckFresh, NotFresh, Answer, FinishAsk, Fail
  <2> QED BY <1>3, <2>1, <2>2 DEF Ask
<1>4. CASE View(p)
  BY <1>4 DEF View, StartView, ViewClaim, FinishView, Fail
<1>5. CASE PublicationError(p) \/ Crash(p)
  BY <1>5 DEF PublicationError, AbandonPublication, Crash, Fail
<1> QED BY <1>1, <1>2, <1>3, <1>4, <1>5 DEF Step

\* Every other step leaves what the processes share as it is.
LEMMA QuietStep ==
    ASSUME TypeOK, NEW p \in Procs, Step(p), ~DiskStep(p)
    PROVE  UNCHANGED diskVars
<1> USE DEF DiskStep, diskVars, TypeOK, Fail
<1>1. CASE Mutation(p)
  <2>1. ASSUME NEW c, NEW kind, MarkFirst(p, kind, c) \/ AcquireExclusive(p, kind, c)
        PROVE  UNCHANGED diskVars
    BY <2>1 DEF MarkFirst, AcquireExclusive
  <2>2. CASE Start(p) \/ MarkDirty(p) \/ GenerationExhausted(p)
    BY <2>2 DEF Start, MarkDirty, GenerationExhausted
  <2>3. CASE Plan(p) \/ Refuse(p)
    BY <2>3 DEF Plan, Refuse
  <2>4. CASE Classify(p) \/ PreimageMismatch(p) \/ VerifyFails(p)
    BY <2>4 DEF Classify, PreimageMismatch, VerifyFails
  <2> QED BY <1>1, <2>1, <2>2, <2>3, <2>4 DEF Mutation
<1>2. CASE Rebuild(p)
  <2>1. ASSUME NEW c \in Claims,
               \/ ReadManifest(p, c) \/ ScanClaim(p, c) \/ RecheckManifest(p, c)
               \/ InputsChanged(p, c) \/ CaptureStamp(p, c)
        PROVE  UNCHANGED diskVars
    BY <2>1 DEF ReadManifest, ScanClaim, RecheckManifest, InputsChanged, CaptureStamp, Passed
  <2>2. CASE Observe(p) \/ AcquirePublication(p) \/ CheckPublication(p) \/ StalePublication(p)
    BY <2>2 DEF Observe, AcquirePublication, CheckPublication, StalePublication,
                AbandonPublication
  <2>3. CASE PublishGeneration(p) \/ RemoveDirty(p)
    BY <2>3 DEF PublishGeneration, RemoveDirty
  <2> QED BY <1>2, <2>1, <2>2, <2>3 DEF Rebuild
<1>3. CASE Ask(p)
  BY <1>3 DEF Ask, AcquireShared, CheckFresh, NotFresh, BindClaim, BindingFails, Answer, FinishAsk
<1>4. CASE View(p)
  BY <1>4 DEF View, StartView, ViewClaim, FinishView
<1>5. CASE PublicationError(p) \/ Crash(p)
  BY <1>5 DEF PublicationError, AbandonPublication, Crash
<1> QED BY <1>1, <1>2, <1>3, <1>4, <1>5 DEF Step

\* While one process holds the exclusive lock no other holds it, and none reads.
LEMMA Alone ==
    ASSUME TypeOK, LockInv, SharedInv, NEW p \in Procs, pc[p] \in Exclusive,
           NEW q \in Procs, q # p
    PROVE  pc[q] \notin Exclusive /\ pc[q] \notin Reading
  BY NobodyAssumption DEF LockInv, SharedInv

\* A step that writes holds the exclusive lock.
LEMMA DiskStepHolds ==
    ASSUME NEW p \in Procs, DiskStep(p) PROVE pc[p] \in Exclusive
  BY DEF DiskStep, AdvanceGeneration, WriteClaim, PublishJournal, ApplyTarget, RemoveJournal,
         RenameDatabase, Exclusive

\* Locks change hands only when they are free, and a query that returns
\* drops its own.
LEMMA SharedKeeps ==
    ASSUME TypeOK, SharedInv, [Next]_vars PROVE SharedInv'
<1> USE DEF SharedInv, Reading, GoTo, TypeOK, Fail, Return
<1>1. ASSUME NEW p \in Procs, Mutation(p) PROVE SharedInv'
  <2>1. ASSUME NEW c, NEW kind, MarkFirst(p, kind, c) \/ AcquireExclusive(p, kind, c)
        PROVE  SharedInv'
    BY <2>1 DEF MarkFirst, AcquireExclusive
  <2>2. CASE Start(p) \/ MarkDirty(p) \/ GenerationExhausted(p) \/ AdvanceGeneration(p)
    BY <2>2 DEF Start, MarkDirty, GenerationExhausted, AdvanceGeneration, AfterRecovery
  <2>3. CASE Plan(p) \/ Refuse(p) \/ WriteClaim(p) \/ PublishJournal(p)
    BY <2>3 DEF Plan, Refuse, WriteClaim, PublishJournal
  <2>4. CASE Classify(p) \/ PreimageMismatch(p) \/ VerifyFails(p)
    BY <2>4 DEF Classify, PreimageMismatch, VerifyFails
  <2>5. ASSUME NEW c \in Claims, ApplyTarget(p, c) PROVE SharedInv'
    BY <2>5 DEF ApplyTarget
  <2>6. CASE RemoveJournal(p)
    BY <2>6 DEF RemoveJournal, AfterRecovery
  <2> QED BY <1>1, <2>1, <2>2, <2>3, <2>4, <2>5, <2>6 DEF Mutation
<1>2. ASSUME NEW p \in Procs, Rebuild(p) PROVE SharedInv'
  <2>1. ASSUME NEW c \in Claims,
               \/ ReadManifest(p, c) \/ ScanClaim(p, c) \/ RecheckManifest(p, c)
               \/ InputsChanged(p, c) \/ CaptureStamp(p, c)
        PROVE  SharedInv'
    BY <2>1 DEF ReadManifest, ScanClaim, RecheckManifest, InputsChanged, CaptureStamp, Passed
  <2>2. CASE Observe(p) \/ AcquirePublication(p) \/ CheckPublication(p) \/ StalePublication(p)
    BY <2>2 DEF Observe, AcquirePublication, CheckPublication, StalePublication,
                AbandonPublication
  <2>3. CASE RenameDatabase(p) \/ PublishGeneration(p) \/ RemoveDirty(p)
    BY <2>3 DEF RenameDatabase, PublishGeneration, RemoveDirty
  <2> QED BY <1>2, <2>1, <2>2, <2>3 DEF Rebuild
<1>3. ASSUME NEW p \in Procs, Ask(p) \/ View(p) PROVE SharedInv'
  BY <1>3 DEF Ask, AcquireShared, CheckFresh, NotFresh, BindClaim, BindingFails, Answer, FinishAsk,
              View, StartView, ViewClaim, FinishView
<1>4. ASSUME NEW p \in Procs, PublicationError(p) \/ Crash(p) PROVE SharedInv'
  BY <1>4 DEF PublicationError, AbandonPublication, Crash
<1>5. CASE Outside \/ UNCHANGED vars
  BY <1>5 DEF Outside, Edit, vars
<1> QED BY <1>1, <1>2, <1>3, <1>4, <1>5 DEF Next

\* A step of p disturbs no command of another process.
LEMMA OthersKeep ==
    ASSUME TypeOK, LockInv, CommandInv, NEW p \in Procs, Step(p), NEW q \in Procs, q # p
    PROVE  (PhaseOf(q) /\ PlanOf(q))'
<1>1. /\ pc'[q] = pc[q] /\ op'[q] = op[q] /\ todo'[q] = todo[q]
      /\ plan'[q] = plan[q] /\ snap'[q] = snap[q] /\ ans'[q] = ans[q]
  BY StepFrame
<1>2. PhaseOf(q) /\ PlanOf(q)
  BY DEF CommandInv
<1>3. CASE DiskStep(p)
  <2>1. pc[q] \notin Exclusive
    BY <1>3, DiskStepHolds, Alone DEF CommandInv
  <2> QED BY <1>1, <1>2, <2>1 DEF PhaseOf, PlanOf, Committing, Exclusive
<1>4. CASE ~DiskStep(p)
  <2>1. UNCHANGED <<journal, file, stamp, edits>>
    BY <1>4, QuietStep DEF diskVars
  <2>2. PhaseOf(q)'
    BY <1>1, <1>2, <2>1 DEF PhaseOf, Committing, Pending
  <2>3. PlanOf(q)'
    BY <1>1, <1>2, <2>1 DEF PlanOf, Committing, Edited, Permitted, Grounded
  <2> QED BY <2>2, <2>3
<1> QED BY <1>3, <1>4

\* A process that returns owes nothing.
LEMMA ReturnOwes ==
    ASSUME TypeOK, NEW p \in Procs, Return(p) PROVE (PhaseOf(p) /\ PlanOf(p))'
  BY DEF Return, GoTo, TypeOK, PhaseOf, PlanOf, Committing, NoOp

\* A lifecycle command keeps its own account, from its start to its end.
LEMMA MutationAccount ==
    ASSUME TypeOK, CommandInv, NEW p \in Procs, Mutation(p)
    PROVE  (PhaseOf(p) /\ PlanOf(p))'
<1> USE ReturnOwes DEF GoTo, TypeOK, PhaseOf, Committing, Fail
<1>0. PhaseOf(p) /\ PlanOf(p)
  BY DEF CommandInv
<1>1. ASSUME NEW c, NEW kind, MarkFirst(p, kind, c) \/ AcquireExclusive(p, kind, c)
      PROVE  (PhaseOf(p) /\ PlanOf(p))'
  BY <1>0, <1>1 DEF MarkFirst, AcquireExclusive, PlanOf
<1>2. CASE Start(p)
  BY <1>0, <1>2 DEF Start, AfterRecovery, Pending, PlanOf
<1>3. CASE MarkDirty(p)
  <2>1. /\ pc[p] = "mark" /\ pc'[p] = "bump" /\ op'[p] = op[p] /\ plan'[p] = plan[p]
        /\ UNCHANGED <<journal, file, stamp, edits>>
    BY <1>3 DEF MarkDirty
  <2>2. PlanOf(p)'
    BY <1>0, <2>1 DEF PlanOf, Edited, Permitted, Grounded
  <2> QED BY <1>0, <2>1, <2>2 DEF Pending
<1>4. CASE AdvanceGeneration(p)
  <2>1. /\ pc[p] = "bump" /\ op'[p] = op[p] /\ plan'[p] = plan[p]
        /\ pc'[p] = IF op[p].phase = "recover" THEN "check"
                    ELSE IF plan[p].targets = {op[p].claim} THEN "write" ELSE "publish"
        /\ UNCHANGED <<journal, file, stamp, edits>>
    BY <1>4 DEF AdvanceGeneration
  <2>2. PlanOf(p)'
    BY <1>0, <2>1 DEF PlanOf, Edited, Permitted, Grounded
  <2> QED BY <1>0, <2>1, <2>2 DEF Pending
<1>5. CASE Plan(p)
  <2> DEFINE k == op[p].kind
             c == op[p].claim
  <2>1. /\ pc[p] = "plan" /\ pc'[p] = "mark" /\ ~Pending
        /\ op'[p].kind = k /\ op'[p].claim = c /\ op'[p].phase = "commit"
        /\ plan'[p] = Planned(k, c) /\ Permitted(k, c)
        /\ UNCHANGED <<journal, file, stamp, edits>>
    BY <1>0, <1>5 DEF Plan, Ops
  <2>2. k \in {"draft", "approve", "revoke"} /\ c \in Claims
    BY <2>1 DEF Permitted, Ops
  <2>3. /\ Planned(k, c).targets = IF k = "approve" THEN {c} \cup Supersedes[c] ELSE {c}
        /\ \A d \in Planned(k, c).targets :
              /\ Planned(k, c).post[d].st = IF d = c THEN NewStatus(k) ELSE "superseded"
              /\ Planned(k, c).pre[d] = file[d]
    BY <2>2, SupersedesAssumption DEF Planned, NewStatus
  <2>4. PlanOf(p)'
    BY <2>1, <2>2, <2>3 DEF PlanOf, Permitted, Grounded
  <2> QED BY <2>1, <2>4 DEF Pending
<1>6. CASE GenerationExhausted(p) \/ Refuse(p) \/ WriteClaim(p)
  BY <1>6 DEF GenerationExhausted, Refuse, WriteClaim
<1>7. CASE PublishJournal(p)
  BY <1>7 DEF PublishJournal, PlanOf
<1>8. CASE Classify(p)
  BY <1>8 DEF Classify, PlanOf
<1>9. CASE PreimageMismatch(p) \/ VerifyFails(p)
  BY <1>9 DEF PreimageMismatch, VerifyFails
<1>10. ASSUME NEW c \in Claims, ApplyTarget(p, c) PROVE (PhaseOf(p) /\ PlanOf(p))'
  BY <1>0, <1>10 DEF ApplyTarget, PlanOf
<1>11. CASE RemoveJournal(p)
  <2>1. CASE op[p].phase = "recover"
    BY <1>11, <2>1 DEF RemoveJournal, AfterRecovery, Pending, NoBatch, PlanOf
  <2> QED BY <1>11, <2>1 DEF RemoveJournal
<1> QED
  BY <1>1, <1>2, <1>3, <1>4, <1>5, <1>6, <1>7, <1>8, <1>9, <1>10, <1>11 DEF Mutation

\* Rebuilds, queries and viewers plan nothing.
LEMMA OtherAccount ==
    ASSUME TypeOK, CommandInv, NEW p \in Procs,
           Rebuild(p) \/ Ask(p) \/ View(p) \/ PublicationError(p) \/ Crash(p)
    PROVE  (PhaseOf(p) /\ PlanOf(p))'
<1> DEFINE Elsewhere == /\ pc'[p] \in Collecting \cup Reading \cup {"view"}
                        /\ pc'[p] = "fresh" => ans'[p] = {}
<1> SUFFICES Return(p) \/ Elsewhere
  BY ReturnOwes DEF PhaseOf, PlanOf, Committing, Collecting, Reading
<1> USE DEF GoTo, TypeOK, Fail, Collecting, Reading
<1>1. CASE Rebuild(p)
  <2>1. ASSUME NEW c \in Claims,
               \/ ReadManifest(p, c) \/ ScanClaim(p, c) \/ RecheckManifest(p, c)
               \/ InputsChanged(p, c) \/ CaptureStamp(p, c)
        PROVE  Return(p) \/ Elsewhere
    BY <2>1 DEF ReadManifest, ScanClaim, RecheckManifest, InputsChanged, CaptureStamp, Passed
  <2>2. CASE Observe(p) \/ AcquirePublication(p) \/ CheckPublication(p) \/ StalePublication(p)
    BY <2>2 DEF Observe, AcquirePublication, CheckPublication, StalePublication,
                AbandonPublication
  <2>3. CASE RenameDatabase(p) \/ PublishGeneration(p) \/ RemoveDirty(p)
    BY <2>3 DEF RenameDatabase, PublishGeneration, RemoveDirty
  <2> QED BY <1>1, <2>1, <2>2, <2>3 DEF Rebuild
<1>2. CASE Ask(p)
  <2>1. CASE AcquireShared(p)
    BY <2>1 DEF AcquireShared, CommandInv, PhaseOf
  <2> QED BY <1>2, <2>1 DEF Ask, CheckFresh, NotFresh, BindClaim, BindingFails, Answer, FinishAsk
<1>3. CASE View(p)
  BY <1>3 DEF View, StartView, ViewClaim, FinishView
<1>4. CASE PublicationError(p) \/ Crash(p)
  BY <1>4 DEF PublicationError, AbandonPublication, Crash
<1> QED BY <1>1, <1>2, <1>3, <1>4

\* A published journal starts out with its preimages on disk, and each program
\* write moves one target to its target bytes.
LEMMA JournalKeeps ==
    ASSUME TypeOK, CommandInv, NEW p \in Procs, Step(p) PROVE JournalInv'
<1> USE DEF TypeOK, JournalInv
<1>0. JournalInv /\ PhaseOf(p) /\ PlanOf(p)
  BY DEF CommandInv
<1>1. CASE ~DiskStep(p)
  BY <1>0, <1>1, QuietStep DEF diskVars, Explained, Edited
<1>2. CASE AdvanceGeneration(p) \/ RenameDatabase(p)
  BY <1>0, <1>2 DEF AdvanceGeneration, RenameDatabase, Explained, Edited
<1>3. CASE WriteClaim(p)
  <2>1. journal'.targets = {}
    BY <1>0, <1>3 DEF WriteClaim, PhaseOf, Committing, Pending
  <2> QED BY <2>1
<1>4. CASE PublishJournal(p)
  <2>1. journal' = plan[p] /\ UNCHANGED <<file, stamp>>
    BY <1>4 DEF PublishJournal
  <2>2. \A d \in plan[p].targets : plan[p].pre[d] = file[d] \/ Edited(d)
    BY <1>0, <1>4 DEF PublishJournal, PhaseOf, PlanOf, Committing
  <2> QED BY <2>1, <2>2 DEF Explained, Edited
<1>5. ASSUME NEW c \in Claims, ApplyTarget(p, c) PROVE JournalInv'
  <2>1. /\ journal' = journal /\ file'[c] = journal.post[c]
        /\ \A d \in Claims : d # c => file'[d] = file[d] /\ stamp'[d] = stamp[d]
    BY <1>5 DEF ApplyTarget, Replace
  <2>2. journal.targets \subseteq Claims
    BY DEF Batch
  <2> QED BY <1>0, <2>1, <2>2 DEF Explained, Edited
<1>6. CASE RemoveJournal(p)
  BY <1>6 DEF RemoveJournal, NoBatch
<1> QED BY <1>1, <1>2, <1>3, <1>4, <1>5, <1>6 DEF DiskStep

\* An outside edit is remembered by its token.
LEMMA EditAccount ==
    ASSUME TypeOK, CommandInv, NEW c \in Claims, NEW content, Edit(c, content)
    PROVE  JournalInv' /\ \A p \in Procs : (PhaseOf(p) /\ PlanOf(p))'
<1>1. /\ UNCHANGED <<gen, journal, pc, op, plan, todo, ans>> /\ edits' = edits + 1
      /\ stamp'[c] = MaxGen + edits + 1
      /\ \A d \in Claims : d # c => file'[d] = file[d] /\ stamp'[d] = stamp[d]
  BY DEF Edit, TypeOK
<1>2. edits' # 0 /\ Edited(c)'
  BY <1>1, BoundsAssumption DEF TypeOK, Edited
<1>3. journal.targets \subseteq Claims /\ \A p \in Procs : plan[p].targets \subseteq Claims
  BY DEF TypeOK, Batch
<1>4. JournalInv'
  BY <1>1, <1>2, <1>3 DEF CommandInv, JournalInv, Explained, Edited
<1>5. ASSUME NEW p \in Procs PROVE (PhaseOf(p) /\ PlanOf(p))'
  <2>1. PhaseOf(p) /\ PlanOf(p)
    BY DEF CommandInv
  <2>2. PhaseOf(p)'
    BY <1>1, <2>1 DEF PhaseOf, Committing, Pending
  <2>3. PlanOf(p)'
    BY <1>1, <1>2, <1>3, <2>1 DEF PlanOf, Committing, Edited
  <2> QED BY <2>2, <2>3
<1> QED BY <1>4, <1>5

LEMMA EditsKeep == ASSUME TypeOK, CommandInv, [Next]_vars PROVE edits' <= MaxEdits
<1>1. ASSUME NEW p \in Procs, Step(p) PROVE edits' = edits
  <2>1. CASE ~DiskStep(p)
    BY <1>1, <2>1, QuietStep DEF diskVars
  <2>2. CASE DiskStep(p)
    BY <2>2 DEF DiskStep, AdvanceGeneration, WriteClaim, PublishJournal, ApplyTarget, RemoveJournal,
                RenameDatabase, Replace
  <2> QED BY <2>1, <2>2
<1>2. CASE Outside
  BY <1>2, BoundsAssumption DEF Outside, Edit, TypeOK
<1> QED BY <1>1, <1>2 DEF Next, Step, vars, CommandInv

LEMMA CommandInit == Init => CommandInv
  BY BoundsAssumption
  DEF Init, CommandInv, SharedInv, JournalInv, PhaseOf, PlanOf, Committing, Reading, NoBatch,
      Pending, NoOp

LEMMA CommandKeeps == ASSUME TypeOK, LockInv, CommandInv, [Next]_vars PROVE CommandInv'
<1>1. SharedInv' /\ edits' <= MaxEdits
  BY SharedKeeps, EditsKeep DEF CommandInv
<1>2. ASSUME NEW p \in Procs, Step(p) PROVE CommandInv'
  <2>1. \A q \in Procs : (PhaseOf(q) /\ PlanOf(q))'
    BY <1>2, OthersKeep, MutationAccount, OtherAccount DEF Step
  <2> QED BY <1>1, <1>2, <2>1, JournalKeeps DEF CommandInv
<1>3. CASE Outside
  BY <1>1, <1>3, EditAccount DEF Outside, CommandInv
<1>4. CASE UNCHANGED vars
  <2>1. JournalInv' /\ \A p \in Procs : PhaseOf(p)'
    BY <1>4 DEF vars, CommandInv, JournalInv, PhaseOf, Committing, Explained, Edited, Pending
  <2>2. ASSUME NEW p \in Procs PROVE PlanOf(p)'
    <3>1. PlanOf(p) /\ UNCHANGED <<pc, op, plan, file, stamp, edits>>
      BY <1>4 DEF vars, CommandInv
    <3> QED BY <3>1 DEF PlanOf, Committing, Edited, Permitted, Grounded
  <2> QED BY <1>1, <2>1, <2>2 DEF CommandInv
<1> QED BY <1>2, <1>3, <1>4 DEF Next, Step

\* The account of every command holds in every behaviour.
THEOREM CommandTheorem == Spec => [](TypeOK /\ IInv /\ CommandInv)
<1>1. TypeOK /\ IInv /\ CommandInv /\ [Next]_vars => CommandInv'
  BY CommandKeeps DEF IInv
<1> QED BY <1>1, CommandInit, Invariance, PTL DEF Spec

\* A supersession journal can always be finished unless a target was edited
\* outside the program.
THEOREM JournalInvTheorem == Spec => []JournalInv
  BY CommandTheorem, PTL DEF CommandInv

\* In a workspace that only the program writes, every journal can be finished.
THEOREM JournalTheorem == ASSUME MaxEdits = 0 PROVE Spec => []JournalRecoverable
<1>1. TypeOK /\ IInv /\ CommandInv => JournalRecoverable
  <2> SUFFICES ASSUME TypeOK, IInv, CommandInv PROVE JournalRecoverable
    OBVIOUS
  <2>1. \A c \in Claims : ~Edited(c)
    BY BoundsAssumption DEF TypeOK, IInv, StampInv, CommandInv, Edited
  <2> QED BY <2>1 DEF TypeOK, Batch, CommandInv, JournalInv, JournalRecoverable
<1> QED BY <1>1, CommandTheorem, PTL

-----------------------------------------------------------------------------
(* What a rebuild has read so far, and what a query holds.                 *)

\* Outside edits never put earlier bytes back, or have not happened.
Steady == ~Reverts \/ edits = 0

\* p has read the digest of c; it has scanned c; it has compared c's digest again.
HasManifest(p, c) ==
    \/ pc[p] \in {"scan", "recheck", "stamps", "confirm", "lockpub", "checkpub", "rename"}
    \/ pc[p] = "manifest" /\ c \notin todo[p]
HasRow(p, c) ==
    \/ pc[p] \in {"recheck", "stamps", "confirm", "lockpub", "checkpub", "rename"}
    \/ pc[p] = "scan" /\ c \notin todo[p]
Compared(p, c) ==
    \/ pc[p] \in {"stamps", "confirm", "lockpub", "checkpub", "rename"}
    \/ pc[p] = "recheck" /\ c \notin todo[p]

\* While the generation stands, an approved file that a pass has read is either
\* still there or not approved any more, and only a lifecycle command, which
\* moves the generation, can approve it again.
ScanOf(p, c) ==
    snap[p].gen = gen.current /\ snap[p].manifest[c].st = "approved" =>
        /\ HasManifest(p, c) => file[c] = snap[p].manifest[c] \/ file[c].st # "approved"
        /\ HasRow(p, c) => snap[p].rows[c] = snap[p].manifest[c] \/ file[c].st # "approved"
        /\ Compared(p, c) => snap[p].rows[c] = snap[p].manifest[c]

\* No approved claim of the manifest is missing from the published index.
Faithful(c) == db.snap.manifest[c].st = "approved" => db.snap.rows[c] = db.snap.manifest[c]

ScanInv ==
    Steady => /\ \A p \in Procs, c \in Claims : ScanOf(p, c)
              /\ db.built => \A c \in Claims : Faithful(c)

\* c's file is as the index recorded it.
Trusted(c) == SameToken(c) \/ edits = 0

\* What a query relies on once the index passed the freshness check.
ReadOf(p) ==
    pc[p] \in {"bind", "answered"} =>
        /\ ~Pending /\ db.built /\ gen.current = db.snap.gen
        /\ ans[p] \cup todo[p] = {c \in Claims : db.snap.rows[c].st = "approved"}
        /\ pc[p] = "answered" => todo[p] = {}
        /\ \A c \in Claims : Trusted(c) => file[c] = db.snap.manifest[c]
        /\ \A c \in ans[p] :
              /\ Trusted(c) => file[c] = db.snap.rows[c]
              /\ \A d \in Supports[c] : Trusted(d) => file[d].st = "approved"

ReadInv == \A p \in Procs : ReadOf(p)

\* Another process can only help a rebuild forget what it has read.
LEMMA OthersScan ==
    ASSUME TypeOK, IInv, CommandInv, NEW p \in Procs, Step(p), NEW q \in Procs, q # p,
           NEW c \in Claims, ScanOf(q, c)
    PROVE  ScanOf(q, c)'
<1>1. pc'[q] = pc[q] /\ todo'[q] = todo[q] /\ snap'[q] = snap[q]
  BY StepFrame
<1> USE DEF HasManifest, HasRow, Compared
<1>2. CASE UNCHANGED <<gen.current, file>>
  BY <1>1, <1>2 DEF ScanOf
<1>3. CASE AdvanceGeneration(p)
  <2>1. gen'.current = gen.current + 1
    BY <1>3 DEF AdvanceGeneration, TypeOK
  <2>2. pc[q] \in Collecting => snap[q].gen # gen'.current
    BY <2>1 DEF IInv, GenerationInv, TypeOK, Snapshot
  <2> QED BY <1>1, <2>2 DEF ScanOf, Collecting
<1>4. CASE WriteClaim(p) \/ \E d \in Claims : ApplyTarget(p, d)
  <2>1. pc[p] \in Writing /\ gen' = gen
    BY <1>4 DEF WriteClaim, ApplyTarget, Writing
  <2>2. pc[q] \in Collecting => snap[q].gen # gen'.current
    BY <2>1 DEF IInv, GenerationInv, TypeOK, Snapshot
  <2> QED BY <1>1, <2>2 DEF ScanOf, Collecting
<1>5. CASE PublishJournal(p) \/ RemoveJournal(p) \/ RenameDatabase(p)
  BY <1>2, <1>5 DEF PublishJournal, RemoveJournal, RenameDatabase
<1> QED BY <1>2, <1>3, <1>4, <1>5, QuietStep DEF DiskStep, diskVars

\* The passes of a rebuild: digest, scan, digest again, tokens, digest again.
LEMMA RebuildScan ==
    ASSUME TypeOK, NEW p \in Procs, Step(p), NEW c \in Claims, ScanOf(p, c)
    PROVE  ScanOf(p, c)'
<1> USE DEF HasManifest, HasRow, Compared
<1>1. CASE pc'[p] \notin Collecting \/ pc'[p] \in {"pubgen", "undirty"}
  BY <1>1 DEF ScanOf, Collecting
<1> SUFFICES ASSUME pc'[p] \in Collecting, pc'[p] \notin {"pubgen", "undirty"}
             PROVE  ScanOf(p, c)'
  BY <1>1
<1>2. CASE ~Rebuild(p)
  BY <1>2 DEF Step, Mutation, MarkFirst, AcquireExclusive, Start, AfterRecovery, MarkDirty,
              GenerationExhausted, AdvanceGeneration, Plan, Refuse, WriteClaim, PublishJournal,
              Classify, PreimageMismatch, VerifyFails, ApplyTarget, RemoveJournal, Ask, View,
              PublicationError, AbandonPublication, Crash, Fail, Return, GoTo, Collecting, TypeOK,
              AcquireShared, CheckFresh, NotFresh, BindClaim, BindingFails, Answer, FinishAsk,
              StartView, ViewClaim, FinishView
<1>3. CASE Observe(p)
  BY <1>3 DEF Observe, GoTo, ScanOf, TypeOK
<1>4. ASSUME NEW d \in Claims, ReadManifest(p, d) PROVE ScanOf(p, c)'
  BY <1>4 DEF ReadManifest, Passed, GoTo, ScanOf, TypeOK, Snapshot
<1>5. ASSUME NEW d \in Claims, ScanClaim(p, d) PROVE ScanOf(p, c)'
  BY <1>5 DEF ScanClaim, Passed, GoTo, ScanOf, TypeOK, Snapshot
<1>6. ASSUME NEW d \in Claims, RecheckManifest(p, d) PROVE ScanOf(p, c)'
  BY <1>6 DEF RecheckManifest, Passed, GoTo, ScanOf, TypeOK
<1>7. ASSUME NEW d \in Claims, CaptureStamp(p, d) PROVE ScanOf(p, c)'
  BY <1>7 DEF CaptureStamp, Passed, GoTo, ScanOf, TypeOK, Snapshot
<1>8. CASE AcquirePublication(p) \/ CheckPublication(p)
  BY <1>8 DEF AcquirePublication, CheckPublication, GoTo, ScanOf, TypeOK
<1>9. CASE StalePublication(p) \/ RenameDatabase(p) \/ PublishGeneration(p) \/ RemoveDirty(p)
  BY <1>9 DEF StalePublication, AbandonPublication, RenameDatabase, PublishGeneration,
              RemoveDirty, Return, GoTo, Collecting, TypeOK
<1>10. ASSUME NEW d \in Claims, InputsChanged(p, d) PROVE ScanOf(p, c)'
  BY <1>10 DEF InputsChanged, Fail, Return, GoTo, Collecting, TypeOK
<1> QED
  BY <1>2, <1>3, <1>4, <1>5, <1>6, <1>7, <1>8, <1>9, <1>10 DEF Rebuild

\* The published index changes only when a rebuild renames its own into place.
LEMMA IndexKeeps ==
    ASSUME TypeOK, IInv, ScanInv, Steady, NEW p \in Procs, Step(p)
    PROVE  db'.built => \A c \in Claims : Faithful(c)'
<1>1. CASE RenameDatabase(p)
  <2>1. /\ pc[p] = "rename" /\ snap[p].gen = gen.current /\ db'.snap = snap[p]
    BY <1>1 DEF RenameDatabase, IInv, PublicationInv, Publishing
  <2>2. \A c \in Claims : ScanOf(p, c)
    BY DEF ScanInv
  <2> QED BY <2>1, <2>2 DEF ScanOf, Compared, Faithful
<1>2. CASE db' = db
  BY <1>2 DEF ScanInv, Faithful
<1>3. CASE ~RenameDatabase(p) /\ DiskStep(p)
  BY <1>2, <1>3 DEF DiskStep, AdvanceGeneration, WriteClaim, PublishJournal, ApplyTarget, RemoveJournal
<1> QED BY <1>1, <1>2, <1>3, QuietStep DEF diskVars

\* An edit that reverts nothing leaves a file that is not approved.
LEMMA EditScan ==
    ASSUME TypeOK, Outside, ScanInv PROVE ScanInv'
<1> SUFFICES ASSUME Steady' PROVE ScanInv'
  BY DEF ScanInv
<1>1. PICK d \in Claims : \E content \in Rewritten(d) : Edit(d, content)
  BY DEF Outside
<1>2. PICK content \in Rewritten(d) : Edit(d, content)
  BY <1>1
<1>3. edits' # 0 /\ ~Reverts
  BY <1>2 DEF Edit, TypeOK, Steady
<1>4. content.st # "approved"
  BY <1>3 DEF Rewritten, Gone
<1>5. /\ file'[d] = content /\ \A c \in Claims : c # d => file'[c] = file[c]
      /\ UNCHANGED <<gen, db, pc, todo, snap>>
  BY <1>2 DEF Edit, TypeOK
<1>6. Steady
  BY <1>3 DEF Steady
<1> QED
  BY <1>4, <1>5, <1>6 DEF ScanInv, ScanOf, HasManifest, HasRow, Compared, Faithful

\* Every step keeps what the rebuilds have read.
LEMMA ScanKeeps == ASSUME TypeOK, IInv, CommandInv, ScanInv, [Next]_vars PROVE ScanInv'
<1>1. ASSUME NEW p \in Procs, Step(p) PROVE ScanInv'
  <2> SUFFICES ASSUME Steady' PROVE ScanInv'
    BY DEF ScanInv
  <2>1. edits' = edits
    BY <1>1, QuietStep
    DEF diskVars, DiskStep, AdvanceGeneration, WriteClaim, PublishJournal, ApplyTarget,
        RemoveJournal, RenameDatabase, Replace
  <2>2. Steady
    BY <2>1 DEF Steady
  <2>3. \A q \in Procs, c \in Claims : ScanOf(q, c)'
    BY <1>1, <2>2, OthersScan, RebuildScan DEF ScanInv
  <2> QED BY <1>1, <2>2, <2>3, IndexKeeps DEF ScanInv
<1>2. CASE UNCHANGED vars
  BY <1>2 DEF vars, ScanInv, Steady, ScanOf, HasManifest, HasRow, Compared, Faithful
<1> QED BY <1>1, <1>2, EditScan DEF Next, Step

\* No step of another process, holding the exclusive lock, reaches a query.
LEMMA OthersRead ==
    ASSUME TypeOK, IInv, CommandInv, NEW p \in Procs, Step(p), NEW q \in Procs, q # p, ReadOf(q)
    PROVE  ReadOf(q)'
<1>1. /\ pc'[q] = pc[q] /\ todo'[q] = todo[q] /\ ans'[q] = ans[q]
  BY StepFrame
<1>2. CASE DiskStep(p)
  <2>1. pc[q] \notin Reading
    BY <1>2, DiskStepHolds, Alone DEF CommandInv, IInv
  <2> QED BY <1>1, <2>1 DEF ReadOf, Reading
<1>3. CASE ~DiskStep(p)
  BY <1>1, <1>3, QuietStep DEF diskVars, ReadOf, Pending, Trusted, SameToken
<1> QED BY <1>2, <1>3

\* A query binds every claim it will tell to the file on disk.
LEMMA AskRead ==
    ASSUME TypeOK, IInv, CommandInv, NEW p \in Procs, Step(p), ReadOf(p)
    PROVE  ReadOf(p)'
<1> SUFFICES ASSUME pc'[p] \in {"bind", "answered"} PROVE ReadOf(p)'
  BY DEF ReadOf
<1>1. \/ CheckFresh(p) \/ Answer(p) \/ \E c \in Claims : BindClaim(p, c)
  <2>1. ~Mutation(p)
    BY DEF Mutation, MarkFirst, AcquireExclusive, Start, AfterRecovery, MarkDirty,
           GenerationExhausted, AdvanceGeneration, Plan, Refuse, WriteClaim, PublishJournal,
           Classify, PreimageMismatch, VerifyFails, ApplyTarget, RemoveJournal,
           Fail, Return, GoTo, TypeOK
  <2>2. ~Rebuild(p)
    BY DEF Rebuild, Observe, ReadManifest, ScanClaim, RecheckManifest, InputsChanged,
           CaptureStamp, Passed, AcquirePublication, CheckPublication, StalePublication,
           AbandonPublication, RenameDatabase, PublishGeneration, RemoveDirty, Fail, Return,
           GoTo, TypeOK
  <2>3. ~(View(p) \/ PublicationError(p) \/ Crash(p))
    BY DEF View, StartView, ViewClaim, FinishView, PublicationError, AbandonPublication,
           Crash, Fail, Return, GoTo, TypeOK
  <2> QED BY <2>1, <2>2, <2>3 DEF Step, Ask, AcquireShared, NotFresh, BindingFails, FinishAsk, Fail,
             Return, GoTo, TypeOK
<1>2. CASE CheckFresh(p)
  <2>1. /\ ~Pending /\ db.built /\ gen.current = db.snap.gen
        /\ \A c \in Claims : file[c] = db.snap.manifest[c]
    BY <1>2 DEF CheckFresh, Fresh, Servable, DirectoryChanged, DigestsMatch, Listed, SameToken,
         TypeOK, IInv, SnapshotInv, PublicationInv, Describes
  <2>2. /\ pc'[p] = "bind" /\ ans'[p] = {}
        /\ todo'[p] = {c \in Claims : db.snap.rows[c].st = "approved"}
        /\ UNCHANGED <<fileVars, ctlVars, db>>
    BY <1>2 DEF CheckFresh, GoTo, TypeOK, CommandInv, PhaseOf
  <2> QED BY <2>1, <2>2 DEF ReadOf, Pending
<1>3. CASE Answer(p)
  BY <1>3 DEF Answer, GoTo, TypeOK, ReadOf, Pending, Trusted, SameToken
<1>4. ASSUME NEW c \in Claims, BindClaim(p, c) PROVE ReadOf(p)'
  <2>1. /\ ans'[p] = ans[p] \cup {c} /\ todo'[p] = todo[p] \ {c} /\ c \in todo[p]
        /\ pc[p] = "bind" /\ pc'[p] = "bind" /\ UNCHANGED <<fileVars, ctlVars, db>>
        /\ file[c] = db.snap.rows[c] /\ \A d \in Supports[c] : file[d].st = "approved"
    BY <1>4 DEF BindClaim, Bound, Grounded, TypeOK
  <2>2. ans'[p] \cup todo'[p] = ans[p] \cup todo[p]
    BY <2>1
  <2> QED BY <2>1, <2>2 DEF ReadOf, Pending, Trusted, SameToken
<1> QED BY <1>1, <1>2, <1>3, <1>4

\* An edit takes the file out of what a query may rely on.
LEMMA EditRead ==
    ASSUME TypeOK, IInv, NEW c \in Claims, NEW content, Edit(c, content),
           NEW p \in Procs, ReadOf(p)
    PROVE  ReadOf(p)'
<1>1. /\ UNCHANGED <<gen, journal, db, pc, todo, ans>> /\ edits' = edits + 1
      /\ stamp'[c] = MaxGen + edits + 1
      /\ \A d \in Claims : d # c => file'[d] = file[d] /\ stamp'[d] = stamp[d]
  BY DEF Edit, TypeOK
<1>2. db.snap.stamps[c] # stamp'[c] /\ edits' # 0
  BY <1>1, BoundsAssumption DEF IInv, StampInv, TypeOK, Snapshot
<1>3. \A d \in Claims : Trusted(d)' => d # c /\ Trusted(d) /\ file'[d] = file[d]
  BY <1>1, <1>2 DEF Trusted, SameToken
<1>4. ans[p] \subseteq Claims /\ \A d \in Claims : Supports[d] \subseteq Claims
  BY SupportsAssumption DEF TypeOK
<1> QED BY <1>1, <1>3, <1>4 DEF ReadOf, Pending

\* Every step keeps what the queries rely on.
LEMMA ReadKeeps == ASSUME TypeOK, IInv, CommandInv, ReadInv, [Next]_vars PROVE ReadInv'
<1>1. ASSUME NEW p \in Procs, Step(p) PROVE ReadInv'
  BY <1>1, OthersRead, AskRead DEF ReadInv
<1>2. CASE Outside
  BY <1>2, EditRead DEF Outside, ReadInv
<1>3. CASE UNCHANGED vars
  BY <1>3 DEF vars, ReadInv, ReadOf, Pending, Trusted, SameToken
<1> QED BY <1>1, <1>2, <1>3 DEF Next, Step

\* What rebuilds have read and what queries rely on, in every behaviour.
THEOREM AnswerInvariance == Spec => [](TypeOK /\ IInv /\ CommandInv /\ ScanInv /\ ReadInv)
<1>1. Init => ScanInv /\ ReadInv
  BY DEF Init, ScanInv, ScanOf, HasManifest, HasRow, Compared, ReadInv, ReadOf
<1>2. TypeOK /\ IInv /\ CommandInv /\ ScanInv /\ ReadInv /\ [Next]_vars => ScanInv' /\ ReadInv'
  BY ScanKeeps, ReadKeeps
<1> QED BY <1>1, <1>2, CommandTheorem, PTL DEF Spec

\* Unless an edit puts earlier bytes back, an answer holds exactly the approved
\* claims, up to files edited since the index was published.
THEOREM CurrentTheorem == ASSUME ~Reverts PROVE Spec => []AnswersAreCurrent
<1>1. TypeOK /\ IInv /\ ScanInv /\ ReadInv => AnswersAreCurrent
  <2> SUFFICES ASSUME TypeOK, IInv, ScanInv, ReadInv, NEW p \in Procs, pc[p] = "answered",
                      NEW c \in Claims, SameToken(c)
               PROVE  c \in ans[p] <=> file[c].st = "approved"
    BY DEF AnswersAreCurrent, SameToken
  <2>1. /\ db.built /\ ans[p] = {d \in Claims : db.snap.rows[d].st = "approved"}
        /\ file[c] = db.snap.manifest[c] /\ (c \in ans[p] => file[c] = db.snap.rows[c])
    BY DEF ReadInv, ReadOf, Trusted
  <2>2. Faithful(c)
    BY <2>1 DEF ScanInv, Steady
  <2> QED BY <2>1, <2>2 DEF Faithful
<1> QED BY <1>1, AnswerInvariance, PTL

\* Whatever is edited, an answer tells no claim that is not approved, and none
\* that rests on a claim that is not, unless that file was edited since the
\* index was published.
NothingUnapprovedTold ==
    \A p \in Procs : pc[p] = "answered" =>
        \A c \in ans[p] : \A d \in {c} \cup Supports[c] : SameToken(d) => file[d].st = "approved"
THEOREM ToldTheorem == Spec => []NothingUnapprovedTold
<1>1. TypeOK /\ ReadInv => NothingUnapprovedTold
  BY DEF TypeOK, ReadInv, ReadOf, Trusted, NothingUnapprovedTold
<1> QED BY <1>1, AnswerInvariance, PTL

-----------------------------------------------------------------------------
(* A workspace that only the program writes implements AtomicStore: a       *)
(* command takes effect when it writes its one file or publishes its       *)
(* journal, an answer is told when its last claim is bound.                *)

StoreInv == TypeOK /\ IInv /\ CommandInv /\ ScanInv /\ ReadInv

\* What the user sees changes at the commit points only.
LEMMA StatusKept ==
    ASSUME StoreInv, NEW p \in Procs, Step(p), ~WriteClaim(p), ~PublishJournal(p)
    PROVE  StatusNow' = StatusNow
<1> USE DEF StoreInv
<1>1. CASE UNCHANGED <<journal, file>>
  BY <1>1 DEF StatusNow
<1>2. ASSUME NEW c \in Claims, ApplyTarget(p, c) PROVE StatusNow' = StatusNow
  <2>1. c \in journal.targets
    BY <1>2 DEF ApplyTarget, CommandInv, PhaseOf
  <2>2. journal' = journal /\ \A d \in Claims : d # c => file'[d] = file[d]
    BY <1>2 DEF ApplyTarget, Replace, TypeOK
  <2> QED BY <2>1, <2>2 DEF StatusNow
<1>3. CASE RemoveJournal(p)
  BY <1>3 DEF RemoveJournal, Applied, StatusNow, NoBatch
<1>4. CASE AdvanceGeneration(p) \/ RenameDatabase(p)
  BY <1>1, <1>4 DEF AdvanceGeneration, RenameDatabase
<1> QED BY <1>1, <1>2, <1>3, <1>4, QuietStep DEF DiskStep, diskVars

\* What a process has told changes when it answers and when it stops.
LEMMA ToldKept ==
    ASSUME StoreInv, NEW p \in Procs, Step(p), ~Answer(p)
    PROVE  ToldNow' = ToldNow \/ ToldNow' = [ToldNow EXCEPT ![p] = {}]
<1> USE DEF StoreInv
<1>1. \A q \in Procs \ {p} : pc'[q] = pc[q] /\ ans'[q] = ans[q]
  BY StepFrame
<1>2. ASSUME pc'[p] = "answered" PROVE FALSE
  <2>1. ~Mutation(p)
    BY <1>2 DEF Mutation, MarkFirst, AcquireExclusive, Start, AfterRecovery, MarkDirty,
           GenerationExhausted, AdvanceGeneration, Plan, Refuse, WriteClaim, PublishJournal,
           Classify, PreimageMismatch, VerifyFails, ApplyTarget, RemoveJournal,
           Fail, Return, GoTo, TypeOK
  <2>2. ~Rebuild(p)
    BY <1>2 DEF Rebuild, Observe, ReadManifest, ScanClaim, RecheckManifest, InputsChanged,
           CaptureStamp, Passed, AcquirePublication, CheckPublication, StalePublication,
           AbandonPublication, RenameDatabase, PublishGeneration, RemoveDirty, Fail, Return,
           GoTo, TypeOK
  <2>3. ~(View(p) \/ PublicationError(p) \/ Crash(p))
    BY <1>2 DEF View, StartView, ViewClaim, FinishView, PublicationError, AbandonPublication,
           Crash, Fail, Return, GoTo, TypeOK
  <2> QED BY <1>2, <2>1, <2>2, <2>3 DEF Step, Ask, AcquireShared, CheckFresh, NotFresh, BindClaim,
             BindingFails, FinishAsk, Fail, Return, GoTo, TypeOK
<1>3. ToldNow'[p] = {} /\ \A q \in Procs : q # p => ToldNow'[q] = ToldNow[q]
  BY <1>1, <1>2 DEF ToldNow
<1> QED BY <1>3 DEF ToldNow

\* A single file written under the lock is a draft, a revocation, or an
\* approval that replaces nothing.
LEMMA WriteCommits ==
    ASSUME StoreInv, MaxEdits = 0, NEW p \in Procs, WriteClaim(p)
    PROVE  \E c \in Claims : Promise!Draft(c) \/ Promise!Approve(c) \/ Promise!Revoke(c)
<1> USE DEF StoreInv
<1> DEFINE k == op[p].kind
           c == op[p].claim
<1>1. edits = 0
  BY BoundsAssumption DEF TypeOK, CommandInv
<1>2. /\ pc[p] = "write" /\ Committing(p) /\ ~Pending /\ PlanOf(p) /\ plan[p].targets = {c}
  BY DEF WriteClaim, CommandInv, PhaseOf, Committing
<1>3. /\ k \in {"draft", "approve", "revoke"} /\ c \in Claims /\ Permitted(k, c)
      /\ plan[p].post[c].st = NewStatus(k) /\ (k = "approve" => Supersedes[c] \subseteq {c})
  BY <1>1, <1>2 DEF PlanOf
<1>4. /\ file'[c] = plan[p].post[c] /\ \A d \in Claims : d # c => file'[d] = file[d]
      /\ journal' = journal
  BY <1>3 DEF WriteClaim, Replace, TypeOK
<1>5. journal.targets = {} /\ journal'.targets = {}
  BY <1>2, <1>4 DEF Pending
<1>6. /\ \A d \in Claims : StatusNow[d] = file[d].st
      /\ \A d \in Claims : StatusNow'[d] = IF d = c THEN NewStatus(k) ELSE StatusNow[d]
  BY <1>3, <1>4, <1>5 DEF StatusNow
<1>7. ToldNow' = ToldNow
  BY <1>2, StepFrame DEF WriteClaim, Return, GoTo, TypeOK, ToldNow, Step, Mutation
<1> HIDE DEF k, c
<1>8. CASE k = "draft"
  BY <1>3, <1>6, <1>7, <1>8, SupersedesAssumption
  DEF Permitted, NewStatus, Promise!Draft, Promise!Approved, StatusNow
<1>9. CASE k = "approve"
  BY <1>3, <1>6, <1>7, <1>9, SupersedesAssumption, SupportsAssumption
  DEF Permitted, Grounded, NewStatus, Promise!Approve, Promise!Approved, StatusNow
<1>10. CASE k = "revoke"
  BY <1>3, <1>6, <1>7, <1>10 DEF Permitted, NewStatus, Promise!Revoke, StatusNow
<1> QED BY <1>3, <1>8, <1>9, <1>10

\* Publishing a journal approves the replacement and supersedes what it
\* replaces in one step, whenever the files follow.
LEMMA JournalCommits ==
    ASSUME StoreInv, MaxEdits = 0, NEW p \in Procs, PublishJournal(p)
    PROVE  \E c \in Claims : Promise!Approve(c)
<1> USE DEF StoreInv
<1> DEFINE c == op[p].claim
<1>1. edits = 0
  BY BoundsAssumption DEF TypeOK, CommandInv
<1>2. pc[p] = "publish" /\ Committing(p) /\ PlanOf(p) /\ plan[p].targets # {c}
  BY DEF PublishJournal, CommandInv, PhaseOf, Committing
<1>3. /\ op[p].kind = "approve" /\ c \in Claims /\ Permitted("approve", c)
      /\ plan[p].targets = {c} \cup Supersedes[c]
      /\ \A d \in plan[p].targets : plan[p].post[d].st = IF d = c THEN "approved" ELSE "superseded"
  BY <1>1, <1>2 DEF PlanOf, NewStatus
<1>4. journal.targets = {} /\ journal' = plan[p] /\ file' = file
  BY DEF PublishJournal, Pending
<1>5. /\ \A d \in Claims : StatusNow[d] = file[d].st
      /\ StatusNow' = [d \in Claims |-> IF d = c THEN "approved"
                                        ELSE IF d \in Supersedes[c] THEN "superseded"
                                        ELSE StatusNow[d]]
  BY <1>3, <1>4 DEF StatusNow
<1>6. ToldNow' = ToldNow
  BY <1>2, StepFrame DEF PublishJournal, GoTo, TypeOK, ToldNow, Step, Mutation
<1> HIDE DEF c
<1> QED
  BY <1>3, <1>5, <1>6, SupersedesAssumption, SupportsAssumption
  DEF Permitted, Grounded, Promise!Approve, Promise!Approved, StatusNow

\* A query tells exactly the claims approved at that moment.
LEMMA AnswerTells ==
    ASSUME StoreInv, MaxEdits = 0, NEW p \in Procs, Answer(p)
    PROVE  Promise!Tell(p)
<1> USE DEF StoreInv
<1>1. edits = 0
  BY BoundsAssumption DEF TypeOK, CommandInv
<1>2. pc[p] = "bind" /\ todo[p] = {} /\ ReadOf(p)
  BY DEF Answer, ReadInv
<1>3. /\ ~Pending /\ db.built
      /\ ans[p] = {c \in Claims : db.snap.rows[c].st = "approved"}
      /\ \A c \in Claims : file[c] = db.snap.manifest[c]
      /\ \A c \in ans[p] : file[c] = db.snap.rows[c]
  BY <1>1, <1>2 DEF ReadOf, Trusted, TypeOK
<1>4. \A c \in Claims : Faithful(c)
  BY <1>1, <1>3 DEF ScanInv, Steady
<1>5. ans[p] = {c \in Claims : StatusNow[c] = "approved"}
  BY <1>3, <1>4 DEF Faithful, StatusNow, Pending
<1>6. UNCHANGED <<journal, file, ans>> /\ pc' = [pc EXCEPT ![p] = "answered"]
  BY DEF Answer, GoTo
<1>7. StatusNow' = StatusNow
  BY <1>6 DEF StatusNow
<1>8. ToldNow[p] = {} /\ ToldNow' = [ToldNow EXCEPT ![p] = {ans[p]}]
  BY <1>2, <1>6 DEF ToldNow, TypeOK
<1> QED BY <1>5, <1>7, <1>8 DEF Promise!Tell, Promise!Approved

\* Every step is a step of the abstract store, or a stutter.
LEMMA PromiseStep ==
    ASSUME StoreInv, MaxEdits = 0, [Next]_vars
    PROVE  [Promise!Next]_Promise!vars
<1> USE DEF StoreInv
<1>1. ASSUME NEW p \in Procs, Step(p) PROVE [Promise!Next]_Promise!vars
  <2>1. CASE WriteClaim(p)
    BY <2>1, WriteCommits DEF Promise!Next
  <2>2. CASE PublishJournal(p)
    BY <2>2, JournalCommits DEF Promise!Next
  <2>3. CASE Answer(p)
    BY <2>3, AnswerTells DEF Promise!Next
  <2>4. CASE ~WriteClaim(p) /\ ~PublishJournal(p) /\ ~Answer(p)
    BY <1>1, <2>4, StatusKept, ToldKept DEF Promise!Next, Promise!Forget, Promise!vars
  <2> QED BY <2>1, <2>2, <2>3, <2>4
<1>2. ~Outside
  BY BoundsAssumption DEF Outside, Edit, TypeOK, CommandInv
<1>3. CASE UNCHANGED vars
  BY <1>3 DEF vars, StatusNow, ToldNow, Promise!vars
<1> QED BY <1>1, <1>2, <1>3 DEF Next, Step

\* A workspace that only the program writes, with any number of commands,
\* rebuilds, queries and crashes, behaves like the abstract store.
THEOREM RefinementTheorem == ASSUME MaxEdits = 0 PROVE Spec => ImplementsPromise
<1>1. Init => Promise!Init
  BY InitAssumption DEF Init, Promise!Init, StatusNow, ToldNow, NoBatch
<1>2. StoreInv /\ [Next]_vars => [Promise!Next]_Promise!vars
  BY PromiseStep
<1>3. Spec => []StoreInv
  BY AnswerInvariance DEF StoreInv
<1> QED BY <1>1, <1>2, <1>3, PTL DEF Spec, ImplementsPromise, Promise!Spec

\* What an approved claim replaces has ended.
Ended == {"superseded", "revoked", "broken"}
Replaced ==
    \A c \in Claims : StatusNow[c] = "approved" => \A d \in Supersedes[c] : StatusNow[d] \in Ended
\* The workspace starts with a history that replaced what it approved over.
InitReplaced ==
    \A c \in Claims : InitStatus[c] = "approved" => \A d \in Supersedes[c] : InitStatus[d] \in Ended

\* The abstract store keeps replaced claims ended.
LEMMA ReplacedKeeps ==
    ASSUME Replaced, [Promise!Next]_Promise!vars PROVE Replaced'
<1>1. StatusNow \in [Claims -> {StatusNow[c] : c \in Claims}] /\ DOMAIN StatusNow = Claims
  BY DEF StatusNow
<1>2. CASE StatusNow' = StatusNow
  BY <1>2 DEF Replaced
<1>3. ASSUME NEW c \in Claims, Promise!Draft(c) PROVE Replaced'
  BY <1>1, <1>3, SupersedesAssumption DEF Promise!Draft, Replaced, Ended
<1>4. ASSUME NEW c \in Claims, Promise!Approve(c) PROVE Replaced'
  BY <1>1, <1>4, SupersedesAssumption DEF Promise!Approve, Promise!Approved, Replaced, Ended
<1>5. ASSUME NEW c \in Claims, Promise!Revoke(c) PROVE Replaced'
  BY <1>1, <1>5, SupersedesAssumption DEF Promise!Revoke, Replaced, Ended
<1> QED
  BY <1>2, <1>3, <1>4, <1>5 DEF Promise!Next, Promise!Tell, Promise!Forget, Promise!vars

\* No answer holds a claim beside one it replaced, and every told claim rests
\* on approved supports, in a workspace that only the program writes.
THEOREM TogetherTheorem ==
    ASSUME MaxEdits = 0, InitReplaced PROVE Spec => []AnswersHangTogether
<1>1. Init => Replaced
  BY SupersedesAssumption DEF Init, InitReplaced, Replaced, StatusNow, NoBatch
<1>2. StoreInv /\ Replaced /\ [Next]_vars => Replaced'
  BY PromiseStep, ReplacedKeeps
<1>3. StoreInv /\ Replaced => AnswersHangTogether
  <2> SUFFICES ASSUME StoreInv, Replaced, NEW p \in Procs, pc[p] = "answered", NEW c \in ans[p]
               PROVE  /\ Supersedes[c] \cap ans[p] = {}
                      /\ \A d \in Supports[c] : SameToken(d) => file[d].st = "approved"
    BY DEF AnswersHangTogether, SameToken
  <2> USE DEF StoreInv
  <2>1. ReadOf(p) /\ edits = 0 /\ c \in Claims
    BY BoundsAssumption DEF ReadInv, TypeOK, CommandInv
  <2>2. \A d \in ans[p] : StatusNow[d] = "approved"
    BY <2>1 DEF ReadOf, Trusted, StatusNow, Pending, TypeOK
  <2>3. Supersedes[c] \cap ans[p] = {}
    BY <2>1, <2>2 DEF Replaced, Ended
  <2> QED BY <2>1, <2>3 DEF ReadOf, Trusted
<1>4. Spec => []StoreInv
  BY AnswerInvariance DEF StoreInv
<1> QED BY <1>1, <1>2, <1>3, <1>4, PTL DEF Spec

=============================================================================
