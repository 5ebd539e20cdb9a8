--------------------------- MODULE EvidenceProofs ---------------------------
(***************************************************************************)
(* Proofs about Evidence, for any number of processes, files, contents,    *)
(* ids and claims and any number of edits.  A capture owns the directory   *)
(* it made until it has reported or removed it: nothing else writes there, *)
(* and nothing but tampering writes anywhere else.                         *)
(***************************************************************************)
EXTENDS Evidence, FiniteSetTheorems, WellFoundedInduction, TLAPS

-----------------------------------------------------------------------------
(* The inductive invariant *)

Filling   == {"raw", "copy", "meta", "metabytes"}
Owning    == {"created", "remove"} \cup Filling
Capturing == {"hash", "lookup", "mkdir", "created", "remove"} \cup Filling
Verifying == {"verify", "verifyraw"}

\* A capture holds the lock, a verification holds or shares it.
Locked ==
    \A p \in Procs :
        /\ epc[p] \in Capturing => holder = p
        /\ epc[p] \in Verifying => holder = p \/ p \in sharers
        /\ p \in sharers => epc[p] \in Verifying

\* The directory of a capture is its own, and nobody was told its id.  Nothing of it
\* is readable while it is filled; when it is removed, only if it was complete.
Working(p) ==
    /\ epc[p] \in Capturing => job[p].file \in Files
    /\ epc[p] \in Filling \cup {"lookup", "mkdir", "created"} => job[p].sha \in Contents
    /\ epc[p] \in Owning =>
          job[p].id \in Ids /\ snap[job[p].id].dir /\ \A r \in reported : r.id # job[p].id
    /\ epc[p] \in Filling => ~Readable(job[p].id) /\ job[p].id \notin tampered
    /\ epc[p] \in {"meta", "metabytes"} => snap[job[p].id].raw = job[p].sha
    /\ epc[p] = "created" /\ job[p].id \notin tampered =>
          /\ Readable(job[p].id) /\ snap[job[p].id].raw = job[p].sha
          /\ snap[job[p].id].meta.sha = job[p].sha
    /\ epc[p] = "remove" /\ Readable(job[p].id) => job[p].id \in withdrawn

UnderWay == \A p \in Procs : Working(p)

\* What is readable, or was, is in a directory that no capture can make again.
Housed == \A i \in Ids : Readable(i) \/ i \in tampered => snap[i].dir

\* What was reported is still there, with the media type it was reported with.  That
\* its bytes are, too, is a matter of SnapshotsAreWhole.
Kept ==
    \A r \in reported : r.id \in Ids /\ (r.id \notin tampered =>
        /\ Readable(r.id)
        /\ snap[r.id].meta.sha = r.sha /\ snap[r.id].meta.media = r.media)

\* A capture past its lookup captures a content that is not there.
NoTwin ==
    \A p \in Procs : epc[p] \in Filling \cup {"mkdir"} =>
        \A i \in Ids \ tampered : Readable(i) => snap[i].meta.sha # job[p].sha

Distinct ==
    \A i, j \in Ids \ tampered :
        Readable(i) /\ Readable(j) /\ snap[i].meta.sha = snap[j].meta.sha => i = j

StoreInv == UnderWay /\ Housed /\ SnapshotsAreWhole /\ Kept /\ NoTwin /\ Distinct

\* What a verification has read so far is what the digests it computed say.
ReadBy(p) ==
    /\ job[p].claim \in Claims /\ job[p].todo \subseteq Cited(p)
    /\ epc[p] = "verifyraw" => job[p].todo # {}
    /\ \A i \in Ids : job[p].raws[i] =
          IF i \in Cited(p) \ job[p].todo THEN job[p].digests[i].sha ELSE Absent
    /\ claim[job[p].claim].st = IF holder = p THEN "draft" ELSE "approved"

Read == \A p \in Procs : epc[p] \in Verifying => ReadBy(p)

BoundTo(c, i) == IF i \in claim[c].cites THEN claim[c].sources[i].digest.sha ELSE Absent

\* An approved claim is bound to the bytes its approval read.
Bound ==
    \A c \in Claims : claim[c].st = "approved" =>
        \E a \in witnessed :
            a.kind = "approve" /\ a.claim = c /\ a.raws = [i \in Ids |-> BoundTo(c, i)]

ClaimInv == Read /\ Bound /\ AcceptedAsApproved

IInv == TypeOK /\ Locked /\ StoreInv /\ ClaimInv

-----------------------------------------------------------------------------
(* Facts about the operators *)

LEMMA FirstIsMember ==
    ASSUME NEW S \in SUBSET Ids, S # {}
    PROVE  First(S) \in S
<1>1. S \subseteq Nat
  BY IdsAssumption
<1>2. PICK x \in S : \A y \in S : <<y, x>> \notin OpToRel(<, Nat)
  BY <1>1, NatLessThanWellFounded, WFMin
<1>3. \A y \in S : x <= y
  <2> SUFFICES ASSUME NEW y \in S, y < x PROVE FALSE
    BY <1>1
  <2>1. <<y, x>> \in Nat \X Nat /\ <<y, x>>[1] = y /\ <<y, x>>[2] = x
    BY <1>1
  <2>2. <<y, x>>[1] < <<y, x>>[2]
    BY <2>1
  <2>3. <<y, x>> \in OpToRel(<, Nat)
    BY <2>1, <2>2, Zenon DEF OpToRel
  <2> QED BY <1>2, <2>3, Zenon
<1> QED BY <1>3 DEF First

LEMMA InitInv == Init => IInv
<1> SUFFICES ASSUME Init PROVE IInv
  OBVIOUS
<1> USE DEF Init
<1>1. TypeOK
  BY EvidenceNobody DEF TypeOK, NoEntry, Entry, NoMeta, Meta, NoClaim, ClaimRec, NoSource, Source,
     NoJob, Job, Medias
<1>2. Locked
  BY DEF Locked, Filling, Capturing, Verifying
<1>3. \A i \in Ids : ~Readable(i)
  BY DEF Readable, NoEntry, NoMeta, Absent
<1>4. StoreInv
  BY <1>3 DEF StoreInv, UnderWay, Working, Owning, Housed, SnapshotsAreWhole, Kept, NoTwin,
     Distinct, Filling, Capturing
<1>5. ClaimInv
  BY DEF ClaimInv, Read, Bound, AcceptedAsApproved, NoClaim, Verifying
<1> QED BY <1>1, <1>2, <1>4, <1>5 DEF IInv

-----------------------------------------------------------------------------
(* Types *)

Labels == {"idle"} \cup Capturing \cup Verifying

LEMMA Typed ==
    ASSUME TypeOK
    PROVE  /\ snap \in [Ids -> Entry] /\ claim \in [Claims -> ClaimRec]
           /\ job \in [Procs -> Job] /\ epc \in [Procs -> Labels]
           /\ source \in [Files -> Contents \cup {Absent}]
BY DEF TypeOK, Labels, Capturing, Filling, Verifying

LEMMA NoJobTyped == NoJob \in Job /\ NoMeta \in Meta /\ NoSource \in Source
BY DEF NoJob, Job, NoMeta, Meta, Medias, NoSource, Source

\* A snapshot with another directory, raw file or metadata.
LEMMA EntryUpdated ==
    ASSUME TypeOK, NEW i \in Ids
    PROVE  /\ \A d \in BOOLEAN : [snap EXCEPT ![i].dir = d] \in [Ids -> Entry]
           /\ \A b \in Contents \cup {Absent, Partial} :
                 [snap EXCEPT ![i].raw = b] \in [Ids -> Entry]
           /\ \A e \in Meta : [snap EXCEPT ![i].meta = e] \in [Ids -> Entry]
           /\ [snap EXCEPT ![i].meta.st = Partial] \in [Ids -> Entry]
<1>0. snap \in [Ids -> Entry] /\ snap[i] \in Entry
  BY DEF TypeOK
<1>1. ASSUME NEW d \in BOOLEAN PROVE [snap EXCEPT ![i].dir = d] \in [Ids -> Entry]
  <2>1. [snap[i] EXCEPT !.dir = d] \in Entry
    BY <1>0 DEF Entry
  <2> QED BY <1>0, <2>1
<1>2. ASSUME NEW b \in Contents \cup {Absent, Partial}
      PROVE  [snap EXCEPT ![i].raw = b] \in [Ids -> Entry]
  <2>1. [snap[i] EXCEPT !.raw = b] \in Entry
    BY <1>0 DEF Entry
  <2> QED BY <1>0, <2>1
<1>3. ASSUME NEW e \in Meta PROVE [snap EXCEPT ![i].meta = e] \in [Ids -> Entry]
  <2>1. [snap[i] EXCEPT !.meta = e] \in Entry
    BY <1>0 DEF Entry
  <2> QED BY <1>0, <2>1
<1>4. [snap EXCEPT ![i].meta.st = Partial] \in [Ids -> Entry]
  <2>1. [snap[i].meta EXCEPT !.st = Partial] \in Meta
    BY <1>0 DEF Entry, Meta
  <2>2. [snap EXCEPT ![i].meta.st = Partial]
            = [snap EXCEPT ![i].meta = [snap[i].meta EXCEPT !.st = Partial]]
    BY Zenon
  <2> QED BY <1>3, <2>1, <2>2
<1> QED BY <1>1, <1>2, <1>3, <1>4

LEMMA JobUpdated ==
    ASSUME TypeOK, NEW p \in Procs
    PROVE  /\ \A b \in Contents \cup {Absent} :
                 /\ [job EXCEPT ![p].sha = b] \in [Procs -> Job]
                 /\ [job EXCEPT ![p].fd = b] \in [Procs -> Job]
           /\ \A i \in Ids : [job EXCEPT ![p].id = i] \in [Procs -> Job]
           /\ \A e \in Meta : [job EXCEPT ![p].meta = e] \in [Procs -> Job]
<1>0. job \in [Procs -> Job] /\ job[p] \in Job
  BY DEF TypeOK
<1>1. ASSUME NEW b \in Contents \cup {Absent}
      PROVE  /\ [job EXCEPT ![p].sha = b] \in [Procs -> Job]
             /\ [job EXCEPT ![p].fd = b] \in [Procs -> Job]
  <2>1. [job[p] EXCEPT !.sha = b] \in Job /\ [job[p] EXCEPT !.fd = b] \in Job
    BY <1>0 DEF Job
  <2> QED BY <1>0, <2>1
<1>2. ASSUME NEW i \in Ids PROVE [job EXCEPT ![p].id = i] \in [Procs -> Job]
  <2>1. [job[p] EXCEPT !.id = i] \in Job
    BY <1>0 DEF Job
  <2> QED BY <1>0, <2>1
<1>3. ASSUME NEW e \in Meta PROVE [job EXCEPT ![p].meta = e] \in [Procs -> Job]
  <2>1. [job[p] EXCEPT !.meta = e] \in Job
    BY <1>0 DEF Job
  <2> QED BY <1>0, <2>1
<1> QED BY <1>1, <1>2, <1>3

\* The shape of a verified job, whatever the order of its updates.
LEMMA ReadJob ==
    ASSUME TypeOK, NEW p \in Procs, NEW i \in Ids, snap[i].raw \in Contents \cup {Absent},
           job' = [job EXCEPT ![p].digests[i] = job[p].meta, ![p].raws[i] = snap[i].raw,
                              ![p].todo = @ \ {i}, ![p].meta = NoMeta]
    PROVE  /\ job' \in [Procs -> Job]
           /\ \A q \in Procs \ {p} : job'[q] = job[q]
           /\ job'[p] = [job[p] EXCEPT !.digests = [job[p].digests EXCEPT ![i] = job[p].meta],
                                       !.raws = [job[p].raws EXCEPT ![i] = snap[i].raw],
                                       !.todo = job[p].todo \ {i}, !.meta = NoMeta]
<1>0. job \in [Procs -> Job] /\ job[p] \in Job
  BY DEF TypeOK
<1>1. job' = [job EXCEPT ![p] =
                 [job[p] EXCEPT !.digests = [job[p].digests EXCEPT ![i] = job[p].meta],
                                !.raws = [job[p].raws EXCEPT ![i] = snap[i].raw],
                                !.todo = job[p].todo \ {i}, !.meta = NoMeta]]
  BY <1>0
<1>2. /\ [job[p].digests EXCEPT ![i] = job[p].meta] \in [Ids -> Meta]
      /\ [job[p].raws EXCEPT ![i] = snap[i].raw] \in [Ids -> Contents \cup {Absent}]
      /\ job[p].todo \ {i} \in SUBSET Ids
  BY <1>0 DEF Job
<1>3. [job[p] EXCEPT !.digests = [job[p].digests EXCEPT ![i] = job[p].meta],
                     !.raws = [job[p].raws EXCEPT ![i] = snap[i].raw],
                     !.todo = job[p].todo \ {i}, !.meta = NoMeta] \in Job
  BY <1>0, <1>2, NoJobTyped DEF Job
<1> QED BY <1>0, <1>1, <1>3

\* A job that begins.
LEMMA FreshJobTyped ==
    ASSUME TypeOK, NEW p \in Procs
    PROVE  /\ \A f \in Files, arg \in Arguments :
                 [job EXCEPT ![p] = [NoJob EXCEPT !.file = f, !.origin = arg.origin,
                                                  !.media = arg.media]] \in [Procs -> Job]
           /\ \A c \in Claims :
                 [job EXCEPT ![p] = [NoJob EXCEPT !.claim = c, !.todo = claim[c].cites]]
                     \in [Procs -> Job]
           /\ [job EXCEPT ![p] = NoJob] \in [Procs -> Job]
<1>0. NoJob \in Job /\ job \in [Procs -> Job]
  BY NoJobTyped DEF TypeOK
<1>1. ASSUME NEW f \in Files, NEW arg \in Arguments
      PROVE  [NoJob EXCEPT !.file = f, !.origin = arg.origin, !.media = arg.media] \in Job
  <2>1. arg.origin \in Origins /\ arg.media \in Medias
    BY OriginsAssumption
  <2> QED BY <1>0, <2>1 DEF Job
<1>2. ASSUME NEW c \in Claims
      PROVE  [NoJob EXCEPT !.claim = c, !.todo = claim[c].cites] \in Job
  <2>1. claim[c].cites \in SUBSET Ids
    BY DEF TypeOK, ClaimRec
  <2> QED BY <1>0, <2>1 DEF Job
<1> QED BY <1>0, <1>1, <1>2

\* What every step keeps typed without a word.
LEMMA LeaveTyped ==
    ASSUME TypeOK, NEW p \in Procs, Leave(p)
    PROVE  /\ holder' \in Procs \cup {Nobody} /\ sharers' \subseteq Procs
           /\ holder' # Nobody => sharers' = {}
           /\ epc' \in [Procs -> Labels] /\ job' \in [Procs -> Job]
BY FreshJobTyped, Typed DEF Leave, Goto, TypeOK, Labels

LEMMA QuitTyped ==
    ASSUME TypeOK, NEW p \in Procs, Quit(p)
    PROVE  TypeOK'
BY LeaveTyped DEF Quit, storeVars, envVars, histVars, TypeOK, Labels, Capturing, Filling, Verifying

\* A step of one process within a capture or a verification.
LEMMA MoveTyped ==
    ASSUME TypeOK, NEW p \in Procs, NEW label \in Labels, Goto(p, label),
           snap' \in [Ids -> Entry], job' \in [Procs -> Job],
           UNCHANGED <<holder, sharers, claim, envVars, histVars>>
    PROVE  TypeOK'
BY DEF Goto, envVars, histVars, TypeOK, Labels, Capturing, Filling, Verifying

LEMMA CaptureTyped ==
    ASSUME TypeOK, UnderWay, NEW p \in Procs,
           \/ \E f \in Files, arg \in Arguments : StartCapture(p, f, arg)
           \/ HashSource(p) \/ ReturnExisting(p) \/ OpenSource(p)
           \/ \E i \in Ids : MakeDirectory(p, i)
           \/ CreateRaw(p) \/ CopyRaw(p) \/ CreateMeta(p) \/ WriteMeta(p) \/ Created(p)
           \/ CaptureFails(p) \/ RemoveFile(p) \/ RemoveDirectory(p) \/ RemoveFails(p)
    PROVE  TypeOK'
<1> USE Typed
<1> DEFINE i == job[p].id
<1>0. job[p].sha \in Contents \cup {Absent} /\ job[p].fd \in Contents \cup {Absent}
  BY DEF Job
<1>1. ASSUME NEW f \in Files, NEW arg \in Arguments, StartCapture(p, f, arg) PROVE TypeOK'
  BY <1>1, FreshJobTyped
     DEF StartCapture, Goto, storeVars, envVars, histVars, TypeOK
<1>2. CASE HashSource(p)
  <2>1. CASE Quit(p)
    BY <2>1, QuitTyped
  <2>2. CASE ~Quit(p)
    <3>1. source[job[p].file] \in Contents \cup {Absent}
      BY <1>2 DEF HashSource, UnderWay, Working, Owning, Capturing
    <3>2. "lookup" \in Labels
      BY DEF Labels, Capturing
    <3>3. /\ job' = [job EXCEPT ![p].sha = source[job[p].file]] /\ Goto(p, "lookup")
          /\ UNCHANGED <<holder, sharers, storeVars, envVars, histVars>>
      BY <1>2, <2>2, Zenon DEF HashSource
    <3>4. job' \in [Procs -> Job]
      BY <3>1, <3>3, JobUpdated, Zenon
    <3>5. snap' \in [Ids -> Entry] /\ claim' = claim
      BY <3>3 DEF storeVars
    <3> QED BY <3>2, <3>3, <3>4, <3>5, MoveTyped
  <2> QED BY <2>1, <2>2
<1>3. CASE ReturnExisting(p)
  <2>1. Deduped(job[p].sha) \in SUBSET Ids /\ Deduped(job[p].sha) # {}
    BY <1>3 DEF ReturnExisting, Deduped
  <2>2. First(Deduped(job[p].sha)) \in Ids
    BY <2>1, FirstIsMember
  <2>3. job[p].sha \in Contents
    BY <1>3 DEF ReturnExisting, UnderWay, Working, Owning, Filling
  <2>4. snap[First(Deduped(job[p].sha))].meta.media \in Medias
    BY <2>2 DEF Entry, Meta
  <2>5. reported' \subseteq [id : Ids, sha : Contents, media : Medias]
    BY <1>3, <2>2, <2>3, <2>4 DEF ReturnExisting, Report, TypeOK
  <2> QED
    BY <1>3, <2>5, LeaveTyped
       DEF ReturnExisting, storeVars, envVars, TypeOK, Labels, Capturing, Filling, Verifying
<1>4. CASE OpenSource(p)
  <2>1. CASE Quit(p)
    BY <2>1, QuitTyped
  <2>2. CASE ~Quit(p)
    <3>1. source[job[p].file] \in Contents \cup {Absent}
      BY <1>4 DEF OpenSource, UnderWay, Working, Owning, Capturing
    <3>2. "mkdir" \in Labels
      BY DEF Labels, Capturing
    <3>3. /\ job' = [job EXCEPT ![p].fd = source[job[p].file]] /\ Goto(p, "mkdir")
          /\ UNCHANGED <<holder, sharers, storeVars, envVars, histVars>>
      BY <1>4, <2>2, Zenon DEF OpenSource
    <3>4. job' \in [Procs -> Job]
      BY <3>1, <3>3, JobUpdated, Zenon
    <3>5. snap' \in [Ids -> Entry] /\ claim' = claim
      BY <3>3 DEF storeVars
    <3> QED BY <3>2, <3>3, <3>4, <3>5, MoveTyped
  <2> QED BY <2>1, <2>2
<1>5. ASSUME NEW n \in Ids, MakeDirectory(p, n) PROVE TypeOK'
  <2>1. CASE Quit(p)
    BY <2>1, QuitTyped
  <2>2. CASE ~Quit(p)
    <3>1. "raw" \in Labels
      BY DEF Labels, Capturing, Filling
    <3>2. /\ snap' = [snap EXCEPT ![n].dir = TRUE]
          /\ job' = [job EXCEPT ![p].id = n] /\ Goto(p, "raw")
          /\ UNCHANGED <<holder, sharers, claim, envVars, histVars>>
      BY <1>5, <2>2, Zenon DEF MakeDirectory
    <3>3. job' \in [Procs -> Job]
      BY <3>2, JobUpdated, Zenon
    <3>4. snap' \in [Ids -> Entry]
      BY <3>2, EntryUpdated, Zenon
    <3> QED BY <3>1, <3>2, <3>3, <3>4, MoveTyped
  <2> QED BY <2>1, <2>2
<1>6. CASE CreateRaw(p) \/ CopyRaw(p) \/ CreateMeta(p) \/ WriteMeta(p)
  <2>1. i \in Ids /\ job[p].file \in Files
    BY <1>6 DEF CreateRaw, CopyRaw, CreateMeta, WriteMeta, UnderWay, Working, Owning, Filling, Capturing
  <2>2. snap' \in [Ids -> Entry]
    <3> HIDE DEF i
    <3>1. CASE CreateRaw(p)
      <4>1. CASE snap[i].raw # Absent
        BY <3>1, <4>1 DEF CreateRaw, i
      <4>2. CASE snap[i].raw = Absent
        <5>1. snap' = [snap EXCEPT ![i].raw = Partial]
          BY <3>1, <4>2 DEF CreateRaw, i
        <5> QED BY <2>1, <5>1, EntryUpdated, Zenon
      <4> QED BY <4>1, <4>2
    <3>2. CASE CopyRaw(p)
      <4>1. PICK bytes \in {job[p].fd, source[job[p].file]} \ {Absent} :
               snap' = [snap EXCEPT ![i].raw = bytes]
        BY <3>2, Zenon DEF CopyRaw, i
      <4>2. bytes \in Contents \cup {Absent, Partial}
        BY <1>0, <2>1
      <4> QED BY <2>1, <4>1, <4>2, EntryUpdated, Zenon
    <3>3. CASE CreateMeta(p)
      <4>1. snap' = [snap EXCEPT ![i].meta.st = Partial]
        BY <3>3, Zenon DEF CreateMeta, i
      <4> QED BY <2>1, <4>1, EntryUpdated, Zenon
    <3>4. CASE WriteMeta(p)
      <4>1. [st |-> "whole", sha |-> job[p].sha, origin |-> job[p].origin,
             media |-> job[p].media, form |-> "emitted"] \in Meta
        BY <1>0 DEF Job, Meta
      <4>2. snap' = [snap EXCEPT ![i].meta =
                  [st |-> "whole", sha |-> job[p].sha, origin |-> job[p].origin,
                   media |-> job[p].media, form |-> "emitted"]]
        BY <3>4, Zenon DEF WriteMeta, i
      <4> QED BY <2>1, <4>1, <4>2, EntryUpdated, Zenon
    <3> QED BY <1>6, <3>1, <3>2, <3>3, <3>4
  <2>3. \E label \in Labels : Goto(p, label)
    BY <1>6 DEF CreateRaw, CopyRaw, CreateMeta, WriteMeta, Labels, Capturing, Filling
  <2>4. job' = job /\ UNCHANGED <<holder, sharers, claim, envVars, histVars>>
    BY <1>6 DEF CreateRaw, CopyRaw, CreateMeta, WriteMeta
  <2> QED BY <2>2, <2>3, <2>4, MoveTyped
<1>7. CASE Created(p)
  <2>1. job[p].id \in Ids /\ job[p].sha \in Contents
    BY <1>7 DEF Created, UnderWay, Working, Owning, Filling
  <2>2. snap[job[p].id].meta.media \in Medias
    BY <2>1 DEF Entry, Meta
  <2>3. reported' \subseteq [id : Ids, sha : Contents, media : Medias]
    BY <1>7, <2>1, <2>2 DEF Created, Report, TypeOK
  <2> QED
    BY <1>7, <2>3, LeaveTyped
       DEF Created, storeVars, envVars, TypeOK, Labels, Capturing, Filling, Verifying
<1>8. CASE CaptureFails(p)
  <2>1. job[p].id \in Ids /\ withdrawn' \subseteq withdrawn \cup {job[p].id}
    BY <1>8 DEF CaptureFails, UnderWay, Working, Owning, Filling
  <2> QED
    BY <1>8, <2>1
       DEF CaptureFails, Goto, storeVars, envVars, TypeOK, Labels, Capturing, Filling, Verifying
<1>9. CASE RemoveFile(p) \/ RemoveDirectory(p)
  <2>1. i \in Ids
    BY <1>9 DEF RemoveFile, RemoveDirectory, UnderWay, Working, Owning
  <2>2. snap' \in [Ids -> Entry]
    <3> HIDE DEF i
    <3>1. \/ snap' = [snap EXCEPT ![i].raw = Absent] \/ snap' = [snap EXCEPT ![i].meta = NoMeta]
          \/ snap' = [snap EXCEPT ![i].dir = FALSE]
      BY <1>9 DEF RemoveFile, RemoveDirectory, i
    <3>2. CASE snap' = [snap EXCEPT ![i].raw = Absent]
      BY <2>1, <3>2, EntryUpdated, Zenon
    <3>3. CASE snap' = [snap EXCEPT ![i].meta = NoMeta]
      BY <2>1, <3>3, EntryUpdated, NoJobTyped, Zenon
    <3>4. CASE snap' = [snap EXCEPT ![i].dir = FALSE]
      BY <2>1, <3>4, EntryUpdated, Zenon
    <3> QED BY <3>1, <3>2, <3>3, <3>4
  <2>3. CASE RemoveFile(p)
    BY <2>2, <2>3 DEF RemoveFile, envVars, histVars, TypeOK
  <2>4. CASE RemoveDirectory(p)
    BY <2>2, <2>4, LeaveTyped
       DEF RemoveDirectory, TypeOK, Labels, Capturing, Filling, Verifying
  <2> QED BY <1>9, <2>3, <2>4
<1>10. CASE RemoveFails(p)
  BY <1>10, QuitTyped DEF RemoveFails
<1> QED
  BY <1>1, <1>2, <1>3, <1>4, <1>5, <1>6, <1>7, <1>8, <1>9, <1>10

LEMMA ClaimTyped ==
    ASSUME TypeOK, Read, NEW p \in Procs,
           \/ \E c \in Claims : StartApprove(p, c) \/ StartValidate(p, c)
           \/ VerifyMeta(p) \/ VerifyRaw(p) \/ Approve(p) \/ Accept(p) \/ Die(p)
    PROVE  TypeOK'
<1> USE Typed
<1>1. ASSUME NEW c \in Claims, StartApprove(p, c) \/ StartValidate(p, c) PROVE TypeOK'
  <2>1. job' = [job EXCEPT ![p] = [NoJob EXCEPT !.claim = c, !.todo = claim[c].cites]]
    BY <1>1, Zenon DEF StartApprove, StartValidate, Begin
  <2>2. job' \in [Procs -> Job]
    BY <2>1, FreshJobTyped, Zenon
  <2> QED
    BY <1>1, <2>2
       DEF StartApprove, StartValidate, Begin, Goto, storeVars, envVars, histVars, TypeOK
<1>2. CASE VerifyMeta(p)
  <2>1. CASE Quit(p)
    BY <2>1, QuitTyped
  <2>2. CASE ~Quit(p)
    <3>1. First(job[p].todo) \in Ids
      BY <1>2, FirstIsMember DEF VerifyMeta, Job
    <3>2. snap[First(job[p].todo)].meta \in Meta
      BY <3>1 DEF Entry
    <3>3. "verifyraw" \in Labels
      BY DEF Labels, Verifying
    <3> QED BY <1>2, <2>2, <3>2, <3>3, JobUpdated, MoveTyped DEF VerifyMeta, storeVars
  <2> QED BY <2>1, <2>2
<1>3. CASE VerifyRaw(p)
  <2>1. CASE Quit(p)
    BY <2>1, QuitTyped
  <2>2. CASE ~Quit(p)
    <3>1. First(job[p].todo) \in Ids
      BY <1>3, FirstIsMember DEF VerifyRaw, Job, Read, ReadBy, Verifying
    <3>2. snap[First(job[p].todo)].raw \in Contents \cup {Absent}
      BY <1>3, <2>2 DEF VerifyRaw, Job, Meta
    <3>3. "verify" \in Labels
      BY DEF Labels, Verifying
    <3>4. job' \in [Procs -> Job]
      BY <1>3, <2>2, <3>1, <3>2, ReadJob DEF VerifyRaw
    <3> QED BY <1>3, <2>2, <3>3, <3>4, MoveTyped DEF VerifyRaw, storeVars
  <2> QED BY <2>1, <2>2
<1>4. CASE Approve(p)
  <2>1. CASE Quit(p)
    BY <2>1, QuitTyped
  <2>2. CASE ~Quit(p)
    <3> DEFINE bound == [i \in Ids |-> IF i \in Cited(p)
                                       THEN [digest |-> job[p].digests[i],
                                             title  |-> snap[i].meta.origin]
                                       ELSE NoSource]
    <3>1. bound \in [Ids -> Source]
      BY NoJobTyped DEF Job, Entry, Meta, Source
    <3>2. job[p].claim \in Claims
      BY <1>4 DEF Approve, Verified, Read, ReadBy, Verifying
    <3>3. [claim[job[p].claim] EXCEPT !.st = "approved", !.sources = bound] \in ClaimRec
      BY <3>1, <3>2 DEF ClaimRec
    <3>4. claim' = [claim EXCEPT ![job[p].claim] =
                       [claim[job[p].claim] EXCEPT !.st = "approved", !.sources = bound]]
      BY <1>4, <2>2, <3>2 DEF Approve
    <3>5. claim' \in [Claims -> ClaimRec]
      BY <3>2, <3>3, <3>4
    <3>6. witnessed' \subseteq Witnesses
      BY <1>4, <2>2, <3>2 DEF Approve, Witness, Witnesses, Job, TypeOK
    <3> QED
      BY <1>4, <2>2, <3>5, <3>6, LeaveTyped
         DEF Approve, envVars, TypeOK, Labels, Capturing, Filling, Verifying
  <2> QED BY <2>1, <2>2
<1>5. CASE Accept(p)
  <2>1. job[p].claim \in Claims
    BY <1>5 DEF Accept, Verified, Read, ReadBy, Verifying
  <2>2. witnessed' \subseteq Witnesses
    BY <1>5, <2>1 DEF Accept, Witness, Witnesses, Job, TypeOK
  <2> QED
    BY <1>5, <2>2, LeaveTyped
       DEF Accept, storeVars, envVars, TypeOK, Labels, Capturing, Filling, Verifying
<1>6. CASE Die(p)
  BY <1>6, QuitTyped DEF Die
<1> QED BY <1>1, <1>2, <1>3, <1>4, <1>5, <1>6

LEMMA OutsideTyped ==
    ASSUME TypeOK,
           \/ \E f \in Files, bytes \in Contents \cup {Absent} : EditSource(f, bytes)
           \/ \E i \in Ids : \E entry \in Tampering(i) : Tamper(i, entry)
           \/ \E c \in Claims, cited \in SUBSET Ids : DraftClaim(c, cited)
    PROVE  TypeOK'
<1> USE Typed
<1>1. ASSUME NEW f \in Files, NEW bytes \in Contents \cup {Absent}, EditSource(f, bytes)
      PROVE  TypeOK'
  BY <1>1 DEF EditSource, storeVars, histVars, TypeOK
<1>2. ASSUME NEW i \in Ids, NEW entry \in Tampering(i), Tamper(i, entry)
      PROVE  TypeOK'
  <2>1. snap[i] \in Entry /\ snap[i].meta \in Meta
    BY DEF Entry
  <2>2. entry \in Entry
    <3>1. ASSUME NEW bytes \in Contents \cup {Absent}, entry = [snap[i] EXCEPT !.raw = bytes]
          PROVE  entry \in Entry
      BY <2>1, <3>1 DEF Entry
    <3>2. ASSUME NEW bytes \in Contents,
                 entry = [snap[i] EXCEPT !.raw = bytes, !.meta.sha = bytes,
                                         !.meta.form = "edited"]
          PROVE  entry \in Entry
      <4>1. [snap[i].meta EXCEPT !.sha = bytes, !.form = "edited"] \in Meta
        BY <2>1 DEF Meta
      <4>2. entry = [snap[i] EXCEPT !.raw = bytes,
                       !.meta = [snap[i].meta EXCEPT !.sha = bytes, !.form = "edited"]]
        BY <2>1, <3>2 DEF Entry
      <4> QED BY <2>1, <4>1, <4>2 DEF Entry
    <3>3. ASSUME NEW o \in Origins,
                 entry = [snap[i] EXCEPT !.meta.origin = o, !.meta.form = "edited"]
          PROVE  entry \in Entry
      <4>1. [snap[i].meta EXCEPT !.origin = o, !.form = "edited"] \in Meta
        BY <2>1 DEF Meta
      <4>2. entry = [snap[i] EXCEPT
                       !.meta = [snap[i].meta EXCEPT !.origin = o, !.form = "edited"]]
        BY <2>1, <3>3 DEF Entry
      <4> QED BY <2>1, <4>1, <4>2 DEF Entry
    <3>4. ASSUME entry = [snap[i] EXCEPT !.meta = NoMeta] PROVE entry \in Entry
      BY <2>1, <3>4, NoJobTyped DEF Entry
    <3> QED BY <1>2, <3>1, <3>2, <3>3, <3>4 DEF Tampering
  <2> QED BY <1>2, <2>2 DEF Tamper, histVars, TypeOK
<1>3. ASSUME NEW c \in Claims, NEW cited \in SUBSET Ids, DraftClaim(c, cited)
      PROVE  TypeOK'
  <2>1. [NoClaim EXCEPT !.st = "draft", !.cites = cited] \in ClaimRec
    BY NoJobTyped DEF NoClaim, ClaimRec
  <2> QED BY <1>3, <2>1 DEF DraftClaim, envVars, histVars, TypeOK
<1> QED BY <1>1, <1>2, <1>3

LEMMA TypeStep ==
    ASSUME TypeOK, UnderWay, Read, [Next]_vars
    PROVE  TypeOK'
<1>1. CASE UNCHANGED vars
  BY <1>1 DEF vars, storeVars, envVars, histVars, TypeOK
<1>2. CASE Next
  BY <1>2, CaptureTyped, ClaimTyped, OutsideTyped DEF Next
<1> QED BY <1>1, <1>2

-----------------------------------------------------------------------------
(* The lock *)

\* The labels of a capture and those of a verification are apart.
LEMMA LabelsApart ==
    /\ "idle" \notin Capturing \cup Verifying /\ Capturing \cap Verifying = {}
    /\ Filling \subseteq Capturing
BY DEF Capturing, Verifying, Filling

LEMMA Alone ==
    ASSUME TypeOK, Locked, NEW p \in Procs, NEW q \in Procs \ {p}, holder = p
    PROVE  epc[q] = "idle"
BY EvidenceNobody DEF TypeOK, Locked, Capturing, Verifying, Filling

\* Nobody is at work when the lock is free and not shared.
LEMMA AllIdle ==
    ASSUME TypeOK, Locked, holder = Nobody, sharers = {}, NEW q \in Procs
    PROVE  epc[q] = "idle"
BY EvidenceNobody DEF TypeOK, Locked, Capturing, Verifying, Filling

LEMMA LockLeave ==
    ASSUME TypeOK, Locked, NEW p \in Procs, Leave(p)
    PROVE  Locked'
<1> SUFFICES ASSUME NEW q \in Procs
             PROVE  /\ epc'[q] \in Capturing => holder' = q
                    /\ epc'[q] \in Verifying => holder' = q \/ q \in sharers'
                    /\ q \in sharers' => epc'[q] \in Verifying
  BY DEF Locked
<1>1. CASE q = p
  BY <1>1, LabelsApart DEF Leave, Goto, TypeOK
<1>2. CASE q # p
  BY <1>2, Alone, LabelsApart, EvidenceNobody DEF Leave, Goto, TypeOK, Locked
<1> QED BY <1>1, <1>2

LEMMA LockMove ==
    ASSUME TypeOK, Locked, NEW p \in Procs, NEW label, Goto(p, label),
           UNCHANGED <<holder, sharers>>,
           \/ epc[p] \in Capturing /\ label \in Capturing
           \/ epc[p] \in Verifying /\ label \in Verifying
    PROVE  Locked'
<1> SUFFICES ASSUME NEW q \in Procs
             PROVE  /\ epc'[q] \in Capturing => holder' = q
                    /\ epc'[q] \in Verifying => holder' = q \/ q \in sharers'
                    /\ q \in sharers' => epc'[q] \in Verifying
  BY DEF Locked
<1>1. CASE q = p
  BY <1>1, LabelsApart DEF Goto, TypeOK, Locked
<1>2. CASE q # p
  BY <1>2 DEF Goto, TypeOK, Locked
<1> QED BY <1>1, <1>2

\* A process that takes the lock, or shares it.
LEMMA LockStart ==
    ASSUME TypeOK, Locked, NEW p \in Procs, NEW label, Goto(p, label), epc[p] = "idle",
           holder = Nobody,
           \/ /\ sharers = {} /\ holder' = p /\ sharers' = sharers
              /\ label \in Capturing \cup Verifying
           \/ holder' = holder /\ sharers' = sharers \cup {p} /\ label \in Verifying
    PROVE  Locked'
<1> SUFFICES ASSUME NEW q \in Procs
             PROVE  /\ epc'[q] \in Capturing => holder' = q
                    /\ epc'[q] \in Verifying => holder' = q \/ q \in sharers'
                    /\ q \in sharers' => epc'[q] \in Verifying
  BY DEF Locked
<1>1. CASE q = p
  BY <1>1, LabelsApart DEF Goto, TypeOK, Locked
<1>2. CASE q # p
  BY <1>2, AllIdle, LabelsApart, EvidenceNobody DEF Goto, TypeOK, Locked
<1> QED BY <1>1, <1>2

LEMMA LockStep ==
    ASSUME TypeOK, Locked, [Next]_vars
    PROVE  Locked'
<1>1. CASE UNCHANGED <<holder, sharers, epc>>
  BY <1>1 DEF Locked
<1>2. ASSUME NEW p \in Procs, Leave(p) PROVE Locked'
  BY <1>2, LockLeave
<1>3. ASSUME NEW p \in Procs, NEW f \in Files, NEW arg \in Arguments, StartCapture(p, f, arg)
      PROVE  Locked'
  BY <1>3, LockStart DEF StartCapture, Capturing
<1>4. ASSUME NEW p \in Procs, NEW c \in Claims, StartApprove(p, c) \/ StartValidate(p, c)
      PROVE  Locked'
  <2>1. "verify" \in Verifying
    BY DEF Verifying
  <2> QED BY <1>4, <2>1, LockStart DEF StartApprove, StartValidate, Begin
<1>5. ASSUME NEW p \in Procs,
             \/ HashSource(p) \/ OpenSource(p) \/ CreateRaw(p) \/ CopyRaw(p)
             \/ \E i \in Ids : MakeDirectory(p, i)
             \/ CreateMeta(p) \/ WriteMeta(p) \/ CaptureFails(p)
      PROVE  Locked'
  <2>1. CASE Leave(p)
    BY <2>1, <1>2
  <2>2. CASE ~Leave(p)
    <3>1. epc[p] \in Capturing /\ UNCHANGED <<holder, sharers>>
      BY <1>5, <2>2 DEF HashSource, OpenSource, MakeDirectory, CreateRaw, CopyRaw, CreateMeta,
         WriteMeta, CaptureFails, Quit, Capturing, Filling
    <3>2. \E label \in Capturing : Goto(p, label)
      BY <1>5, <2>2 DEF HashSource, OpenSource, MakeDirectory, CreateRaw, CopyRaw, CreateMeta,
         WriteMeta, CaptureFails, Quit, Capturing, Filling
    <3> QED BY <3>1, <3>2, LockMove
  <2> QED BY <2>1, <2>2
<1>6. ASSUME NEW p \in Procs, VerifyMeta(p) \/ VerifyRaw(p) PROVE Locked'
  <2>1. CASE Leave(p)
    BY <2>1, <1>2
  <2>2. CASE ~Leave(p)
    <3>1. epc[p] \in Verifying /\ UNCHANGED <<holder, sharers>>
      BY <1>6, <2>2 DEF VerifyMeta, VerifyRaw, Quit, Verifying
    <3>2. \E label \in Verifying : Goto(p, label)
      BY <1>6, <2>2 DEF VerifyMeta, VerifyRaw, Quit, Verifying
    <3> QED BY <3>1, <3>2, LockMove
  <2> QED BY <2>1, <2>2
<1>7. ASSUME NEW p \in Procs,
             \/ ReturnExisting(p) \/ Created(p) \/ RemoveDirectory(p) \/ RemoveFails(p)
             \/ Approve(p) \/ Accept(p) \/ Die(p)
      PROVE  Leave(p)
  BY <1>7 DEF ReturnExisting, Created, RemoveDirectory, RemoveFails, Approve, Accept, Die, Quit
<1>8. ASSUME NEW p \in Procs, RemoveFile(p) PROVE UNCHANGED <<holder, sharers, epc>>
  BY <1>8 DEF RemoveFile
<1>9. ASSUME \/ \E f \in Files, bytes \in Contents \cup {Absent} : EditSource(f, bytes)
             \/ \E i \in Ids : \E entry \in Tampering(i) : Tamper(i, entry)
             \/ \E c \in Claims, cited \in SUBSET Ids : DraftClaim(c, cited)
      PROVE  Locked'
  <2>1. UNCHANGED <<holder, sharers, epc>>
    BY <1>9, Zenon DEF EditSource, Tamper, DraftClaim
  <2> QED BY <1>1, <2>1
<1>10. CASE UNCHANGED vars
  BY <1>1, <1>10 DEF vars
<1>11. ASSUME NEW p \in Procs,
              \/ ReturnExisting(p) \/ Created(p) \/ RemoveDirectory(p) \/ RemoveFails(p)
              \/ Approve(p) \/ Accept(p) \/ Die(p) \/ RemoveFile(p)
       PROVE  Locked'
  BY <1>11, <1>1, <1>2, <1>7, <1>8
<1> QED BY <1>1, <1>3, <1>4, <1>5, <1>6, <1>9, <1>10, <1>11 DEF Next

-----------------------------------------------------------------------------
(* The snapshots *)

\* Whether a snapshot is readable is a matter of its own entry.
LEMMA ReadableFrame ==
    ASSUME NEW i, snap'[i] = snap[i]
    PROVE  Readable(i)' <=> Readable(i)
BY DEF Readable

\* What a step on one snapshot leaves of the others, and of that one.
LEMMA EntryEffects ==
    ASSUME TypeOK, NEW i \in Ids
    PROVE  /\ \A b : snap' = [snap EXCEPT ![i].raw = b] =>
                 /\ \A j \in Ids \ {i} : snap'[j] = snap[j]
                 /\ snap'[i].raw = b /\ snap'[i].meta = snap[i].meta /\ snap'[i].dir = snap[i].dir
           /\ \A e : snap' = [snap EXCEPT ![i].meta = e] =>
                 /\ \A j \in Ids \ {i} : snap'[j] = snap[j]
                 /\ snap'[i].raw = snap[i].raw /\ snap'[i].meta = e /\ snap'[i].dir = snap[i].dir
           /\ \A d : snap' = [snap EXCEPT ![i].dir = d] =>
                 /\ \A j \in Ids \ {i} : snap'[j] = snap[j]
                 /\ snap'[i].raw = snap[i].raw /\ snap'[i].meta = snap[i].meta /\ snap'[i].dir = d
           /\ snap' = [snap EXCEPT ![i].meta.st = Partial] =>
                 /\ \A j \in Ids \ {i} : snap'[j] = snap[j]
                 /\ snap'[i].raw = snap[i].raw /\ snap'[i].meta.st = Partial
                 /\ snap'[i].dir = snap[i].dir
<1>0. snap \in [Ids -> Entry] /\ snap[i] \in Entry /\ snap[i].meta \in Meta
  BY DEF TypeOK, Entry
<1>1. ASSUME NEW b, snap' = [snap EXCEPT ![i].raw = b]
      PROVE  /\ \A j \in Ids \ {i} : snap'[j] = snap[j]
             /\ snap'[i].raw = b /\ snap'[i].meta = snap[i].meta /\ snap'[i].dir = snap[i].dir
  BY <1>0, <1>1 DEF Entry
<1>2. ASSUME NEW e, snap' = [snap EXCEPT ![i].meta = e]
      PROVE  /\ \A j \in Ids \ {i} : snap'[j] = snap[j]
             /\ snap'[i].raw = snap[i].raw /\ snap'[i].meta = e /\ snap'[i].dir = snap[i].dir
  BY <1>0, <1>2 DEF Entry
<1>3. ASSUME NEW d, snap' = [snap EXCEPT ![i].dir = d]
      PROVE  /\ \A j \in Ids \ {i} : snap'[j] = snap[j]
             /\ snap'[i].raw = snap[i].raw /\ snap'[i].meta = snap[i].meta /\ snap'[i].dir = d
  BY <1>0, <1>3 DEF Entry
<1>4. ASSUME snap' = [snap EXCEPT ![i].meta.st = Partial]
      PROVE  /\ \A j \in Ids \ {i} : snap'[j] = snap[j]
             /\ snap'[i].raw = snap[i].raw /\ snap'[i].meta.st = Partial
             /\ snap'[i].dir = snap[i].dir
  BY <1>0, <1>4 DEF Entry, Meta
<1> QED BY <1>1, <1>2, <1>3, <1>4, Zenon

\* Steps that neither touch a snapshot nor are part of a capture afterwards.
LEMMA StoreFrame ==
    ASSUME StoreInv, NEW p \in Procs, epc'[p] \notin Capturing,
           UNCHANGED <<snap, tampered, reported, withdrawn>>,
           \A q \in Procs \ {p} : epc'[q] = epc[q] /\ job'[q] = job[q]
    PROVE  StoreInv'
<1>1. \A i \in Ids : snap'[i] = snap[i] /\ (Readable(i)' <=> Readable(i))
  BY DEF Readable
<1>2. \A q \in Procs : epc'[q] \in Capturing => epc'[q] = epc[q] /\ job'[q] = job[q]
  OBVIOUS
<1>3. UnderWay'
  <2> SUFFICES ASSUME NEW q \in Procs PROVE Working(q)'
    BY DEF UnderWay
  <2>1. CASE epc'[q] \in Capturing
    BY <1>2, <2>1 DEF StoreInv, UnderWay, Working, Readable
  <2>2. CASE epc'[q] \notin Capturing
    BY <2>2 DEF Working, Owning, Filling, Capturing
  <2> QED BY <2>1, <2>2
<1>4. NoTwin'
  BY <1>1, LabelsApart DEF StoreInv, NoTwin, Capturing
<1>5. Housed' /\ SnapshotsAreWhole' /\ Distinct'
  BY <1>1 DEF StoreInv, Housed, SnapshotsAreWhole, Whole, Distinct
<1>6. Kept'
  BY <1>1 DEF StoreInv, Kept
<1> QED BY <1>3, <1>4, <1>5, <1>6 DEF StoreInv

\* A step of the process in its own directory that leaves it unreadable.
LEMMA OwnDirectory ==
    ASSUME TypeOK, StoreInv, NEW i \in Ids, ~Readable(i)', \A r \in reported : r.id # i,
           \A j \in Ids \ {i} : snap'[j] = snap[j],
           \/ UNCHANGED <<tampered, withdrawn>> /\ (i \in tampered => snap'[i].dir)
           \/ tampered' = tampered \ {i} /\ withdrawn' = withdrawn \ {i},
           UNCHANGED reported
    PROVE  Housed' /\ SnapshotsAreWhole' /\ Kept' /\ Distinct'
<1>1. \A j \in Ids \ {i} : Readable(j)' <=> Readable(j)
  BY DEF Readable
<1>2. /\ \A j \in Ids : Readable(j)' => j # i /\ Readable(j) /\ snap'[j] = snap[j]
      /\ \A j \in Ids \ {i} : /\ j \in tampered' <=> j \in tampered
                              /\ j \in withdrawn' <=> j \in withdrawn
  BY <1>1
<1>3. Housed'
  BY <1>2 DEF StoreInv, Housed
<1>4. SnapshotsAreWhole'
  BY <1>2 DEF StoreInv, SnapshotsAreWhole, Whole
<1>5. Distinct'
  BY <1>2 DEF StoreInv, Distinct
<1>6. Kept'
  BY <1>1, <1>2 DEF StoreInv, Kept
<1> QED BY <1>3, <1>4, <1>5, <1>6

\* What must be shown of the process that moves: the others are idle.
LEMMA MoverOnly ==
    ASSUME TypeOK, Locked, NEW p \in Procs, epc[p] \in Capturing,
           \A q \in Procs \ {p} : epc'[q] = epc[q]
    PROVE  \A q \in Procs \ {p} : epc'[q] \notin Capturing
BY Alone, LabelsApart DEF Locked

\* A move: the label and the job of p, and nothing of the others.
LEMMA MoveEffects ==
    ASSUME TypeOK, NEW p \in Procs, NEW label, Goto(p, label)
    PROVE  epc'[p] = label /\ \A q \in Procs \ {p} : epc'[q] = epc[q]
BY DEF Goto, TypeOK

LEMMA LeaveEffects ==
    ASSUME TypeOK, NEW p \in Procs, Leave(p)
    PROVE  /\ epc'[p] = "idle" /\ epc'[p] \notin Capturing
           /\ \A q \in Procs \ {p} : epc'[q] = epc[q] /\ job'[q] = job[q]
BY LabelsApart DEF Leave, Goto, TypeOK

LEMMA StoreLeave ==
    ASSUME TypeOK, StoreInv, NEW p \in Procs, Leave(p), UNCHANGED <<snap, tampered, reported, withdrawn>>
    PROVE  StoreInv'
BY LeaveEffects, StoreFrame

LEMMA StoreQuit ==
    ASSUME TypeOK, StoreInv, NEW p \in Procs, Quit(p)
    PROVE  StoreInv'
BY StoreLeave DEF Quit, storeVars, envVars, histVars

\* UnderWay and NoTwin after a step of p, from what holds of p.
LEMMA CaptureFrame ==
    ASSUME NEW p \in Procs, \A q \in Procs \ {p} : epc'[q] \notin Capturing, Working(p)',
           epc'[p] \in Filling \cup {"mkdir"} =>
              \A i \in Ids \ tampered' : Readable(i)' => snap'[i].meta.sha # job'[p].sha
    PROVE  UnderWay' /\ NoTwin'
BY DEF UnderWay, Working, Owning, NoTwin, Capturing, Filling

LEMMA StoreStart ==
    ASSUME TypeOK, Locked, StoreInv, NEW p \in Procs, NEW f \in Files, NEW arg \in Arguments,
           StartCapture(p, f, arg)
    PROVE  StoreInv'
<1>1. UNCHANGED <<snap, tampered, reported, withdrawn>> /\ Goto(p, "hash") /\ holder = Nobody /\ sharers = {}
  BY DEF StartCapture, storeVars, envVars, histVars
<1>2. \A i \in Ids : snap'[i] = snap[i] /\ (Readable(i)' <=> Readable(i))
  BY <1>1 DEF Readable
<1>3. Housed' /\ SnapshotsAreWhole' /\ Distinct'
  BY <1>1, <1>2 DEF StoreInv, Housed, SnapshotsAreWhole, Whole, Distinct
<1>4. Kept'
  BY <1>1, <1>2 DEF StoreInv, Kept
<1>5. \A q \in Procs \ {p} : epc'[q] \notin Capturing
  BY <1>1, AllIdle, MoveEffects, LabelsApart
<1>6. job'[p].file = f
  <2>1. job'[p] = [NoJob EXCEPT !.file = f, !.origin = arg.origin, !.media = arg.media]
    BY Typed DEF StartCapture
  <2> QED BY <2>1, NoJobTyped DEF Job
<1>7. UnderWay' /\ NoTwin'
  <2>1. epc'[p] = "hash"
    BY <1>1, MoveEffects
  <2> QED BY <1>5, <1>6, <2>1, CaptureFrame DEF Working, Owning, Filling
<1> QED BY <1>3, <1>4, <1>7 DEF StoreInv

\* A step of a capture that only looks.
LEMMA StoreLooks ==
    ASSUME TypeOK, Locked, StoreInv, NEW p \in Procs,
           HashSource(p) \/ OpenSource(p)
    PROVE  StoreInv'
<1> USE Typed
<1>1. CASE Quit(p)
  BY <1>1, StoreQuit
<1>2. CASE ~Quit(p)
  <2>1. UNCHANGED <<snap, tampered, reported, withdrawn>>
    BY <1>2 DEF HashSource, OpenSource, storeVars, envVars, histVars
  <2>2. \A i \in Ids : snap'[i] = snap[i] /\ (Readable(i)' <=> Readable(i))
    BY <2>1 DEF Readable
  <2>3. Housed' /\ SnapshotsAreWhole' /\ Distinct'
    BY <2>1, <2>2 DEF StoreInv, Housed, SnapshotsAreWhole, Whole, Distinct
  <2>4. Kept'
    BY <2>1, <2>2 DEF StoreInv, Kept
  <2>5. \A q \in Procs \ {p} : epc'[q] \notin Capturing
    <3>1. epc[p] \in Capturing
      BY DEF HashSource, OpenSource, Capturing, Filling
    <3>2. \E label : Goto(p, label)
      BY <1>2, Zenon DEF HashSource, OpenSource
    <3> QED BY <3>1, <3>2, MoveEffects, MoverOnly
  <2>6. UnderWay' /\ NoTwin'
    <3>2. CASE HashSource(p)
      <4>1. /\ epc'[p] = "lookup" /\ job'[p].file = job[p].file
            /\ job'[p].sha = source[job[p].file] /\ source[job[p].file] # Absent
        BY <1>2, <3>2 DEF HashSource, Goto, Job
      <4>2. job[p].file \in Files
        BY <3>2 DEF HashSource, StoreInv, UnderWay, Working, Owning, Capturing
      <4>3. job'[p].sha \in Contents
        BY <4>1, <4>2, Typed
      <4> QED BY <4>1, <4>2, <4>3, <2>5, CaptureFrame DEF Working, Owning, Filling
    <3>3. CASE OpenSource(p)
      <4>1. epc'[p] = "mkdir" /\ job'[p].file = job[p].file /\ job'[p].sha = job[p].sha
        BY <1>2, <3>3 DEF OpenSource, Goto, Job
      <4>2. job[p].file \in Files /\ job[p].sha \in Contents
        BY <3>3 DEF OpenSource, StoreInv, UnderWay, Working, Owning, Capturing, Filling
      <4>3. \A i \in Ids : Readable(i) => snap[i].meta.sha # job[p].sha
        BY <3>3 DEF OpenSource, Deduped
      <4> QED BY <4>1, <4>2, <4>3, <2>2, <2>5, CaptureFrame DEF Working, Owning, Filling
    <3> QED BY <3>2, <3>3
  <2> QED BY <2>3, <2>4, <2>6 DEF StoreInv
<1> QED BY <1>1, <1>2

\* A capture that fails: complete or not, it removes what only it knows.
LEMMA StoreFails ==
    ASSUME TypeOK, Locked, StoreInv, NEW p \in Procs, CaptureFails(p)
    PROVE  StoreInv'
<1>1. /\ UNCHANGED <<snap, tampered, reported, job>> /\ Goto(p, "remove")
      /\ epc[p] \in Filling \cup {"created"} /\ withdrawn \subseteq withdrawn'
      /\ epc[p] = "created" => job[p].id \in withdrawn'
  BY DEF CaptureFails, storeVars, envVars, Filling
<1>2. \A i \in Ids : Readable(i)' <=> Readable(i)
  BY <1>1 DEF Readable
<1>3. Housed' /\ SnapshotsAreWhole' /\ Distinct'
  BY <1>1, <1>2 DEF StoreInv, Housed, SnapshotsAreWhole, Whole, Distinct
<1>4. Kept'
  BY <1>1, <1>2 DEF StoreInv, Kept
<1>5. Working(p)
  BY DEF StoreInv, UnderWay
<1>6. epc'[p] = "remove" /\ \A q \in Procs \ {p} : epc'[q] \notin Capturing
  BY <1>1, MoveEffects, MoverOnly DEF Capturing, Filling
<1>7. Working(p)'
  BY <1>1, <1>2, <1>5, <1>6 DEF Working, Owning, Capturing, Filling, Readable
<1>8. UnderWay' /\ NoTwin'
  BY <1>6, <1>7, CaptureFrame DEF Filling
<1> QED BY <1>3, <1>4, <1>8 DEF StoreInv

\* A step of a capture in its own directory.
LEMMA StoreWrites ==
    ASSUME TypeOK, Locked, StoreInv, NEW p \in Procs,
           \/ \E n \in Ids : MakeDirectory(p, n)
           \/ CreateRaw(p) \/ CopyRaw(p) \/ CreateMeta(p)
    PROVE  StoreInv'
<1> USE Typed
<1>1. CASE Quit(p)
  BY <1>1, StoreQuit
<1>2. CASE ~Quit(p)
  <2>1. UNCHANGED <<tampered, reported, withdrawn>>
    BY <1>2 DEF MakeDirectory, CreateRaw, CopyRaw, CreateMeta, envVars, histVars
  <2>2. \A q \in Procs \ {p} : epc'[q] \notin Capturing
    <3>1. epc[p] \in Capturing
      BY DEF MakeDirectory, CreateRaw, CopyRaw, CreateMeta, Capturing, Filling
    <3>2. \E label : Goto(p, label)
      BY <1>2 DEF MakeDirectory, CreateRaw, CopyRaw, CreateMeta
    <3> QED BY <3>1, <3>2, MoveEffects, MoverOnly
  <2>3. ASSUME NEW n \in Ids, MakeDirectory(p, n) PROVE StoreInv'
    <3>1. /\ snap' = [snap EXCEPT ![n].dir = TRUE] /\ ~snap[n].dir /\ epc[p] = "mkdir"
          /\ job' = [job EXCEPT ![p].id = n] /\ Goto(p, "raw")
      BY <1>2, <2>3 DEF MakeDirectory
    <3>2. /\ epc'[p] = "raw" /\ job'[p].id = n /\ job'[p].file = job[p].file
          /\ job'[p].sha = job[p].sha
      BY <3>1, MoveEffects DEF Job
    <3>3. ~Readable(n) /\ n \notin tampered /\ \A r \in reported : r.id # n
      BY <3>1 DEF StoreInv, Housed, Kept
    <3>4. /\ \A j \in Ids \ {n} : snap'[j] = snap[j]
          /\ snap'[n].dir /\ snap'[n].meta = snap[n].meta
      BY <3>1, EntryEffects
    <3>5. \A j \in Ids : Readable(j)' <=> Readable(j)
      BY <3>4 DEF Readable
    <3>6. Housed' /\ SnapshotsAreWhole' /\ Kept' /\ Distinct'
      BY <2>1, <3>3, <3>4, <3>5, OwnDirectory
    <3>7. /\ job[p].file \in Files /\ job[p].sha \in Contents
          /\ \A i \in Ids \ tampered : Readable(i) => snap[i].meta.sha # job[p].sha
      BY <3>1 DEF StoreInv, UnderWay, Working, Owning, NoTwin, Capturing, Filling
    <3>8. UnderWay' /\ NoTwin'
      <4>2. \A i \in Ids \ tampered' : Readable(i)' => snap'[i].meta.sha # job'[p].sha
        BY <2>1, <3>2, <3>3, <3>4, <3>5, <3>7
      <4>3. Working(p)'
        BY <2>1, <3>2, <3>3, <3>4, <3>5, <3>7 DEF Working, Owning, Filling
      <4> QED BY <2>2, <4>2, <4>3, CaptureFrame
    <3> QED BY <3>6, <3>8 DEF StoreInv
  <2>4. CASE CreateRaw(p) \/ CopyRaw(p) \/ CreateMeta(p)
    <3>1. epc[p] \in Filling /\ job' = job
      BY <2>4 DEF CreateRaw, CopyRaw, CreateMeta, Filling
    <3>i. PICK i \in Ids : i = job[p].id
      BY <3>1 DEF StoreInv, UnderWay, Working, Owning
    <3>2. /\ i \in Ids /\ snap[i].dir /\ ~Readable(i) /\ i \notin tampered
          /\ job[p].file \in Files /\ job[p].sha \in Contents
          /\ \A r \in reported : r.id # i
          /\ epc[p] \in {"meta", "metabytes"} => snap[i].raw = job[p].sha
          /\ \A j \in Ids \ tampered : Readable(j) => snap[j].meta.sha # job[p].sha
      BY <3>1, <3>i, LabelsApart DEF StoreInv, UnderWay, Working, Owning, NoTwin, Capturing
    <3>3. /\ \A j \in Ids \ {i} : snap'[j] = snap[j]
          /\ snap'[i].dir /\ snap'[i].meta.st # "whole"
          /\ \/ epc'[p] \in {"remove", "copy"}
             \/ epc'[p] = "meta" /\ snap'[i].raw = job[p].sha
             \/ epc'[p] = "metabytes" /\ snap'[i].raw = snap[i].raw /\ epc[p] = "meta"
      <4>0. snap[i].meta.st # "whole" /\ snap[i].dir
        BY <3>2 DEF Readable
      <4>1. CASE CreateRaw(p)
        <5>1. CASE snap[i].raw # Absent
          BY <3>i, <4>0, <4>1, <5>1, MoveEffects DEF CreateRaw
        <5>2. CASE snap[i].raw = Absent
          <6>1. snap' = [snap EXCEPT ![i].raw = Partial] /\ Goto(p, "copy") /\ epc[p] = "raw"
            BY <3>i, <4>1, <5>2 DEF CreateRaw
          <6> QED BY <3>2, <4>0, <6>1, EntryEffects, MoveEffects DEF Filling
        <5> QED BY <5>1, <5>2
      <4>2. CASE CopyRaw(p)
        <5>1. PICK bytes : /\ snap' = [snap EXCEPT ![i].raw = bytes] /\ epc[p] = "copy"
                           /\ Goto(p, IF bytes = job[p].sha THEN "meta" ELSE "remove")
          BY <3>i, <4>2, Zenon DEF CopyRaw
        <5>2. epc'[p] = IF bytes = job[p].sha THEN "meta" ELSE "remove"
          BY <5>1, MoveEffects
        <5>3. /\ \A j \in Ids \ {i} : snap'[j] = snap[j]
              /\ snap'[i].raw = bytes /\ snap'[i].meta = snap[i].meta /\ snap'[i].dir = snap[i].dir
          BY <3>2, <5>1, EntryEffects, Zenon
        <5> QED BY <4>0, <5>1, <5>2, <5>3 DEF Filling
      <4>3. CASE CreateMeta(p)
        <5>1. /\ snap' = [snap EXCEPT ![i].meta.st = Partial]
              /\ Goto(p, "metabytes") /\ epc[p] = "meta"
          BY <3>i, <4>3, Zenon DEF CreateMeta
        <5>2. /\ \A j \in Ids \ {i} : snap'[j] = snap[j]
              /\ snap'[i].raw = snap[i].raw /\ snap'[i].meta.st = Partial
              /\ snap'[i].dir = snap[i].dir
          BY <3>2, <5>1, EntryEffects, Zenon
        <5> QED BY <4>0, <5>1, <5>2, MoveEffects DEF Partial, Filling
      <4> QED BY <2>4, <4>1, <4>2, <4>3
    <3>4. ~Readable(i)' /\ \A j \in Ids \ {i} : Readable(j)' <=> Readable(j)
      BY <3>1, <3>3 DEF Readable
    <3>5. Housed' /\ SnapshotsAreWhole' /\ Kept' /\ Distinct'
      BY <2>1, <3>2, <3>3, <3>4, OwnDirectory
    <3>6. UnderWay' /\ NoTwin'
      <4>1. epc'[p] \in {"remove", "copy", "meta", "metabytes"}
        BY <3>3
      <4>2. \A j \in Ids \ tampered' : Readable(j)' => snap'[j].meta.sha # job'[p].sha
        BY <2>1, <3>1, <3>2, <3>3, <3>4
      <4>3. epc'[p] \in {"meta", "metabytes"} => snap'[i].raw = job[p].sha
        BY <3>2, <3>3
      <4>4. Working(p)'
        BY <2>1, <3>1, <3>2, <3>3, <3>4, <4>1, <4>3, <3>i DEF Working, Owning, Filling
      <4> QED BY <2>2, <4>2, <4>4, CaptureFrame
    <3> QED BY <3>5, <3>6 DEF StoreInv
  <2> QED BY <2>3, <2>4
<1> QED BY <1>1, <1>2

\* The snapshot becomes readable: it is whole, and the first of its content.
LEMMA StoreCompletes ==
    ASSUME TypeOK, Locked, StoreInv, NEW p \in Procs, WriteMeta(p)
    PROVE  StoreInv'
<1> DEFINE whole == [st |-> "whole", sha |-> job[p].sha, origin |-> job[p].origin,
                     media |-> job[p].media, form |-> "emitted"]
<1>i. PICK i \in Ids : i = job[p].id
  BY DEF WriteMeta, StoreInv, UnderWay, Working, Owning, Filling
<1>1. /\ epc[p] = "metabytes" /\ job' = job /\ UNCHANGED <<tampered, reported, withdrawn>>
      /\ snap' = [snap EXCEPT ![i].meta = whole] /\ Goto(p, "created")
  BY <1>i DEF WriteMeta, envVars, histVars
<1>2. /\ snap[i].dir /\ ~Readable(i) /\ i \notin tampered /\ snap[i].raw = job[p].sha
      /\ job[p].file \in Files /\ job[p].sha \in Contents
      /\ \A j \in Ids \ tampered : Readable(j) => snap[j].meta.sha # job[p].sha
      /\ \A r \in reported : r.id # i
  BY <1>i, <1>1 DEF StoreInv, UnderWay, Working, Owning, NoTwin, Capturing, Filling
<1> HIDE DEF whole
<1>3. /\ \A j \in Ids \ {i} : snap'[j] = snap[j]
      /\ snap'[i].raw = snap[i].raw /\ snap'[i].meta = whole /\ snap'[i].dir = snap[i].dir
  BY <1>1, EntryEffects, Zenon
<1>4. whole.st = "whole" /\ whole.sha = job[p].sha
  BY DEF whole
<1>5. Readable(i)' /\ \A j \in Ids \ {i} : Readable(j)' <=> Readable(j)
  BY <1>3, <1>4 DEF Readable
<1>6. Housed' /\ SnapshotsAreWhole' /\ Distinct'
  BY <1>1, <1>2, <1>3, <1>4, <1>5 DEF StoreInv, Housed, SnapshotsAreWhole, Whole, Distinct
<1>7. Kept'
  <2>1. ASSUME NEW r \in reported, r.id \notin tampered
        PROVE  /\ r.id \in Ids /\ Readable(r.id) /\ snap'[r.id] = snap[r.id]
               /\ snap[r.id].meta.sha = r.sha /\ snap[r.id].meta.media = r.media
    BY <1>2, <1>3, <2>1 DEF StoreInv, Kept
  <2>2. \A r \in reported : r.id \in Ids
    BY DEF StoreInv, Kept
  <2> QED BY <1>1, <2>1, <2>2 DEF Kept, Readable
<1>8. UnderWay' /\ NoTwin'
  <2>1. epc'[p] = "created" /\ \A q \in Procs \ {p} : epc'[q] \notin Capturing
    BY <1>1, MoveEffects, MoverOnly DEF Capturing, Filling
  <2>2. Working(p)'
    BY <1>i, <1>1, <1>2, <1>3, <1>4, <1>5, <2>1 DEF Working, Owning, Filling
  <2> QED BY <2>1, <2>2, CaptureFrame DEF Filling
<1> QED BY <1>6, <1>7, <1>8 DEF StoreInv

\* A capture that returns reports a snapshot that is there.
LEMMA StoreReports ==
    ASSUME TypeOK, Locked, StoreInv, NEW p \in Procs, Created(p) \/ ReturnExisting(p)
    PROVE  StoreInv'
<1> USE Typed
<1>1. PICK i \in Ids : /\ i = IF Created(p) THEN job[p].id ELSE First(Deduped(job[p].sha))
                       /\ Report(p, i)
                       /\ i \notin tampered => Readable(i) /\ snap[i].meta.sha = job[p].sha
  <2>1. CASE Created(p)
    BY <2>1 DEF Created, StoreInv, UnderWay, Working, Owning, Filling
  <2>2. CASE ReturnExisting(p) /\ ~Created(p)
    <3>1. Deduped(job[p].sha) \in SUBSET Ids /\ Deduped(job[p].sha) # {}
      BY <2>2 DEF ReturnExisting, Deduped
    <3>2. First(Deduped(job[p].sha)) \in Deduped(job[p].sha)
      BY <3>1, FirstIsMember
    <3> QED BY <2>2, <3>1, <3>2 DEF ReturnExisting, Deduped
  <2> QED BY <2>1, <2>2
<1>2. Leave(p) /\ UNCHANGED <<snap, tampered, withdrawn>> /\ epc[p] \in Capturing
  BY DEF Created, ReturnExisting, storeVars, envVars, Capturing
<1>3. \A j \in Ids : snap'[j] = snap[j] /\ (Readable(j)' <=> Readable(j))
  BY <1>2 DEF Readable
<1>4. Housed' /\ SnapshotsAreWhole' /\ Distinct'
  BY <1>2, <1>3 DEF StoreInv, Housed, SnapshotsAreWhole, Whole, Distinct
<1>5. Kept'
  BY <1>1, <1>2, <1>3 DEF StoreInv, Kept, Report
<1>6. epc'[p] = "idle" /\ \A q \in Procs \ {p} : epc'[q] \notin Capturing
  BY <1>2, LeaveEffects, MoverOnly
<1>7. UnderWay' /\ NoTwin'
  BY <1>6, CaptureFrame DEF Working, Owning, Capturing, Filling
<1> QED BY <1>4, <1>5, <1>6, <1>7 DEF StoreInv

\* The directory goes when both of its files are gone, and with it what was changed
\* in it.
LEMMA StoreRemoves ==
    ASSUME TypeOK, Locked, StoreInv, NEW p \in Procs, RemoveDirectory(p)
    PROVE  StoreInv'
<1>i. PICK i \in Ids : i = job[p].id
  BY DEF RemoveDirectory, StoreInv, UnderWay, Working, Owning, Filling
<1>1. /\ epc[p] = "remove" /\ UNCHANGED reported /\ Leave(p) /\ snap[i].meta = NoMeta
      /\ tampered' = tampered \ {i} /\ withdrawn' = withdrawn \ {i}
      /\ snap' = [snap EXCEPT ![i].dir = FALSE]
  BY <1>i DEF RemoveDirectory
<1>2. \A r \in reported : r.id # i
  BY <1>i, <1>1 DEF StoreInv, UnderWay, Working, Owning
<1>3. (\A j \in Ids \ {i} : snap'[j] = snap[j]) /\ snap'[i].meta = snap[i].meta
  BY <1>1, EntryEffects, Zenon
<1>4. ~Readable(i)'
  BY <1>1, <1>3 DEF Readable, NoMeta, Absent
<1>5. Housed' /\ SnapshotsAreWhole' /\ Kept' /\ Distinct'
  BY <1>1, <1>2, <1>3, <1>4, OwnDirectory
<1>6. epc'[p] = "idle" /\ \A q \in Procs \ {p} : epc'[q] \notin Capturing
  BY <1>1, LeaveEffects, MoverOnly DEF Capturing
<1>7. UnderWay' /\ NoTwin'
  BY <1>6, CaptureFrame DEF Working, Owning, Capturing, Filling
<1> QED BY <1>5, <1>7 DEF StoreInv

\* A file goes: without its metadata nothing is readable, and without its raw bytes
\* what is still readable is a snapshot that was withdrawn.
LEMMA StoreUnlinks ==
    ASSUME TypeOK, Locked, StoreInv, NEW p \in Procs, RemoveFile(p)
    PROVE  StoreInv'
<1>i. PICK i \in Ids : i = job[p].id
  BY DEF RemoveFile, StoreInv, UnderWay, Working, Owning, Filling
<1>1. /\ epc[p] = "remove" /\ UNCHANGED <<epc, job, tampered, reported, withdrawn>>
      /\ \/ snap' = [snap EXCEPT ![i].raw = Absent] \/ snap' = [snap EXCEPT ![i].meta = NoMeta]
  BY <1>i DEF RemoveFile, envVars, histVars
<1>2. Working(p)
  BY DEF StoreInv, UnderWay
<1>3. /\ job[p].file \in Files /\ snap[i].dir /\ \A r \in reported : r.id # i
      /\ Readable(i) => i \in withdrawn
  BY <1>i, <1>1, <1>2 DEF Working, Owning, Capturing
<1>4. /\ \A j \in Ids \ {i} : snap'[j] = snap[j]
      /\ snap'[i].dir = snap[i].dir
      /\ \/ snap'[i].raw = Absent /\ snap'[i].meta = snap[i].meta
         \/ snap'[i].meta = NoMeta
  BY <1>1, EntryEffects, Zenon
<1>5. /\ \A j \in Ids \ {i} : Readable(j)' <=> Readable(j)
      /\ Readable(i)' => Readable(i) /\ snap'[i].raw = Absent /\ snap'[i].meta = snap[i].meta
  BY <1>4 DEF Readable, NoMeta, Absent
<1>6. Housed' /\ Distinct'
  <2>1. \A j \in Ids : /\ snap'[j].dir = snap[j].dir
                       /\ Readable(j)' => Readable(j) /\ snap'[j].meta = snap[j].meta
    BY <1>4, <1>5
  <2>2. tampered' = tampered
    BY <1>1
  <2> QED BY <2>1, <2>2 DEF StoreInv, Housed, Distinct
<1>7. SnapshotsAreWhole'
  BY <1>1, <1>3, <1>4, <1>5 DEF StoreInv, SnapshotsAreWhole, Whole
<1>8. Kept'
  BY <1>1, <1>3, <1>4, <1>5 DEF StoreInv, Kept
<1>9. \A q \in Procs \ {p} : epc'[q] \notin Capturing
  BY <1>1, MoverOnly DEF Capturing
<1>10. Working(p)'
  BY <1>i, <1>1, <1>3, <1>4, <1>5 DEF Working, Owning, Filling
<1>11. UnderWay' /\ NoTwin'
  BY <1>1, <1>9, <1>10, CaptureFrame DEF Filling
<1> QED BY <1>6, <1>7, <1>8, <1>11 DEF StoreInv

\* Verification reads, and what is not of a capture leaves the snapshots alone.
LEMMA StoreRest ==
    ASSUME TypeOK, StoreInv, NEW p \in Procs,
           \/ \E c \in Claims : StartApprove(p, c) \/ StartValidate(p, c)
           \/ VerifyMeta(p) \/ VerifyRaw(p) \/ Approve(p) \/ Accept(p) \/ Die(p) \/ RemoveFails(p)
    PROVE  StoreInv'
<1>1. CASE Quit(p)
  BY <1>1, StoreQuit
<1>2. CASE Approve(p) \/ Accept(p)
  BY <1>1, <1>2, StoreLeave DEF Approve, Accept, storeVars, envVars
<1>3. CASE Die(p) \/ RemoveFails(p)
  BY <1>1, <1>3 DEF Die, RemoveFails
<1>4. ASSUME ~Quit(p), VerifyMeta(p) \/ VerifyRaw(p) PROVE StoreInv'
  <2>1. UNCHANGED <<snap, tampered, reported, withdrawn>>
    BY <1>4 DEF VerifyMeta, VerifyRaw, storeVars, envVars, histVars
  <2>2. Goto(p, "verify") \/ Goto(p, "verifyraw")
    BY <1>4, Zenon DEF VerifyMeta, VerifyRaw
  <2>3. \A q \in Procs \ {p} : job'[q] = job[q]
    <3>1. CASE VerifyMeta(p)
      BY <1>4, <3>1, Typed DEF VerifyMeta
    <3>2. CASE VerifyRaw(p)
      <4>1. job' = [job EXCEPT
                 ![p].digests[First(job[p].todo)] = job[p].meta,
                 ![p].raws[First(job[p].todo)] = snap[First(job[p].todo)].raw,
                 ![p].todo = @ \ {First(job[p].todo)}, ![p].meta = NoMeta]
        BY <1>4, <3>2, Zenon DEF VerifyRaw
      <4> QED BY <4>1, Typed
    <3> QED BY <1>4, <3>1, <3>2
  <2>4. epc'[p] \notin Capturing /\ \A q \in Procs \ {p} : epc'[q] = epc[q]
    BY <2>2, MoveEffects DEF Capturing, Filling
  <2> QED BY <2>1, <2>3, <2>4, StoreFrame
<1>5. ASSUME NEW c \in Claims, StartApprove(p, c) \/ StartValidate(p, c) PROVE StoreInv'
  <2>1. UNCHANGED <<snap, tampered, reported, withdrawn>> /\ Goto(p, "verify")
    BY <1>5, Zenon DEF StartApprove, StartValidate, Begin, storeVars, envVars, histVars
  <2>2. \A q \in Procs \ {p} : job'[q] = job[q]
    <3>1. job' = [job EXCEPT ![p] = [NoJob EXCEPT !.claim = c, !.todo = claim[c].cites]]
      BY <1>5, Zenon DEF StartApprove, StartValidate, Begin
    <3> QED BY <3>1, Typed
  <2>3. epc'[p] \notin Capturing /\ \A q \in Procs \ {p} : epc'[q] = epc[q]
    BY <2>1, MoveEffects DEF Capturing, Filling
  <2> QED BY <2>1, <2>2, <2>3, StoreFrame
<1> QED BY <1>1, <1>2, <1>3, <1>4, <1>5

LEMMA StoreUntouched ==
    ASSUME StoreInv, UNCHANGED <<snap, epc, job, tampered, reported, withdrawn>>
    PROVE  StoreInv'
<1>1. \A i : Readable(i)' <=> Readable(i)
  BY DEF Readable
<1>2. Housed' /\ SnapshotsAreWhole' /\ Distinct'
  BY <1>1 DEF StoreInv, Housed, SnapshotsAreWhole, Whole, Distinct
<1>3. Kept' /\ NoTwin'
  BY <1>1 DEF StoreInv, Kept, NoTwin
<1>4. UnderWay'
  BY <1>1 DEF StoreInv, UnderWay, Working, Readable
<1> QED BY <1>2, <1>3, <1>4 DEF StoreInv

LEMMA StoreTampered ==
    ASSUME TypeOK, StoreInv, NEW i \in Ids, NEW entry \in Tampering(i), Tamper(i, entry)
    PROVE  StoreInv'
<1>1. /\ tampered' = tampered \cup {i} /\ i \notin tampered /\ Readable(i)
      /\ UNCHANGED <<epc, job, reported, withdrawn>> /\ snap' = [snap EXCEPT ![i] = entry]
  BY DEF Tamper, histVars
<1>2. snap[i].dir /\ entry.dir
  <2>1. snap[i].dir /\ snap[i] \in Entry /\ snap[i].meta \in Meta
    BY <1>1, Typed DEF StoreInv, Housed, Entry
  <2>2. ASSUME NEW bytes \in Contents \cup {Absent}, entry = [snap[i] EXCEPT !.raw = bytes]
        PROVE  entry.dir
    BY <2>1, <2>2 DEF Entry
  <2>3. ASSUME NEW bytes \in Contents,
               entry = [snap[i] EXCEPT !.raw = bytes, !.meta.sha = bytes,
                                       !.meta.form = "edited"]
        PROVE  entry.dir
    BY <2>1, <2>3 DEF Entry
  <2>4. ASSUME NEW o \in Origins, entry = [snap[i] EXCEPT !.meta.origin = o, !.meta.form = "edited"]
        PROVE  entry.dir
    BY <2>1, <2>4 DEF Entry
  <2>5. ASSUME entry = [snap[i] EXCEPT !.meta = NoMeta] PROVE entry.dir
    BY <2>1, <2>5 DEF Entry
  <2>6. \/ \E bytes \in Contents \cup {Absent} : entry = [snap[i] EXCEPT !.raw = bytes]
        \/ \E bytes \in Contents :
              entry = [snap[i] EXCEPT !.raw = bytes, !.meta.sha = bytes, !.meta.form = "edited"]
        \/ \E o \in Origins : entry = [snap[i] EXCEPT !.meta.origin = o, !.meta.form = "edited"]
        \/ entry = [snap[i] EXCEPT !.meta = NoMeta]
    BY Zenon DEF Tampering
  <2> QED BY <2>1, <2>2, <2>3, <2>4, <2>5, <2>6, Zenon
<1>3. (\A j \in Ids \ {i} : snap'[j] = snap[j]) /\ snap'[i].dir
  BY <1>1, <1>2, Typed
<1>4. \A j \in Ids \ {i} : Readable(j)' <=> Readable(j)
  BY <1>3 DEF Readable
<1>5. Housed' /\ SnapshotsAreWhole' /\ Distinct'
  BY <1>1, <1>3, <1>4 DEF StoreInv, Housed, SnapshotsAreWhole, Whole, Distinct
<1>6. Kept'
  BY <1>1, <1>3, <1>4 DEF StoreInv, Kept
<1>7. NoTwin'
  BY <1>1, <1>3, <1>4 DEF StoreInv, NoTwin
<1>8. UnderWay'
  <2> SUFFICES ASSUME NEW p \in Procs PROVE Working(p)'
    BY DEF UnderWay
  <2>1. Working(p) /\ (epc[p] \in Filling => job[p].id # i)
    BY <1>1 DEF StoreInv, UnderWay, Working
  <2>2. CASE epc[p] \in Owning /\ job[p].id = i
    <3>1. epc[p] = "remove" => i \in withdrawn
      BY <1>1, <2>1, <2>2 DEF Working
    <3> QED BY <1>1, <1>3, <2>1, <2>2, <3>1 DEF Working, Owning, Filling
  <2>3. CASE epc[p] \in Owning /\ job[p].id # i
    <3>1. job[p].id \in Ids \ {i}
      BY <2>1, <2>3 DEF Working
    <3>2. Readable(job[p].id)' <=> Readable(job[p].id)
      BY <1>1, <1>3, <3>1 DEF Readable
    <3> QED BY <1>1, <1>3, <2>1, <3>1, <3>2 DEF Working, Readable
  <2>4. CASE epc[p] \notin Owning
    BY <1>1, <2>1, <2>4 DEF Working, Owning, Filling
  <2> QED BY <2>2, <2>3, <2>4
<1> QED BY <1>5, <1>6, <1>7, <1>8 DEF StoreInv

LEMMA StoreStep ==
    ASSUME TypeOK, Locked, StoreInv, [Next]_vars
    PROVE  StoreInv'
<1>1. CASE UNCHANGED vars
  BY <1>1, StoreUntouched DEF vars, storeVars, envVars, histVars
<1>2. ASSUME \/ \E f \in Files, bytes \in Contents \cup {Absent} : EditSource(f, bytes)
             \/ \E c \in Claims, cited \in SUBSET Ids : DraftClaim(c, cited)
      PROVE  StoreInv'
  <2>1. UNCHANGED <<snap, epc, job, tampered, reported, withdrawn>>
    BY <1>2, Zenon DEF EditSource, DraftClaim, storeVars, envVars, histVars
  <2> QED BY <2>1, StoreUntouched
<1> QED
  BY <1>1, <1>2, StoreStart, StoreLooks, StoreFails, StoreWrites, StoreCompletes, StoreReports,
     StoreRemoves, StoreUnlinks, StoreRest, StoreTampered DEF Next

-----------------------------------------------------------------------------
(* The claims *)

\* Approvals outlast everything but a change of the claim.
LEMMA BoundFrame ==
    ASSUME Bound, claim' = claim, witnessed \subseteq witnessed'
    PROVE  Bound'
BY DEF Bound, BoundTo

LEMMA ReadFrame ==
    ASSUME Read, claim' = claim, NEW q \in Procs, epc'[q] = epc[q], job'[q] = job[q],
           epc[q] \in Verifying => (holder' = q <=> holder = q)
    PROVE  epc'[q] \in Verifying => ReadBy(q)'
BY DEF Read, ReadBy, Cited

\* A step of p that is not within a verification afterwards and approves nothing.
LEMMA ClaimQuiet ==
    ASSUME ClaimInv, UNCHANGED <<claim, witnessed>>, NEW p \in Procs, epc'[p] \notin Verifying,
           \A q \in Procs \ {p} :
              /\ epc'[q] = epc[q] /\ job'[q] = job[q]
              /\ epc[q] \in Verifying => (holder' = q <=> holder = q)
    PROVE  ClaimInv'
<1>1. Bound'
  BY BoundFrame DEF ClaimInv
<1>2. AcceptedAsApproved'
  BY DEF ClaimInv, AcceptedAsApproved
<1>3. Read'
  <2>1. ASSUME NEW q \in Procs, epc'[q] \in Verifying PROVE ReadBy(q)'
    BY <2>1, ReadFrame DEF ClaimInv
  <2> QED BY <2>1 DEF Read
<1> QED BY <1>1, <1>2, <1>3 DEF ClaimInv

\* When p gives up the lock it held, nobody else was verifying.
LEMMA LeaveHolder ==
    ASSUME TypeOK, Locked, NEW p \in Procs, Leave(p)
    PROVE  \A q \in Procs \ {p} : epc[q] \in Verifying => (holder' = q <=> holder = q)
BY Alone, LabelsApart, EvidenceNobody DEF Leave

LEMMA ClaimLeave ==
    ASSUME TypeOK, Locked, ClaimInv, NEW p \in Procs, Leave(p), UNCHANGED <<claim, witnessed>>
    PROVE  ClaimInv'
BY LeaveEffects, LeaveHolder, LabelsApart, ClaimQuiet

LEMMA ClaimQuit ==
    ASSUME TypeOK, Locked, ClaimInv, NEW p \in Procs, Quit(p)
    PROVE  ClaimInv'
BY ClaimLeave DEF Quit, storeVars, histVars

LEMMA ClaimCapture ==
    ASSUME TypeOK, Locked, ClaimInv, NEW p \in Procs,
           \/ HashSource(p) \/ ReturnExisting(p) \/ OpenSource(p)
           \/ \E i \in Ids : MakeDirectory(p, i)
           \/ CreateRaw(p) \/ CopyRaw(p) \/ CreateMeta(p) \/ WriteMeta(p) \/ Created(p)
           \/ CaptureFails(p) \/ RemoveFile(p) \/ RemoveDirectory(p) \/ RemoveFails(p)
    PROVE  ClaimInv'
<1>1. CASE Quit(p)
  BY <1>1, ClaimQuit
<1>2. CASE ReturnExisting(p) \/ Created(p) \/ RemoveDirectory(p)
  BY <1>2, ClaimLeave DEF ReturnExisting, Created, RemoveDirectory, storeVars, histVars
<1>3. ASSUME ~Quit(p),
             \/ HashSource(p) \/ OpenSource(p) \/ \E i \in Ids : MakeDirectory(p, i)
             \/ CreateRaw(p) \/ CopyRaw(p) \/ CreateMeta(p) \/ WriteMeta(p) \/ CaptureFails(p)
             \/ RemoveFile(p)
      PROVE  ClaimInv'
  <2>1. UNCHANGED <<claim, witnessed, holder>>
    BY <1>3 DEF HashSource, OpenSource, MakeDirectory, CreateRaw, CopyRaw, CreateMeta, WriteMeta,
       CaptureFails, RemoveFile, storeVars, histVars
  <2>2. \A q \in Procs \ {p} : job'[q] = job[q]
    BY <1>3, Typed DEF HashSource, OpenSource, MakeDirectory, CreateRaw, CopyRaw, CreateMeta,
       WriteMeta, CaptureFails, RemoveFile
  <2>3. epc[p] \in Capturing
    BY <1>3 DEF HashSource, OpenSource, MakeDirectory, CreateRaw, CopyRaw, CreateMeta,
       WriteMeta, CaptureFails, RemoveFile, Capturing, Filling
  <2>4. epc' = epc \/ \E label \in Capturing : Goto(p, label)
    BY <1>3 DEF HashSource, OpenSource, MakeDirectory, CreateRaw, CopyRaw, CreateMeta,
       WriteMeta, CaptureFails, RemoveFile, Capturing, Filling
  <2>5. epc'[p] \notin Verifying /\ \A q \in Procs \ {p} : epc'[q] = epc[q]
    BY <2>3, <2>4, MoveEffects, LabelsApart
  <2> QED BY <2>1, <2>2, <2>5, ClaimQuiet
<1>4. CASE RemoveFails(p)
  BY <1>1, <1>4 DEF RemoveFails
<1> QED BY <1>1, <1>2, <1>3, <1>4

LEMMA ClaimStart ==
    ASSUME TypeOK, Locked, ClaimInv, NEW p \in Procs, NEW f \in Files, NEW arg \in Arguments,
           StartCapture(p, f, arg)
    PROVE  ClaimInv'
<1>1. /\ UNCHANGED <<claim, witnessed>> /\ Goto(p, "hash") /\ holder = Nobody /\ sharers = {}
      /\ holder' = p
      /\ job' = [job EXCEPT ![p] = [NoJob EXCEPT !.file = f, !.origin = arg.origin,
                                                 !.media = arg.media]]
  BY Zenon DEF StartCapture, storeVars, histVars
<1>2. \A q \in Procs \ {p} : epc'[q] = epc[q] /\ job'[q] = job[q] /\ epc[q] \notin Verifying
  BY <1>1, AllIdle, MoveEffects, LabelsApart, Typed
<1>3. epc'[p] \notin Verifying
  BY <1>1, MoveEffects DEF Verifying
<1> QED BY <1>1, <1>2, <1>3, ClaimQuiet

\* A verification that begins has read nothing.
LEMMA ClaimBegin ==
    ASSUME TypeOK, Locked, ClaimInv, NEW p \in Procs, NEW c \in Claims,
           StartApprove(p, c) \/ StartValidate(p, c)
    PROVE  ClaimInv'
<1>1. /\ UNCHANGED <<claim, witnessed>> /\ Goto(p, "verify") /\ holder = Nobody
      /\ job' = [job EXCEPT ![p] = [NoJob EXCEPT !.claim = c, !.todo = claim[c].cites]]
  BY Zenon DEF StartApprove, StartValidate, Begin, storeVars, histVars
<1>2. /\ job'[p].claim = c /\ job'[p].todo = claim[c].cites
      /\ \A i \in Ids : job'[p].raws[i] = Absent
  <2>1. job'[p] = [NoJob EXCEPT !.claim = c, !.todo = claim[c].cites]
    BY <1>1, Typed
  <2> QED BY <2>1 DEF NoJob
<1>3. claim[c].st = IF holder' = p THEN "draft" ELSE "approved"
  BY EvidenceNobody DEF StartApprove, StartValidate
<1>4. ReadBy(p)'
  <2>1. claim'[job'[p].claim] = claim[c] /\ epc'[p] = "verify"
    BY <1>1, <1>2, MoveEffects
  <2> QED BY <1>2, <1>3, <2>1 DEF ReadBy, Cited
<1>5. \A q \in Procs \ {p} : epc'[q] = epc[q] /\ job'[q] = job[q]
  BY <1>1, MoveEffects, Typed
<1>6. \A q \in Procs \ {p} : epc[q] \in Verifying => (holder' = q <=> holder = q)
  BY <1>1, AllIdle, LabelsApart DEF StartApprove, StartValidate
<1>7. Read'
  <2>1. ASSUME NEW q \in Procs \ {p}, epc'[q] \in Verifying PROVE ReadBy(q)'
    BY <1>1, <1>5, <1>6, <2>1, ReadFrame DEF ClaimInv
  <2> QED BY <1>4, <2>1 DEF Read
<1> QED BY <1>1, <1>7, BoundFrame DEF ClaimInv, AcceptedAsApproved

LEMMA ClaimVerifies ==
    ASSUME TypeOK, Locked, ClaimInv, NEW p \in Procs, VerifyMeta(p) \/ VerifyRaw(p)
    PROVE  ClaimInv'
<1> USE Typed
<1>1. CASE Quit(p)
  BY <1>1, ClaimQuit
<1>2. CASE ~Quit(p)
  <2>1. UNCHANGED <<claim, witnessed, holder>> /\ epc[p] \in Verifying
    BY <1>2 DEF VerifyMeta, VerifyRaw, storeVars, histVars, Verifying
  <2>2. ReadBy(p)
    BY <2>1 DEF ClaimInv, Read
  <2>3. CASE VerifyMeta(p)
    <3>1. /\ job' = [job EXCEPT ![p].meta = snap[First(job[p].todo)].meta]
          /\ Goto(p, "verifyraw") /\ job[p].todo # {}
      BY <1>2, <2>3, Zenon DEF VerifyMeta
    <3>2. /\ \A q \in Procs \ {p} : job'[q] = job[q]
          /\ job'[p].claim = job[p].claim /\ job'[p].todo = job[p].todo
          /\ job'[p].raws = job[p].raws /\ job'[p].digests = job[p].digests
      BY <3>1 DEF Job
    <3>3. ReadBy(p)'
      BY <2>1, <2>2, <3>1, <3>2 DEF ReadBy, Cited
    <3>4. \A q \in Procs \ {p} : epc'[q] = epc[q]
      BY <3>1, MoveEffects
    <3>5. Read'
      <4>1. ASSUME NEW q \in Procs \ {p}, epc'[q] \in Verifying PROVE ReadBy(q)'
        BY <2>1, <3>2, <3>4, <4>1, ReadFrame DEF ClaimInv
      <4> QED BY <3>3, <4>1 DEF Read
    <3> QED BY <2>1, <3>5, BoundFrame DEF ClaimInv, AcceptedAsApproved
  <2>4. CASE VerifyRaw(p)
    <3>1. job[p].todo # {} /\ job[p].todo \in SUBSET Ids
      BY <2>2, <2>4 DEF VerifyRaw, ReadBy, Job
    <3>2. PICK i \in job[p].todo : i = First(job[p].todo)
      BY <3>1, FirstIsMember
    <3>3. /\ job' = [job EXCEPT ![p].digests[i] = job[p].meta, ![p].raws[i] = snap[i].raw,
                                ![p].todo = @ \ {i}, ![p].meta = NoMeta]
          /\ snap[i].raw = job[p].meta.sha /\ Goto(p, "verify")
      BY <1>2, <2>4, <3>2, Zenon DEF VerifyRaw
    <3>4. snap[i].raw \in Contents \cup {Absent} /\ i \in Ids
      BY <3>1, <3>2, <3>3 DEF Job, Meta
    <3>5. /\ \A q \in Procs \ {p} : job'[q] = job[q]
          /\ job'[p] = [job[p] EXCEPT !.digests = [job[p].digests EXCEPT ![i] = job[p].meta],
                                      !.raws = [job[p].raws EXCEPT ![i] = snap[i].raw],
                                      !.todo = job[p].todo \ {i}, !.meta = NoMeta]
      BY <3>3, <3>4, ReadJob, Zenon
    <3>6. /\ job'[p].claim = job[p].claim /\ job'[p].todo = job[p].todo \ {i}
          /\ job'[p].raws = [job[p].raws EXCEPT ![i] = snap[i].raw]
          /\ job'[p].digests = [job[p].digests EXCEPT ![i] = job[p].meta]
      BY <3>5 DEF Job
    <3>7. epc'[p] = "verify" /\ \A q \in Procs \ {p} : epc'[q] = epc[q]
      BY <3>3, MoveEffects
    <3>8. ReadBy(p)'
      <4>1. \A j \in Ids : job'[p].raws[j] =
               IF j \in Cited(p) \ job'[p].todo THEN job'[p].digests[j].sha ELSE Absent
        <5>1. job[p].raws \in [Ids -> Contents \cup {Absent}] /\ job[p].digests \in [Ids -> Meta]
          BY DEF Job
        <5>2. i \in Cited(p)
          BY <2>2, <3>2 DEF ReadBy
        <5>3. \A j \in Ids : job[p].raws[j] =
                 IF j \in Cited(p) \ job[p].todo THEN job[p].digests[j].sha ELSE Absent
          BY <2>2, Zenon DEF ReadBy
        <5>4. job'[p].raws[i] = job[p].meta.sha /\ job'[p].digests[i] = job[p].meta
          BY <3>3, <3>4, <3>6, <5>1
        <5>5. \A j \in Ids \ {i} : /\ job'[p].raws[j] = job[p].raws[j]
                                  /\ job'[p].digests[j] = job[p].digests[j]
          BY <3>6, <5>1
        <5> QED BY <3>2, <3>6, <5>2, <5>3, <5>4, <5>5
      <4>2. Cited(p)' = Cited(p)
        BY <2>1, <3>6 DEF Cited
      <4> QED BY <2>1, <2>2, <3>6, <3>7, <4>1, <4>2 DEF ReadBy
    <3>9. Read'
      <4>1. ASSUME NEW q \in Procs \ {p}, epc'[q] \in Verifying PROVE ReadBy(q)'
        BY <2>1, <3>5, <3>7, <4>1, ReadFrame DEF ClaimInv
      <4> QED BY <3>8, <4>1 DEF Read
    <3> QED BY <2>1, <3>9, BoundFrame DEF ClaimInv, AcceptedAsApproved
  <2> QED BY <2>3, <2>4
<1> QED BY <1>1, <1>2

\* The approval binds what was read.
LEMMA ClaimApproved ==
    ASSUME TypeOK, Locked, ClaimInv, NEW p \in Procs, Approve(p)
    PROVE  ClaimInv'
<1> USE Typed
<1>1. CASE Quit(p)
  BY <1>1, ClaimQuit
<1>2. CASE ~Quit(p)
  <2>c. PICK c \in Claims : c = job[p].claim
    BY DEF Approve, Verified, ClaimInv, Read, ReadBy, Verifying
  <2> DEFINE bound == [i \in Ids |-> IF i \in Cited(p)
                                     THEN [digest |-> job[p].digests[i],
                                           title  |-> snap[i].meta.origin]
                                     ELSE NoSource]
             seen == [claim |-> c, kind |-> "approve", raws |-> job[p].raws]
  <2>1. /\ claim' = [claim EXCEPT ![c].st = "approved", ![c].sources = bound]
        /\ witnessed' = witnessed \cup {seen} /\ Leave(p) /\ holder = p
        /\ epc[p] = "verify" /\ job[p].todo = {}
    BY <1>2, <2>c DEF Approve, Witness, Verified
  <2>2. ReadBy(p)
    BY <2>1 DEF ClaimInv, Read, Verifying
  <2>4. /\ \A d \in Claims \ {c} : claim'[d] = claim[d]
        /\ claim'[c].cites = claim[c].cites /\ claim'[c].sources = bound
    BY <2>1 DEF ClaimRec
  <2>5. Read'
    <3>1. epc'[p] = "idle" /\ \A q \in Procs \ {p} : epc'[q] = "idle"
      BY <2>1, LeaveEffects, Alone
    <3> QED BY <3>1, LabelsApart DEF Read
  <2>6. \A i \in Ids : BoundTo(c, i)' = job[p].raws[i]
    <3>1. ASSUME NEW i \in Ids, i \in Cited(p) PROVE BoundTo(c, i)' = job[p].raws[i]
      <4>1. job[p].raws[i] = job[p].digests[i].sha
        BY <2>1, <2>2, <3>1 DEF ReadBy
      <4>2. claim'[c].sources[i].digest = job[p].digests[i] /\ i \in claim'[c].cites
        BY <2>c, <2>4, <3>1 DEF Cited
      <4> QED BY <4>1, <4>2 DEF BoundTo
    <3>2. ASSUME NEW i \in Ids, i \notin Cited(p) PROVE BoundTo(c, i)' = job[p].raws[i]
      <4>1. job[p].raws[i] = Absent
        BY <2>2, <3>2 DEF ReadBy
      <4> QED BY <2>c, <2>4, <3>2, <4>1 DEF BoundTo, Cited
    <3> QED BY <3>1, <3>2
  <2>7. Bound'
    <3> SUFFICES ASSUME NEW d \in Claims, claim'[d].st = "approved"
                 PROVE  \E a \in witnessed' : /\ a.kind = "approve" /\ a.claim = d
                                              /\ a.raws = [i \in Ids |-> BoundTo(d, i)']
      BY DEF Bound
    <3>1. CASE d = c
      <4>1. seen.raws = [i \in Ids |-> BoundTo(d, i)']
        BY <2>6, <3>1 DEF Job
      <4> QED BY <2>1, <3>1, <4>1
    <3>2. CASE d # c
      <4>0. claim'[d] = claim[d]
        BY <2>4, <3>2
      <4>1. [i \in Ids |-> BoundTo(d, i)'] = [i \in Ids |-> BoundTo(d, i)]
        BY <4>0 DEF BoundTo
      <4>2. PICK a \in witnessed : /\ a.kind = "approve" /\ a.claim = d
                                   /\ a.raws = [i \in Ids |-> BoundTo(d, i)]
        BY <4>0 DEF ClaimInv, Bound
      <4> QED BY <2>1, <4>1, <4>2
    <3> QED BY <3>1, <3>2
  <2>8. AcceptedAsApproved'
    BY <2>1 DEF ClaimInv, AcceptedAsApproved
  <2> QED BY <2>5, <2>7, <2>8 DEF ClaimInv
<1> QED BY <1>1, <1>2

\* The validation accepts what matches the approval.
LEMMA ClaimAccepted ==
    ASSUME TypeOK, Locked, ClaimInv, NEW p \in Procs, Accept(p)
    PROVE  ClaimInv'
<1> USE Typed
<1>1. UNCHANGED claim /\ Leave(p) /\ p \in sharers /\ epc[p] = "verify" /\ job[p].todo = {}
  BY DEF Accept, Verified, storeVars
<1>2. CASE UNCHANGED witnessed
  BY <1>1, <1>2, ClaimLeave
<1>3. CASE witnessed' # witnessed
  <2> DEFINE c == job[p].claim
             seen == [claim |-> c, kind |-> "validate", raws |-> job[p].raws]
  <2>1. witnessed' = witnessed \cup {seen} /\ \A i \in Cited(p) : Matches(p, i)
    BY <1>3 DEF Accept, Witness
  <2>2. ReadBy(p)
    BY <1>1 DEF ClaimInv, Read, Verifying
  <2>3. c \in Claims /\ claim[c].st = "approved"
    BY <1>1, <2>2, EvidenceNobody DEF ReadBy, TypeOK
  <2>4. PICK a \in witnessed : /\ a.kind = "approve" /\ a.claim = c
                               /\ a.raws = [i \in Ids |-> BoundTo(c, i)]
    BY <2>3 DEF ClaimInv, Bound
  <2>5. \A i \in Ids : BoundTo(c, i) = job[p].raws[i]
    <3>1. ASSUME NEW i \in Ids, i \in Cited(p) PROVE BoundTo(c, i) = job[p].raws[i]
      BY <1>1, <2>1, <2>2, <3>1 DEF ReadBy, Matches, BoundTo, Cited
    <3>2. ASSUME NEW i \in Ids, i \notin Cited(p) PROVE BoundTo(c, i) = job[p].raws[i]
      BY <2>2, <3>2 DEF ReadBy, BoundTo, Cited
    <3> QED BY <3>1, <3>2
  <2>6. a.raws = job[p].raws
    BY <2>4, <2>5 DEF Job
  <2>7. AcceptedAsApproved'
    BY <2>1, <2>4, <2>6 DEF ClaimInv, AcceptedAsApproved
  <2>8. Read'
    <3>1. ASSUME NEW q \in Procs, epc'[q] \in Verifying PROVE ReadBy(q)'
      <4>1. q # p /\ epc'[q] = epc[q] /\ job'[q] = job[q]
        BY <1>1, <3>1, LeaveEffects, LabelsApart
      <4> QED BY <1>1, <3>1, <4>1, LeaveHolder, ReadFrame DEF ClaimInv
    <3> QED BY <3>1 DEF Read
  <2>9. Bound'
    BY <1>1, <2>1, BoundFrame DEF ClaimInv
  <2> QED BY <2>7, <2>8, <2>9 DEF ClaimInv
<1> QED BY <1>2, <1>3

\* A draft is written while nobody is verifying, over no approved claim.
LEMMA ClaimDrafted ==
    ASSUME TypeOK, Locked, ClaimInv, NEW c \in Claims, NEW cited \in SUBSET Ids,
           DraftClaim(c, cited)
    PROVE  ClaimInv'
<1>1. /\ UNCHANGED <<holder, sharers, epc, job, witnessed>> /\ holder = Nobody /\ sharers = {}
      /\ claim' = [claim EXCEPT ![c] = [NoClaim EXCEPT !.st = "draft", !.cites = cited]]
  BY Zenon DEF DraftClaim, histVars
<1>2. Read'
  BY <1>1, AllIdle, LabelsApart DEF Read
<1>3. Bound'
  <2> SUFFICES ASSUME NEW d \in Claims, claim'[d].st = "approved"
               PROVE  \E a \in witnessed' : /\ a.kind = "approve" /\ a.claim = d
                                            /\ a.raws = [i \in Ids |-> BoundTo(d, i)']
    BY DEF Bound
  <2>1. d # c
    BY <1>1, Typed DEF NoClaim
  <2>2. claim'[d] = claim[d]
    BY <1>1, <2>1, Typed
  <2>3. [i \in Ids |-> BoundTo(d, i)'] = [i \in Ids |-> BoundTo(d, i)]
    BY <2>2 DEF BoundTo
  <2> QED BY <1>1, <2>2, <2>3 DEF ClaimInv, Bound
<1>4. AcceptedAsApproved'
  BY <1>1 DEF ClaimInv, AcceptedAsApproved
<1> QED BY <1>2, <1>3, <1>4 DEF ClaimInv

LEMMA ClaimUntouched ==
    ASSUME ClaimInv, UNCHANGED <<claim, witnessed, holder, epc, job>>
    PROVE  ClaimInv'
<1>1. Read'
  BY DEF ClaimInv, Read, ReadBy, Cited
<1> QED BY <1>1, BoundFrame DEF ClaimInv, AcceptedAsApproved

LEMMA ClaimStep ==
    ASSUME TypeOK, Locked, ClaimInv, [Next]_vars
    PROVE  ClaimInv'
<1>1. CASE UNCHANGED vars
  BY <1>1, ClaimUntouched DEF vars, storeVars, histVars
<1>2. ASSUME \/ \E f \in Files, bytes \in Contents \cup {Absent} : EditSource(f, bytes)
             \/ \E i \in Ids : \E entry \in Tampering(i) : Tamper(i, entry)
      PROVE  ClaimInv'
  <2>1. UNCHANGED <<claim, witnessed, holder, epc, job>>
    BY <1>2, Zenon DEF EditSource, Tamper, storeVars, histVars
  <2> QED BY <2>1, ClaimUntouched
<1>3. ASSUME NEW p \in Procs, Die(p) PROVE ClaimInv'
  BY <1>3, ClaimQuit DEF Die
<1> QED
  BY <1>1, <1>2, <1>3, ClaimStart, ClaimCapture, ClaimBegin, ClaimVerifies, ClaimApproved,
     ClaimAccepted, ClaimDrafted DEF Next

-----------------------------------------------------------------------------
(* The theorems *)

LEMMA Invariance == Spec => []IInv
<1>1. Init => IInv
  BY InitInv
<1>2. IInv /\ [Next]_vars => IInv'
  BY TypeStep, LockStep, StoreStep, ClaimStep DEF IInv, StoreInv, ClaimInv
<1> QED BY <1>1, <1>2, PTL DEF Spec

\* Every state is of its type, and nobody shares the lock while somebody holds it
\* (evidence.rs, coordination.rs).
THEOREM TypeTheorem == Spec => []TypeOK
<1>1. IInv => TypeOK
  BY DEF IInv
<1> QED BY <1>1, Invariance, PTL

\* A snapshot that can be read is whole, however many captures die or fail and
\* however often the sources are edited; one whose capture failed after its metadata
\* was complete may have lost all of its raw bytes, never a part of them (add_file,
\* write_snapshot).
THEOREM WholeTheorem == Spec => []SnapshotsAreWhole
<1>1. IInv => SnapshotsAreWhole
  BY DEF IInv, StoreInv
<1> QED BY <1>1, Invariance, PTL

\* What a capture reported stays as it was reported: its digest and its media type,
\* and its bytes unless the capture that wrote them had failed (add_file,
\* verify_uncached).
THEOREM KeptTheorem == Spec => []CapturedIsKept
<1>1. IInv => CapturedIsKept
  BY DEF IInv, StoreInv, Kept, CapturedIsKept, SnapshotsAreWhole, Readable, MetaValid
<1> QED BY <1>1, Invariance, PTL

\* One content has one snapshot (add_file, lookup_evidence_by_sha256).
THEOREM OnceTheorem == Spec => []OneSnapshotPerContent
<1>1. IInv => OneSnapshotPerContent
  <2> SUFFICES ASSUME IInv, NEW ids \in Lint.duplicates PROVE Cardinality(ids \ tampered) <= 1
    BY DEF OneSnapshotPerContent
  <2>1. PICK sha \in Contents : ids = WithSha(sha)
    BY DEF Lint
  <2>2. /\ ids \subseteq Ids
        /\ \A i \in ids : Readable(i) /\ snap[i].meta.sha = sha
    BY <2>1 DEF WithSha, Listed
  <2>3. \A i, j \in ids \ tampered : i = j
    BY <2>2 DEF IInv, StoreInv, Distinct
  <2>4. CASE ids \ tampered = {}
    BY <2>4, FS_EmptySet
  <2>5. CASE ids \ tampered # {}
    <3>1. PICK i : ids \ tampered = {i}
      BY <2>3, <2>5
    <3>2. Cardinality(ids \ tampered) = 1
      BY <3>1, FS_Singleton, Zenon
    <3> QED BY <3>2
  <2> QED BY <2>4, <2>5
<1> QED BY <1>1, Invariance, PTL

Unlinks(p) == RemoveFile(p) \/ RemoveDirectory(p)

Tampers == \E n \in Ids : \E entry \in Tampering(n) : Tamper(n, entry)

\* A complete snapshot is changed by tampering, and by the capture that withdraws it.
LEMMA CompleteKept ==
    ASSUME IInv, [Next]_vars, NEW i \in Ids, Readable(i), ~Tampers,
           \A p \in Procs : Unlinks(p) => job[p].id # i
    PROVE  snap'[i] = snap[i]
<1> USE DEF IInv
<1>1. CASE snap' = snap
  BY <1>1
<1>2. ASSUME NEW p \in Procs, NEW n \in Ids, MakeDirectory(p, n) PROVE snap'[i] = snap[i]
  <2>1. CASE snap[n].dir
    BY <1>2, <2>1 DEF MakeDirectory, Quit, storeVars
  <2>2. CASE ~snap[n].dir
    <3>1. snap' = [snap EXCEPT ![n].dir = TRUE] /\ i # n
      BY <1>2, <2>2 DEF MakeDirectory, StoreInv, Housed
    <3> QED BY <3>1, EntryEffects
  <2> QED BY <2>1, <2>2
<1>3. ASSUME NEW p \in Procs,
             \/ CreateRaw(p) \/ CopyRaw(p) \/ CreateMeta(p) \/ WriteMeta(p)
             \/ RemoveFile(p) \/ RemoveDirectory(p)
      PROVE  snap'[i] = snap[i]
  <2>1. epc[p] \in Filling \/ (epc[p] = "remove" /\ Unlinks(p))
    BY <1>3 DEF CreateRaw, CopyRaw, CreateMeta, WriteMeta, Unlinks, RemoveFile, RemoveDirectory,
       Filling
  <2>2. PICK n \in Ids : n = job[p].id
    BY <2>1 DEF StoreInv, UnderWay, Working, Owning
  <2>3. n # i
    BY <2>1, <2>2 DEF StoreInv, UnderWay, Working
  <2>4. \/ snap' = snap \/ \E b : snap' = [snap EXCEPT ![n].raw = b]
        \/ \E e : snap' = [snap EXCEPT ![n].meta = e]
        \/ snap' = [snap EXCEPT ![n].meta.st = Partial]
        \/ snap' = [snap EXCEPT ![n].dir = FALSE]
    <3>1. CASE CreateRaw(p)
      <4>1. CASE snap[n].raw # Absent
        BY <2>2, <3>1, <4>1 DEF CreateRaw
      <4>2. CASE snap[n].raw = Absent
        BY <2>2, <3>1, <4>2, Zenon DEF CreateRaw
      <4> QED BY <4>1, <4>2
    <3>2. CASE CopyRaw(p)
      BY <2>2, <3>2, Zenon DEF CopyRaw
    <3>3. CASE CreateMeta(p)
      BY <2>2, <3>3, Zenon DEF CreateMeta
    <3>4. CASE WriteMeta(p)
      BY <2>2, <3>4, Zenon DEF WriteMeta
    <3>5. CASE RemoveFile(p)
      BY <2>2, <3>5, Zenon DEF RemoveFile
    <3>6. CASE RemoveDirectory(p)
      BY <2>2, <3>6, Zenon DEF RemoveDirectory
    <3> QED BY <1>3, <3>1, <3>2, <3>3, <3>4, <3>5, <3>6
  <2>5. i \in Ids \ {n} /\ TypeOK
    BY <2>3
  <2>6. CASE snap' = snap
    BY <2>6
  <2>7. ASSUME NEW b, snap' = [snap EXCEPT ![n].raw = b] PROVE snap'[i] = snap[i]
    BY <2>5, <2>7, EntryEffects, Zenon
  <2>8. ASSUME NEW e, snap' = [snap EXCEPT ![n].meta = e] PROVE snap'[i] = snap[i]
    BY <2>5, <2>8, EntryEffects, Zenon
  <2>9. CASE snap' = [snap EXCEPT ![n].meta.st = Partial]
    BY <2>5, <2>9, EntryEffects, Zenon
  <2>10. CASE snap' = [snap EXCEPT ![n].dir = FALSE]
    BY <2>5, <2>10, EntryEffects, Zenon
  <2> QED BY <2>4, <2>6, <2>7, <2>8, <2>9, <2>10, Zenon
<1>4. ASSUME NEW n \in Ids, NEW entry \in Tampering(n), Tamper(n, entry) PROVE FALSE
  BY <1>4 DEF Tampers
<1>5. ASSUME NEW p \in Procs,
             \/ \E f \in Files, arg \in Arguments : StartCapture(p, f, arg)
             \/ HashSource(p) \/ ReturnExisting(p) \/ OpenSource(p) \/ Created(p)
             \/ CaptureFails(p) \/ RemoveFails(p) \/ VerifyMeta(p) \/ VerifyRaw(p)
             \/ Approve(p) \/ Accept(p) \/ Die(p)
      PROVE  snap' = snap
  BY <1>5, Zenon DEF StartCapture, HashSource, ReturnExisting, OpenSource, Created, CaptureFails,
     RemoveFails, VerifyMeta, VerifyRaw, Approve, Accept, Die, Quit, storeVars
<1>6. ASSUME NEW p \in Procs, NEW c \in Claims, StartApprove(p, c) \/ StartValidate(p, c)
      PROVE  snap' = snap
  BY <1>6, Zenon DEF StartApprove, StartValidate, Begin, storeVars
<1>7. ASSUME \/ \E f \in Files, bytes \in Contents \cup {Absent} : EditSource(f, bytes)
             \/ \E c \in Claims, cited \in SUBSET Ids : DraftClaim(c, cited)
      PROVE  snap' = snap
  BY <1>7, Zenon DEF EditSource, DraftClaim, storeVars
<1>8. CASE UNCHANGED vars
  BY <1>8 DEF vars, storeVars
<1> HIDE DEF IInv
<1> QED BY <1>1, <1>2, <1>3, <1>4, <1>5, <1>6, <1>7, <1>8 DEF Next

\* The program changes a complete snapshot only where the capture that wrote it failed
\* on its mode, and nobody was told of it ("Immutable local evidence snapshots",
\* README.md).
THEOREM NeverRewrittenTheorem == Spec => NeverRewritten
<1> DEFINE Withdrawing(i) == /\ \E p \in Procs : epc[p] = "remove" /\ job[p].id = i
                             /\ i \in withdrawn /\ \A r \in reported : r.id # i
<1>1. ASSUME IInv, [Next]_vars, NEW i \in Ids, Readable(i), tampered' = tampered,
             snap'[i] # snap[i]
      PROVE  Withdrawing(i)
  <2>1. ~Tampers
    BY <1>1 DEF Tampers, Tamper
  <2>2. PICK p \in Procs : Unlinks(p) /\ job[p].id = i
    BY <1>1, <2>1, CompleteKept
  <2>3. epc[p] = "remove"
    BY <2>2 DEF Unlinks, RemoveFile, RemoveDirectory
  <2>4. i \in withdrawn /\ \A r \in reported : r.id # i
    BY <1>1, <2>2, <2>3 DEF IInv, StoreInv, UnderWay, Working, Owning
  <2> QED BY <2>2, <2>3, <2>4
<1>2. IInv /\ [Next]_vars =>
         [\A i \in Ids : Readable(i) /\ tampered' = tampered /\ snap'[i] # snap[i]
                            => Withdrawing(i)]_vars
  BY <1>1
<1> QED BY <1>2, Invariance, PTL DEF Spec, NeverRewritten

\* The history of tampering grows with each tampering, shrinks with a directory that
\* is removed, and otherwise stays.
LEMMA TamperedOnly ==
    ASSUME [Next]_vars, ~Tampers
    PROVE  tampered' = tampered \/ \E p \in Procs : RemoveDirectory(p)
<1>1. ASSUME NEW p \in Procs,
             \/ \E f \in Files, arg \in Arguments : StartCapture(p, f, arg)
             \/ HashSource(p) \/ ReturnExisting(p) \/ OpenSource(p)
             \/ \E i \in Ids : MakeDirectory(p, i)
             \/ CreateRaw(p) \/ CopyRaw(p) \/ CreateMeta(p) \/ WriteMeta(p) \/ Created(p)
      PROVE  tampered' = tampered
  BY <1>1 DEF StartCapture, HashSource, ReturnExisting, OpenSource, MakeDirectory, CreateRaw,
     CopyRaw, CreateMeta, WriteMeta, Created, Quit, envVars
<1>2. ASSUME NEW p \in Procs,
             \/ CaptureFails(p) \/ RemoveFile(p) \/ RemoveFails(p)
             \/ \E c \in Claims : StartApprove(p, c) \/ StartValidate(p, c)
             \/ VerifyMeta(p) \/ VerifyRaw(p) \/ Approve(p) \/ Accept(p) \/ Die(p)
      PROVE  tampered' = tampered
  BY <1>2 DEF CaptureFails, RemoveFile, RemoveFails, StartApprove, StartValidate, Begin,
     VerifyMeta, VerifyRaw, Approve, Accept, Die, Quit, envVars
<1>3. CASE \E f \in Files, bytes \in Contents \cup {Absent} : EditSource(f, bytes)
  BY <1>3 DEF EditSource
<1>4. CASE \E c \in Claims, cited \in SUBSET Ids : DraftClaim(c, cited)
  BY <1>4 DEF DraftClaim, envVars
<1>5. CASE UNCHANGED vars
  BY <1>5 DEF vars, envVars
<1> QED BY <1>1, <1>2, <1>3, <1>4, <1>5, Zenon DEF Next, Tampers

\* A validation accepts the bytes the approval verified, and no others
\* (validate_claim_evidence).
THEOREM AcceptedTheorem == Spec => []AcceptedAsApproved
<1>1. IInv => AcceptedAsApproved
  BY DEF IInv, ClaimInv
<1> QED BY <1>1, Invariance, PTL

-----------------------------------------------------------------------------
-----------------------------------------------------------------------------
(* Drift *)

\* A digest in complete metadata is that of some bytes.
Hashed == \A i \in Ids \ tampered : Readable(i) => snap[i].meta.sha \in Contents

\* A snapshot becomes readable when the capture that owns it writes its metadata.
LEMMA OnlyCompletes ==
    ASSUME IInv, [Next]_vars, NEW i \in Ids, ~Readable(i), Readable(i)'
    PROVE  \E p \in Procs : WriteMeta(p) /\ job[p].id = i
<1> USE DEF IInv
<1>1. CASE UNCHANGED snap
  BY <1>1 DEF Readable
<1>2. ASSUME NEW p \in Procs, NEW n \in Ids, MakeDirectory(p, n) PROVE FALSE
  <2>1. CASE snap[n].dir
    BY <1>1, <1>2, <2>1 DEF MakeDirectory, Quit, storeVars, Readable
  <2>2. CASE ~snap[n].dir
    <3>1. snap' = [snap EXCEPT ![n].dir = TRUE]
      BY <1>2, <2>2 DEF MakeDirectory
    <3>2. snap'[i].meta = snap[i].meta
      BY <3>1, EntryEffects
    <3> QED BY <3>2 DEF Readable
  <2> QED BY <2>1, <2>2
<1>3. ASSUME NEW p \in Procs,
             \/ CreateRaw(p) \/ CopyRaw(p) \/ CreateMeta(p) \/ RemoveFile(p) \/ RemoveDirectory(p)
      PROVE  FALSE
  <2>1. epc[p] \in Filling \cup {"remove"}
    BY <1>3 DEF CreateRaw, CopyRaw, CreateMeta, RemoveFile, RemoveDirectory, Filling
  <2>2. PICK n \in Ids : n = job[p].id
    BY <2>1 DEF StoreInv, UnderWay, Working, Owning
  <2>3. \/ snap' = snap \/ \E b : snap' = [snap EXCEPT ![n].raw = b]
        \/ snap' = [snap EXCEPT ![n].meta = NoMeta]
        \/ snap' = [snap EXCEPT ![n].meta.st = Partial]
        \/ snap' = [snap EXCEPT ![n].dir = FALSE]
    <3>1. CASE CreateRaw(p)
      <4>1. CASE snap[n].raw # Absent
        BY <2>2, <3>1, <4>1 DEF CreateRaw
      <4>2. CASE snap[n].raw = Absent
        BY <2>2, <3>1, <4>2, Zenon DEF CreateRaw
      <4> QED BY <4>1, <4>2
    <3>2. CASE CopyRaw(p)
      BY <2>2, <3>2, Zenon DEF CopyRaw
    <3>3. CASE CreateMeta(p)
      BY <2>2, <3>3, Zenon DEF CreateMeta
    <3>4. CASE RemoveFile(p)
      BY <2>2, <3>4, Zenon DEF RemoveFile
    <3>5. CASE RemoveDirectory(p)
      BY <2>2, <3>5, Zenon DEF RemoveDirectory
    <3> QED BY <1>3, <3>1, <3>2, <3>3, <3>4, <3>5
  <2>4. TypeOK /\ NoMeta.st # "whole" /\ Partial # "whole"
    BY DEF NoMeta, Absent, Partial
  <2>5. \/ snap' = snap \/ snap'[i].meta = snap[i].meta \/ snap'[i].meta = NoMeta
        \/ snap'[i].meta.st = Partial
    <3>1. CASE i = n
      BY <2>3, <2>4, <3>1, EntryEffects, Zenon
    <3>2. CASE i # n
      <4>1. i \in Ids \ {n}
        BY <3>2
      <4> QED BY <2>3, <2>4, <4>1, EntryEffects, Zenon
    <3> QED BY <3>1, <3>2
  <2> QED BY <2>4, <2>5 DEF Readable
<1>4. ASSUME NEW p \in Procs, WriteMeta(p) PROVE WriteMeta(p) /\ job[p].id = i
  <2>1. PICK n \in Ids : n = job[p].id
    BY <1>4 DEF WriteMeta, StoreInv, UnderWay, Working, Owning, Filling
  <2>2. \E e : snap' = [snap EXCEPT ![n].meta = e]
    BY <2>1, <1>4, Zenon DEF WriteMeta
  <2>3. ASSUME i # n PROVE FALSE
    <3>1. i \in Ids \ {n}
      BY <2>3
    <3>2. snap'[i] = snap[i]
      BY <2>2, <3>1, EntryEffects, Zenon
    <3> QED BY <3>2 DEF Readable
  <2> QED BY <1>4, <2>1, <2>3
<1>5. ASSUME NEW n \in Ids, NEW entry \in Tampering(n), Tamper(n, entry) PROVE FALSE
  <2>1. Readable(n) /\ snap' = [snap EXCEPT ![n] = entry]
    BY <1>5 DEF Tamper
  <2>2. snap'[i] = snap[i]
    BY <2>1, Typed
  <2> QED BY <2>2 DEF Readable
<1>6. ASSUME NEW p \in Procs,
             \/ \E f \in Files, arg \in Arguments : StartCapture(p, f, arg)
             \/ HashSource(p) \/ ReturnExisting(p) \/ OpenSource(p) \/ Created(p)
             \/ CaptureFails(p) \/ RemoveFails(p) \/ VerifyMeta(p) \/ VerifyRaw(p)
             \/ Approve(p) \/ Accept(p) \/ Die(p)
      PROVE  snap' = snap
  BY <1>6, Zenon DEF StartCapture, HashSource, ReturnExisting, OpenSource, Created, CaptureFails,
     RemoveFails, VerifyMeta, VerifyRaw, Approve, Accept, Die, Quit, storeVars
<1>7. ASSUME NEW p \in Procs, NEW c \in Claims, StartApprove(p, c) \/ StartValidate(p, c)
      PROVE  snap' = snap
  BY <1>7, Zenon DEF StartApprove, StartValidate, Begin, storeVars
<1>8. ASSUME \/ \E f \in Files, bytes \in Contents \cup {Absent} : EditSource(f, bytes)
             \/ \E c \in Claims, cited \in SUBSET Ids : DraftClaim(c, cited)
      PROVE  snap' = snap
  BY <1>8, Zenon DEF EditSource, DraftClaim, storeVars
<1>9. CASE UNCHANGED vars
  BY <1>9 DEF vars, storeVars, Readable
<1> HIDE DEF IInv
<1> QED BY <1>1, <1>2, <1>3, <1>4, <1>5, <1>6, <1>7, <1>8, <1>9 DEF Next

LEMMA HashedKeeps == ASSUME IInv, Hashed, [Next]_vars PROVE Hashed'
<1> SUFFICES ASSUME NEW i \in Ids, i \notin tampered', Readable(i)'
             PROVE  snap'[i].meta.sha \in Contents
  BY DEF Hashed
<1>1. CASE ~Readable(i)
  <2>1. PICK p \in Procs : WriteMeta(p) /\ job[p].id = i
    BY <1>1, OnlyCompletes
  <2>2. job[p].sha \in Contents
    BY <2>1 DEF WriteMeta, IInv, StoreInv, UnderWay, Working, Owning, Filling
  <2>3. snap'[i].meta = [st |-> "whole", sha |-> job[p].sha, origin |-> job[p].origin,
                         media |-> job[p].media, form |-> "emitted"]
    <3> DEFINE whole == [st |-> "whole", sha |-> job[p].sha, origin |-> job[p].origin,
                         media |-> job[p].media, form |-> "emitted"]
    <3>1. snap' = [snap EXCEPT ![i].meta = whole]
      BY <2>1, Zenon DEF WriteMeta
    <3> HIDE DEF whole
    <3>2. snap'[i].meta = whole
      BY <3>1, EntryEffects, Zenon DEF IInv
    <3> QED BY <3>2 DEF whole
  <2> QED BY <2>2, <2>3
<1>2. CASE Readable(i) /\ ~Tampers
  <2>1. i \notin tampered
    <3>1. CASE tampered' = tampered
      BY <3>1
    <3>2. ASSUME NEW p \in Procs, RemoveDirectory(p) PROVE i \notin tampered
      <4>1. tampered' = tampered \ {job[p].id} /\ snap[job[p].id].meta = NoMeta
        BY <3>2 DEF RemoveDirectory
      <4>2. job[p].id # i
        BY <1>2, <4>1 DEF Readable, NoMeta, Absent
      <4> QED BY <4>1, <4>2
    <3> QED BY <1>2, <3>1, <3>2, TamperedOnly
  <2>2. snap[i].meta.sha \in Contents
    BY <1>2, <2>1 DEF Hashed
  <2>3. CASE snap'[i] = snap[i]
    BY <2>2, <2>3
  <2>4. CASE snap'[i] # snap[i]
    <3>1. PICK p \in Procs : Unlinks(p) /\ job[p].id = i
      BY <1>2, <2>4, CompleteKept
    <3>2. \/ \E b : snap' = [snap EXCEPT ![i].raw = b] \/ \E d : snap' = [snap EXCEPT ![i].dir = d]
          \/ snap' = [snap EXCEPT ![i].meta = NoMeta]
      BY <3>1, Zenon DEF Unlinks, RemoveFile, RemoveDirectory
    <3>3. snap'[i].meta = snap[i].meta \/ snap'[i].meta = NoMeta
      BY <3>2, EntryEffects, Zenon DEF IInv
    <3> QED BY <2>2, <3>3 DEF Readable, NoMeta, Absent
  <2> QED BY <2>3, <2>4
<1>3. CASE Readable(i) /\ Tampers
  <2>1. PICK n \in Ids : \E entry \in Tampering(n) : Tamper(n, entry)
    BY <1>3 DEF Tampers
  <2>2. i # n /\ i \notin tampered /\ \E entry : snap' = [snap EXCEPT ![n] = entry]
    BY <2>1 DEF Tamper
  <2>3. snap'[i] = snap[i]
    BY <2>2, Typed DEF IInv
  <2> QED BY <1>3, <2>2, <2>3 DEF Hashed
<1> QED BY <1>1, <1>2, <1>3

\* Without tampering, a drift check and a capture agree, and a doctor who finds
\* nothing wrong has found everything that is cited current, and whole unless a failed
\* capture left it without its bytes
\* (classify_evidence_drift, add_file, run_doctor).
THEOREM DriftTheorem == Spec => []DriftAgreesWithCapture
<1>1. Init => Hashed
  BY DEF Init, Hashed, Readable, NoEntry, NoMeta, Absent
<1>2. IInv /\ Hashed => DriftAgreesWithCapture
  <2> SUFFICES ASSUME IInv, Hashed, tampered = {}
               PROVE  /\ \A found \in DriftReport : found.status = "unchanged" <=> Recaptured(found.id)
                      /\ Doctor(TRUE).healthy =>
                            \A c \in Claims : \A i \in claim[c].cites :
                                Recaptured(i) /\ Whole(i)
    BY DEF DriftAgreesWithCapture
  <2>1. ASSUME NEW i \in Ids, Readable(i) PROVE Drift(i) = "unchanged" <=> Recaptured(i)
    <3> DEFINE path == LocalPath(snap[i].meta.origin)
               sha == snap[i].meta.sha
    <3>1. sha \in Contents /\ sha # Absent
      BY <2>1, ContentsAssumption DEF Hashed
    <3>2. Drift(i) = "unchanged" <=> path # NotLocal /\ source[path] = sha
      BY <3>1 DEF Drift
    <3>3. Deduped(sha) = {i}
      BY <2>1 DEF Deduped, IInv, StoreInv, Distinct
    <3>4. First({i}) = i
      BY FirstIsMember
    <3>5. Recaptured(i) <=> path # NotLocal /\ source[path] # Absent /\ i \in Deduped(source[path])
                            /\ First(Deduped(source[path])) = i
      BY DEF Recaptured
    <3>6. i \in Deduped(source[path]) <=> source[path] = sha
      BY <2>1 DEF Deduped
    <3> QED BY <3>1, <3>2, <3>3, <3>4, <3>5, <3>6
  <2>2. \A found \in DriftReport : found.status = "unchanged" <=> Recaptured(found.id)
    BY <2>1 DEF DriftReport
  <2>3. ASSUME Doctor(TRUE).healthy, NEW c \in Claims, NEW i \in claim[c].cites
        PROVE  Recaptured(i) /\ Whole(i)
    <3>1. i \in Ids
      BY Typed DEF IInv, ClaimRec, TypeOK
    <3> DEFINE Missing == {ci \in Claims \X Ids : ci[2] \in claim[ci[1]].cites /\ ~Readable(ci[2])}
               report == [id |-> i, status |-> Drift(i),
                          affected |-> {b \in Claims : i \in claim[b].cites}]
    <3>2. Missing = {} /\ \A d \in DriftReport : d.status = "unchanged"
      <4>1. /\ {f \in DOMAIN Lint : Lint[f] # {}} = {}
            /\ {d \in DriftReport : d.status # "unchanged"} = {}
        BY <2>3 DEF Doctor
      <4>2. "missing" \in DOMAIN Lint /\ Lint["missing"] = Missing
        BY DEF Lint
      <4> QED BY <4>1, <4>2
    <3>3. Readable(i)
      <4>1. <<c, i>> \in Claims \X Ids /\ <<c, i>>[1] = c /\ <<c, i>>[2] = i
        BY <3>1
      <4>2. SUFFICES ASSUME ~Readable(i) PROVE <<c, i>> \in Missing
        BY <3>2
      <4> QED BY <2>3, <4>1, <4>2, Zenon
    <3>4. Drift(i) = "unchanged"
      <4>1. report \in DriftReport
        BY <3>1, <3>3, Zenon DEF DriftReport
      <4> QED BY <3>2, <4>1
    <3> QED BY <2>1, <3>1, <3>3, <3>4 DEF IInv, StoreInv, SnapshotsAreWhole
  <2> QED BY <2>2, <2>3
<1> QED BY <1>1, <1>2, HashedKeeps, Invariance, PTL DEF Spec

=============================================================================
