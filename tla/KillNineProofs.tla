--------------------------- MODULE KillNineProofs ---------------------------
(***************************************************************************)
(* Proofs about the kill -9 loop: a file is never behind what its child    *)
(* said, and its root holds the stamp of the checkpoint that set it.  They *)
(* rest on the invariant of the page store.                                *)
(***************************************************************************)
EXTENDS KillNine, PageStoreProofs

USE MaxPagesAssumption DEF PageIDs, MetaPage, NoPage

-----------------------------------------------------------------------------
(* The inductive invariant. *)

Checkpointing == pc \in {"ckSync"} \cup CkPcs

\* What a page stamped for the next checkpoint holds.
Stamp == UserPage(durable.checkpoint + 1)

Recorded(s) ==
  /\ s.checkpoint <= MaxCheckpoint
  /\ s.root # NoPage => s.root \in s.held /\ s.data[s.root] = UserPage(s.checkpoint)

\* The file is at the number the child said last or at the next, which it may be in
\* doubt about, and the child has said nothing before the file's name was safe.
FileIsAt ==
  /\ told \in Nat
  /\ saved.checkpoint \in {told, told + 1}
  /\ doubt # NoDoubt => saved.checkpoint = told
  /\ entry # "durable" => told = 0
  /\ clobbered = {}
  /\ Recorded(saved) /\ Recorded(doubt)

\* A checkpoint begins at the number the child said last.
CheckpointIsNext ==
  Checkpointing =>
    /\ saved.checkpoint = told
    /\ durable.checkpoint < MaxCheckpoint
    /\ entry = "durable" \/ caller = "create"
    /\ root = NoPage \/ cache[root] = Stamp

\* The steps the child takes between the calls of its store.
Between == {"say", "allocate", "write", "setRoot", "free", "checkpoint"}

ChildIsAt ==
  /\ child \in Between \cup {"create", "inCreate", "inCheckpoint", "exit", "dead"}
  /\ child = "create" => pc = "down"
  /\ child \in Between => pc = "idle"
  /\ child \in Between \ {"say"} => saved.checkpoint = told
  /\ pc = "idle" => entry = "durable"

\* The page goes from the allocation to the root, and is none of the last checkpoint.
PageIsAt ==
  /\ child \in {"write", "setRoot"} => page \in held \ saved.held
  /\ child = "setRoot" /\ ~ poisoned => cache[page] = Stamp
  /\ child \in {"free", "checkpoint"} /\ ~ poisoned => root = NoPage \/ cache[root] = Stamp
  /\ child = "free" => old \in PageIDs

\* The parent changes nothing: it makes no checkpoint but that of a file it creates.
ParentOnlyLooks ==
  child = "dead" =>
    /\ dirty = FALSE
    /\ Checkpointing => caller = "create"
    /\ pc = "idle" => root = saved.root

RunInv == FileIsAt /\ CheckpointIsNext /\ ChildIsAt /\ PageIsAt /\ ParentOnlyLooks

\* The power cut came before the name was safe.
Lost == child = "dead" /\ entry = "none" /\ pc = "down" /\ told = 0

StoreInv == TypeOK /\ ListPagesInv /\ IInv

KInv == Lost \/ (StoreInv /\ RunInv)

-----------------------------------------------------------------------------
(* Beginnings. *)

LEMMA RunBegins ==
  KInit => StoreInv /\ RunInv
<1>1. SUFFICES ASSUME KInit PROVE StoreInv /\ RunInv
  OBVIOUS
<1>2. Init
  BY <1>1 DEF KInit
<1>3. StoreInv
  BY <1>2, InitType, InvariantInit DEF StoreInv, Init, NoStoreInit, ListPagesInv
<1>4. /\ pc = "down" /\ dirty = FALSE /\ clobbered = {} /\ saved = Blank /\ doubt = NoDoubt
      /\ child = "create" /\ told = 0
  BY <1>1 DEF KInit, Init, NoStoreInit
<1>5. Blank.checkpoint = 0 /\ Blank.root = NoPage
      /\ NoDoubt.checkpoint = -1 /\ NoDoubt.root = NoPage
  BY DEF Blank, NoDoubt
<1>6. Recorded(saved) /\ Recorded(doubt)
  BY <1>4, <1>5, BoundsAssumption DEF Recorded
<1> QED
  BY <1>3, <1>4, <1>5, <1>6
  DEF RunInv, FileIsAt, CheckpointIsNext, ChildIsAt, PageIsAt, ParentOnlyLooks,
      Checkpointing, CkPcs, Between

LEMMA RunBeginsAgain ==
  (KInit => StoreInv /\ RunInv)'
BY RunBegins, PTL

\* The next run's file is new.
LEMMA NextRunBegins ==
  ASSUME NextRun
  PROVE  (StoreInv /\ RunInv)'
<1>1. KInit'
  BY DEF NextRun, NoFile, NoStore, KInit, Init, DiskInit, NoStoreInit
<1> QED BY <1>1, RunBeginsAgain

-----------------------------------------------------------------------------
(* What the store's invariant says here. *)

\* A store between calls, or in a client's checkpoint, knows the number of its file.
LEMMA NumberIsKnown ==
  ASSUME StoreInv, pc = "idle" \/ (Checkpointing /\ caller # "create")
  PROVE  /\ durable.checkpoint = saved.checkpoint /\ saved.checkpoint \in Nat
         /\ Live /\ caller # "create"
<1>1. Live /\ caller # "create"
  BY DEF StoreInv, Live, Checkpointing, IInv, BaseInv
<1> QED BY <1>1, LastCheckpoint DEF StoreInv, IInv, DriveInv, SnapshotInv

LEMMA RootIsHeld ==
  ASSUME StoreInv, Live
  PROVE  /\ root = NoPage \/ root \in held
         /\ held \subseteq PageIDs /\ MetaPage \notin held
         /\ Checkpointing => poisoned = FALSE
  BY HeldPages DEF StoreInv, IInv, ListsInv, NeverPoisonedInCall, Checkpointing, CkPcs,
                   TypeOK, MemType

LEMMA CheckpointingIsLive ==
  Checkpointing => Live
BY DEF Checkpointing, Live

LEMMA StampsAreValues ==
  ASSUME NEW n \in Nat, n <= MaxCheckpoint
  PROVE  n + 1 \in Values
BY StampsAssumption, BoundsAssumption

\* The number a store between calls stamps with.
LEMMA NextNumber ==
  ASSUME StoreInv, RunInv, pc = "idle"
  PROVE  durable.checkpoint + 1 \in Values
<1>1. durable.checkpoint = saved.checkpoint /\ saved.checkpoint \in Nat
  BY NumberIsKnown
<1> QED BY <1>1, StampsAreValues DEF RunInv, FileIsAt, Recorded

\* The drive's cache drops none of the client's pages from under an open store.
LEMMA EvictLeavesHeld ==
  ASSUME StoreInv, Live, ~ poisoned, clobbered = {}, NEW p \in PageIDs, DiskEvict(p)
  PROVE  \A q \in held : cache'[q] = cache[q]
<1>1. SUFFICES ASSUME NEW q \in held, cache'[q] # cache[q] PROVE FALSE
  OBVIOUS
<1>2. q \in PageIDs
  BY RootIsHeld
<1>3. q = p /\ pend[q] = {} /\ cache[q] # None /\ cache[q] # OnDrive(q)
  BY <1>1, <1>2 DEF DiskEvict, StoreInv, TypeOK, DiskType
<1>4. drive[q] = cache[q]
  BY <1>1, <1>3 DEF StoreInv, IInv, CleanInv
<1> QED BY <1>3, <1>4 DEF OnDrive

-----------------------------------------------------------------------------
(* Steps of a kind. *)

\* What a step leaves of the file's record.
FileKept == UNCHANGED <<saved, doubt, clobbered, told>> /\ entry' \in {entry, "durable"}

LEMMA FileStaysAt ==
  ASSUME FileIsAt, FileKept
  PROVE  FileIsAt'
BY DEF FileIsAt, FileKept, Recorded

Idling == child \in {"inCreate", "inCheckpoint", "exit", "dead"}

\* The process has no store any more, or none yet.
LEMMA WithoutStore ==
  ASSUME FileIsAt', Idling', pc' \notin {"idle", "ckSync"} \cup CkPcs,
         child' = "dead" => dirty' = FALSE
  PROVE  RunInv'
BY DEF RunInv, CheckpointIsNext, ChildIsAt, PageIsAt, ParentOnlyLooks, Idling, Between,
       Checkpointing, CkPcs

LEMMA StoreIsGone ==
  ASSUME FileIsAt', Idling', NoStore("down") \/ NoStore("refused")
  PROVE  RunInv'
<1>1. pc' \notin {"idle", "ckSync"} \cup CkPcs /\ dirty' = FALSE
  BY DEF NoStore, CkPcs
<1> QED BY <1>1, WithoutStore

\* A checkpoint goes on to its next step.
LEMMA CheckpointGoesOn ==
  ASSUME RunInv, Checkpointing, FileIsAt', Checkpointing', UNCHANGED childVars,
         UNCHANGED <<durable, root, caller, dirty, saved, entry>>,
         root = NoPage \/ cache'[root] = cache[root]
  PROVE  RunInv'
<1>1. Idling /\ pc' # "idle" /\ pc # "idle"
  BY DEF RunInv, ChildIsAt, Idling, Between, Checkpointing, CkPcs
<1>2. CheckpointIsNext'
  BY DEF RunInv, CheckpointIsNext, Stamp, childVars
<1>3. ChildIsAt' /\ PageIsAt'
  BY <1>1 DEF ChildIsAt, PageIsAt, Idling, childVars, Between
<1>4. ParentOnlyLooks'
  BY <1>1 DEF RunInv, ParentOnlyLooks, childVars
<1> QED BY <1>2, <1>3, <1>4 DEF RunInv

\* A checkpoint ends on an error.
LEMMA CheckpointEnds ==
  ASSUME RunInv, Checkpointing, FileIsAt', NEW b, CheckpointFails(b),
         UNCHANGED childVars, UNCHANGED entry
  PROVE  RunInv'
<1>1. Idling
  BY DEF RunInv, ChildIsAt, Idling, Between, Checkpointing, CkPcs
<1>2. Idling'
  BY <1>1 DEF Idling, childVars
<1>3. CASE caller = "client"
  <2>1. pc' = "idle" /\ child # "dead" /\ entry = "durable"
    BY <1>3 DEF CheckpointFails, RunInv, ParentOnlyLooks, CheckpointIsNext
  <2> QED BY <1>2, <2>1
          DEF RunInv, CheckpointIsNext, ChildIsAt, PageIsAt, ParentOnlyLooks, Idling, Between,
              Checkpointing, CkPcs, childVars
<1>4. CASE caller # "client"
  BY <1>2, <1>4, StoreIsGone DEF CheckpointFails
<1> QED BY <1>3, <1>4

\* The root still reads as it did, in a checkpoint whose step changes nothing the
\* client sees.
LEMMA RootReads ==
  ASSUME StoreInv, StoreInv', Unseen, Checkpointing', UNCHANGED root
  PROVE  root = NoPage \/ cache'[root] = cache[root]
<1>1. Live' /\ ~ poisoned'
  BY DEF StoreInv, IInv, NeverPoisonedInCall, Checkpointing, CkPcs, Live
<1>2. root' = NoPage \/ root' \in held'
  BY <1>1 DEF StoreInv, IInv, ListsInv
<1>3. CASE held' = {}
  BY <1>2, <1>3
<1>4. CASE Kept
  BY <1>2, <1>4 DEF Kept
<1> QED BY <1>1, <1>3, <1>4 DEF Unseen

\* The steps of a checkpoint before its meta page.
LEMMA CheckpointRuns ==
  ASSUME StoreInv, StoreInv', RunInv, UNCHANGED childVars, entry' = NameAfter,
         CkSync \/ CkTake \/ CkTaken \/ CkList \/ CkListSync
  PROVE  RunInv'
<1>1. Checkpointing /\ UNCHANGED <<saved, clobbered>>
  BY DEF CkSync, CkTake, CkTaken, CkList, CkListSync, Checkpointing, CkPcs, histVars
<1>2. entry' = entry
  BY <1>1 DEF NameAfter, Checkpointing, CkPcs
<1>3. Unseen
  BY FsyncUnseen, CkTakeUnseen, CkListUnseen DEF StoreInv
<1>4. FileIsAt'
  BY <1>2, <1>3, FileStaysAt DEF RunInv, FileKept, Unseen, childVars
<1>5. ASSUME UNCHANGED <<memVars, caller>>, Checkpointing' PROVE RunInv'
  BY <1>1, <1>2, <1>3, <1>4, <1>5, RootReads, CheckpointGoesOn DEF memVars
<1>6. ASSUME NEW b, CheckpointFails(b) PROVE RunInv'
  BY <1>1, <1>2, <1>4, <1>6, CheckpointEnds
<1>7. CASE CkSync
  BY <1>5, <1>6, <1>7 DEF CkSync, Checkpointing, CkPcs
<1>8. CASE CkTake
  BY <1>1, <1>5, <1>6, <1>8 DEF CkTake, Checkpointing, CkPcs
<1>9. CASE CkTaken
  BY <1>5, <1>9 DEF CkTaken, Checkpointing, CkPcs
<1>10. CASE CkList
  BY <1>5, <1>6, <1>10 DEF CkList, AfterListPage, Checkpointing, CkPcs
<1>11. CASE CkListSync
  BY <1>5, <1>6, <1>11 DEF CkListSync, Checkpointing, CkPcs
<1> QED BY <1>7, <1>8, <1>9, <1>10, <1>11

\* The meta page is written: from here on the file may be one checkpoint ahead.
LEMMA CkMetaRuns ==
  ASSUME StoreInv, StoreInv', RunInv, UNCHANGED childVars, entry' = NameAfter, CkMeta
  PROVE  RunInv'
<1>1. /\ pc = "ckMeta" /\ Checkpointing /\ UNCHANGED <<saved, clobbered>>
      /\ doubt' = Snapshot(durable.checkpoint + 1)
  BY DEF CkMeta, Checkpointing, CkPcs
<1>2. entry' = entry
  BY <1>1 DEF NameAfter
<1>3. /\ saved.checkpoint = told /\ durable.checkpoint < MaxCheckpoint
      /\ root = NoPage \/ (root \in held /\ root # MetaPage /\ cache[root] = Stamp)
      /\ durable.checkpoint \in Nat /\ held \subseteq PageIDs
  BY <1>1, CheckpointingIsLive, RootIsHeld
  DEF RunInv, CheckpointIsNext, StoreInv, TypeOK, MemType, MetaRecord
<1>4. Recorded(doubt')
  <2>1. /\ doubt'.checkpoint = durable.checkpoint + 1 /\ doubt'.root = root /\ doubt'.held = held
        /\ doubt'.data = [p \in held |-> cache[p]]
    BY <1>1 DEF Snapshot
  <2>2. durable.checkpoint + 1 <= MaxCheckpoint
    BY <1>3, BoundsAssumption
  <2> QED BY <1>3, <2>1, <2>2 DEF Recorded, Stamp
<1>5. FileIsAt'
  BY <1>1, <1>2, <1>3, <1>4 DEF RunInv, FileIsAt, Recorded, childVars
<1>6. CASE DiskWrite({}, {MetaPage}, NextMeta) /\ pc' = "ckMetaSync" /\ UNCHANGED <<memVars, caller>>
  <2>1. root = NoPage \/ cache'[root] = cache[root]
    BY <1>3, <1>6 DEF DiskWrite
  <2> QED BY <1>1, <1>2, <1>5, <1>6, <2>1, CheckpointGoesOn DEF Checkpointing, CkPcs, memVars
<1>7. CASE CheckpointFails(TRUE)
  BY <1>1, <1>2, <1>5, <1>7, CheckpointEnds
<1> QED BY <1>6, <1>7 DEF CkMeta

\* The meta page is synced: the file is at the next number.
LEMMA CkMetaSyncRuns ==
  ASSUME StoreInv, StoreInv', RunInv, UNCHANGED childVars, entry' = NameAfter, CkMetaSync
  PROVE  RunInv'
<1>1. pc = "ckMetaSync" /\ Checkpointing /\ Idling
  BY DEF CkMetaSync, Checkpointing, CkPcs, RunInv, ChildIsAt, Idling, Between
<1>2. entry' = entry
  BY <1>1 DEF NameAfter
<1>3. CASE CheckpointFails(TRUE) /\ UNCHANGED <<saved, doubt, clobbered>>
  <2>1. FileIsAt'
    BY <1>2, <1>3, FileStaysAt DEF RunInv, FileKept, childVars
  <2> QED BY <1>1, <1>2, <1>3, <2>1, CheckpointEnds
<1>4. CASE /\ IF caller = "close" THEN NoStore("down") ELSE Adopt
           /\ saved' = doubt /\ doubt' = NoDoubt /\ StillClobbered
  <2>1. doubt.checkpoint = told + 1
    <3>1. doubt.checkpoint = durable.checkpoint + 1 /\ durable.checkpoint \in Nat
      BY <1>1 DEF StoreInv, IInv, CommitInv, TypeOK, MemType, MetaRecord
    <3>2. doubt # NoDoubt
      BY <3>1 DEF NoDoubt, Blank
    <3> QED BY <3>2 DEF StoreInv, IInv, DriveInv, SnapshotInv, RunInv, FileIsAt
  <2>2. NoDoubt.checkpoint = -1 /\ NoDoubt.root = NoPage
    BY DEF NoDoubt, Blank
  <2>3. FileIsAt'
    BY <1>2, <1>4, <2>1, <2>2, BoundsAssumption
    DEF RunInv, FileIsAt, Recorded, StillClobbered, childVars
  <2>4. Idling'
    BY <1>1 DEF Idling, childVars
  <2>5. CASE caller = "close"
    BY <1>4, <2>3, <2>4, <2>5, StoreIsGone
  <2>6. CASE caller = "create"
    <3>1. pc' = "parent" /\ dirty' = FALSE
      BY <1>4, <2>6 DEF Adopt
    <3> QED BY <2>3, <2>4, <3>1, WithoutStore DEF CkPcs
  <2>7. CASE caller = "client"
    <3>1. pc' = "idle" /\ child # "dead" /\ entry = "durable"
      BY <1>1, <1>4, <2>7 DEF Adopt, RunInv, ParentOnlyLooks, CheckpointIsNext
    <3> QED BY <1>1, <1>2, <2>3, <3>1
            DEF RunInv, CheckpointIsNext, ChildIsAt, PageIsAt, ParentOnlyLooks, Idling, Between,
                Checkpointing, CkPcs, childVars
  <2> QED BY <2>5, <2>6, <2>7 DEF StoreInv, TypeOK, CallType
<1> QED BY <1>3, <1>4 DEF CkMetaSync

\* The steps of Open that write nothing of the file's record.
LEMMA OpenRuns ==
  ASSUME StoreInv, RunInv, UNCHANGED childVars, entry' = NameAfter,
         WalkPage \/ WalkDone \/ LdMeta
  PROVE  RunInv'
<1>1. /\ pc \in {"walk", "ldMeta"}
      /\ UNCHANGED <<saved, doubt, clobbered>>
  BY DEF WalkPage, WalkDone, LdMeta
<1>2. Idling /\ entry' = entry
  BY <1>1 DEF RunInv, ChildIsAt, Idling, Between, NameAfter
<1>3. FileIsAt' /\ Idling'
  BY <1>1, <1>2, FileStaysAt DEF RunInv, FileKept, childVars, Idling
<1>4. CASE pc' \in {"walk", "ldMeta", "ldSync"} /\ dirty' = dirty
  BY <1>3, <1>4, WithoutStore DEF RunInv, ParentOnlyLooks, childVars, CkPcs
<1>5. CASE NoStore("down") \/ NoStore("refused")
  BY <1>3, <1>5, StoreIsGone
<1> QED BY <1>1, <1>4, <1>5 DEF WalkPage, WalkDone, LdMeta, memVars

\* Open has found which checkpoint the file holds.
LEMMA LdSyncRuns ==
  ASSUME StoreInv, RunInv, UNCHANGED childVars, entry' = NameAfter, LdSync
  PROVE  RunInv'
<1>1. pc = "ldSync"
  BY DEF LdSync
<1>2. Idling /\ entry' = entry
  BY <1>1 DEF RunInv, ChildIsAt, Idling, Between, NameAfter
<1>3. Idling'
  BY <1>2 DEF Idling, childVars
<1>4. CASE NoStore("down") /\ UNCHANGED <<saved, doubt, clobbered>>
  <2>1. FileIsAt'
    BY <1>2, <1>4, FileStaysAt DEF RunInv, FileKept, childVars
  <2> QED BY <1>3, <1>4, <2>1, StoreIsGone
<1>5. CASE /\ pc' = "parent" /\ UNCHANGED memVars
           /\ saved' = [checkpoint |-> Recovered.checkpoint, root |-> Recovered.root,
                        held |-> Recovered.held,
                        data |-> [p \in Recovered.held |-> cache[p]]]
           /\ doubt' = NoDoubt /\ StillClobbered
  <2>1. PICK s : s = Recovered
    OBVIOUS
  <2>2. s \in {saved, doubt} /\ (s = doubt => doubt.checkpoint \in Nat)
    BY <2>1 DEF Recovered, StoreInv, TypeOK, MemType, MetaRecord, IInv, DriveInv, SnapshotInv
  <2>3. s.checkpoint \in {told, told + 1}
    <3>1. CASE s = saved
      BY <3>1 DEF RunInv, FileIsAt
    <3>2. CASE s = doubt
      <4>1. doubt # NoDoubt
        BY <2>2, <3>2 DEF NoDoubt, Blank
      <4> QED BY <3>2, <4>1 DEF StoreInv, IInv, DriveInv, SnapshotInv, RunInv, FileIsAt
    <3> QED BY <2>2, <3>1, <3>2
  <2>4. Recorded(s) /\ clobbered = {}
    BY <2>2 DEF RunInv, FileIsAt
  <2>5. s.root # NoPage => cache[s.root] = UserPage(s.checkpoint)
    BY <2>2, <2>4 DEF Recorded, StoreInv, IInv, DriveInv, IntactInv, Stable
  <2>6. /\ saved'.checkpoint = s.checkpoint /\ saved'.root = s.root /\ saved'.held = s.held
        /\ saved'.data = [p \in s.held |-> cache[p]]
    BY <1>5, <2>1
  <2>7. Recorded(saved')
    BY <2>4, <2>5, <2>6 DEF Recorded
  <2>8. NoDoubt.checkpoint = -1 /\ NoDoubt.root = NoPage
    BY DEF NoDoubt, Blank
  <2>9. FileIsAt'
    BY <1>2, <1>5, <2>3, <2>4, <2>6, <2>7, <2>8, BoundsAssumption
    DEF RunInv, FileIsAt, Recorded, StillClobbered, childVars
  <2> QED BY <1>3, <1>5, <2>9, WithoutStore DEF RunInv, ParentOnlyLooks, childVars, memVars, CkPcs
<1> QED BY <1>4, <1>5 DEF LdSync

\* The name of the file is safe, and its store is ready.
LEMMA ParentRuns ==
  ASSUME StoreInv, RunInv, UNCHANGED childVars, entry' = NameAfter, Parent
  PROVE  RunInv'
<1>1. pc = "parent" /\ UNCHANGED <<saved, doubt, clobbered>> /\ Idling
  BY DEF Parent, RunInv, ChildIsAt, Idling, Between
<1>2. FileIsAt' /\ Idling'
  BY <1>1, FileStaysAt DEF RunInv, FileKept, NameAfter, childVars, Idling
<1>3. CASE pc' = "idle" /\ UNCHANGED memVars
  <2>1. entry' = "durable" /\ root = saved.root
    BY <1>1, <1>3 DEF NameAfter, StoreInv, IInv, ParentInv
  <2> QED BY <1>1, <1>2, <1>3, <2>1
          DEF RunInv, CheckpointIsNext, ChildIsAt, PageIsAt, ParentOnlyLooks, Idling, Between,
              Checkpointing, CkPcs, childVars, memVars
<1>4. CASE NoStore("down")
  BY <1>2, <1>4, StoreIsGone
<1> QED BY <1>3, <1>4 DEF Parent

LEMMA StoreRunsStep ==
  ASSUME StoreInv, StoreInv', RunInv, StoreRuns
  PROVE  RunInv'
BY CheckpointRuns, CkMetaRuns, CkMetaSyncRuns, OpenRuns, LdSyncRuns, ParentRuns
   DEF StoreRuns, StoreStep

-----------------------------------------------------------------------------
(* The child and the parent. *)

\* Whoever opens a blank file, no checkpoint has returned, and the child has said
\* nothing.
LEMMA BlankRuns ==
  ASSUME StoreInv, RunInv, OpenBlank, UNCHANGED told, entry' \in {"cached", "durable", entry},
         Idling', child' = "dead" => child = "dead"
  PROVE  RunInv'
<1>1. UNCHANGED <<saved, doubt, clobbered>> /\ saved = Blank /\ pc \in {"down", "refused"}
  <2>1. PICK some \in 0 .. ChunkPages : DiskWrite(NewPages(0, some), {}, Zero)
    BY ChunkAssumption DEF OpenBlank
  <2>2. isBlank /\ UNCHANGED <<saved, doubt, clobbered>> /\ pc \in {"down", "refused"}
    BY DEF OpenBlank
  <2> QED BY <2>1, <2>2, BlankWritten DEF StoreInv
<1>2. told = 0 /\ saved.checkpoint = 0
  BY <1>1 DEF Blank, RunInv, FileIsAt
<1>3. FileIsAt'
  BY <1>1, <1>2 DEF RunInv, FileIsAt, Recorded
<1>4. CASE NoStore("down")
  BY <1>3, <1>4, StoreIsGone
<1>5. CASE root' = NoPage /\ StartCheckpoint("create") /\ UNCHANGED <<durable, dirty>>
  BY <1>1, <1>2, <1>3, <1>5
  DEF RunInv, CheckpointIsNext, ChildIsAt, PageIsAt, ParentOnlyLooks, StartCheckpoint,
      Checkpointing, CkPcs, Idling, Between
<1> QED BY <1>4, <1>5 DEF OpenBlank

LEMMA FailedCall ==
  ASSUME StoreInv
  PROVE  /\ Trouble => failed
         /\ UNCHANGED trouble => ~ failed
BY DEF StoreInv, TypeOK, Trouble, failed

LEMMA CreateRuns ==
  ASSUME StoreInv, RunInv, ChildCreate \/ Created
  PROVE  RunInv'
<1>1. CASE ChildCreate
  BY <1>1, BlankRuns DEF ChildCreate, Goes, Idling
<1>2. CASE Created
  BY <1>2 DEF Created, RunInv, FileIsAt, Recorded, CheckpointIsNext, ChildIsAt, PageIsAt,
              ParentOnlyLooks, Checkpointing, CkPcs, Between, Stamp, vars, diskVars, memVars,
              callVars, histVars, nameVars
<1> QED BY <1>1, <1>2

\* What the child says is the number of a checkpoint that returned.
LEMMA SayRuns ==
  ASSUME StoreInv, RunInv, ChildSay \/ Checkpointed
  PROVE  RunInv'
<1>1. pc = "idle" /\ UNCHANGED <<vars, page, old, nameVars>>
  BY DEF ChildSay, Checkpointed, RunInv, ChildIsAt, Between
<1>2. durable.checkpoint = saved.checkpoint /\ saved.checkpoint \in Nat /\ entry = "durable"
  BY <1>1, NumberIsKnown DEF RunInv, ChildIsAt
<1>3. CASE ChildSay
  BY <1>1, <1>2, <1>3
  DEF ChildSay, RunInv, FileIsAt, Recorded, CheckpointIsNext, ChildIsAt, PageIsAt,
      ParentOnlyLooks, Checkpointing, CkPcs, Between, vars, memVars, callVars, histVars, nameVars
<1>4. CASE Checkpointed
  BY <1>1, <1>2, <1>4
  DEF Checkpointed, RunInv, FileIsAt, Recorded, CheckpointIsNext, ChildIsAt, PageIsAt,
      ParentOnlyLooks, Checkpointing, CkPcs, Between, vars, memVars, callVars, histVars, nameVars
<1> QED BY <1>3, <1>4

\* The child's call has changed neither the file's record nor what its store is.
ChildCalls ==
  /\ usable /\ child \in Between
  /\ UNCHANGED <<pc, caller, durable, poisoned, saved, doubt, told, entry>> /\ clobbered' = {}

LEMMA ChildGoesOn ==
  ASSUME RunInv, ChildCalls, child # "say",
         child' \in (Between \ {"say"}) \cup {"exit"}, PageIsAt'
  PROVE  RunInv'
BY DEF RunInv, ChildCalls, FileIsAt, Recorded, CheckpointIsNext, ChildIsAt, ParentOnlyLooks,
       Checkpointing, CkPcs, Between, usable

LEMMA AllocateRuns ==
  ASSUME StoreInv, RunInv, ChildAllocate
  PROVE  RunInv'
<1>1. child = "allocate" /\ usable
  BY DEF ChildAllocate, AllocateReused, AllocateNew
<1>2. ChildCalls
  BY <1>1 DEF ChildAllocate, AllocateReused, AllocateNew, ChildCalls, callVars, nameVars, Between,
              RunInv, FileIsAt
<1>3. CASE failed
  <2>1. child' = "exit"
    BY <1>3 DEF ChildAllocate, Goes
  <2>2. PageIsAt'
    BY <2>1 DEF PageIsAt
  <2> QED BY <1>1, <1>2, <2>1, <2>2, ChildGoesOn
<1>4. CASE ~ failed
  <2>1. child' = "write" /\ page' = CHOOSE p \in held' : p \notin held
    BY <1>4 DEF ChildAllocate, Goes
  <2>2. PICK id \in PageIDs : /\ id \in Range(free) \/ id >= nextPage
                              /\ held' = held \cup {id}
    <3>1. CASE AllocateReused
      <4>1. free \in PageLists /\ free # <<>> /\ Distinct(free)
        BY <1>1, <3>1, UsableState
        DEF AllocateReused, StoreInv, TypeOK, MemType, PageLists, IInv, ListsInv
      <4>2. Last(free) \in PageIDs /\ Last(free) \in Range(free)
        BY <4>1, FrontLast
      <4>3. held' = held \cup {Last(free)}
        BY <1>4, <3>1, FailedCall DEF AllocateReused
      <4> QED BY <4>2, <4>3
    <3>2. CASE AllocateNew
      <4>1. nextPage \in PageIDs
        BY <3>2 DEF AllocateNew, StoreInv, TypeOK, MemType
      <4>2. held' = held \cup {nextPage}
        BY <1>4, <3>2, FailedCall DEF AllocateNew
      <4> QED BY <4>1, <4>2
    <3> QED BY <3>1, <3>2 DEF ChildAllocate
  <2>3. id \notin held /\ id \notin saved.held
    BY <1>1, <2>2, UsableState, OwnPages DEF StoreInv
  <2>4. page' = id
    BY <2>1, <2>2, <2>3
  <2>5. PageIsAt'
    BY <1>2, <2>1, <2>2, <2>3, <2>4 DEF PageIsAt, ChildCalls
  <2> QED BY <1>1, <1>2, <2>1, <2>5, ChildGoesOn DEF Between
<1> QED BY <1>3, <1>4

LEMMA WriteRuns ==
  ASSUME StoreInv, RunInv, ChildWrite
  PROVE  RunInv'
<1>1. /\ child = "write" /\ usable /\ page \in held \ saved.held /\ page \in PageIDs
      /\ UNCHANGED <<held, saved, page>>
  BY RootIsHeld, UsableState DEF ChildWrite, Write, RunInv, PageIsAt, StoreInv
<1>2. ChildCalls
  BY <1>1 DEF ChildWrite, Write, Overwritten, ChildCalls, callVars, nameVars, Between,
              RunInv, FileIsAt
<1>3. CASE failed
  <2>1. child' = "exit"
    BY <1>3 DEF ChildWrite, Goes
  <2>2. PageIsAt'
    BY <2>1 DEF PageIsAt
  <2> QED BY <1>1, <1>2, <2>1, <2>2, ChildGoesOn
<1>4. CASE ~ failed
  <2>1. child' = "setRoot" /\ DiskWrite({}, {page}, UserPage(durable.checkpoint + 1))
    BY <1>4, FailedCall DEF ChildWrite, Goes, Write
  <2>2. cache'[page] = Stamp /\ Stamp' = Stamp
    BY <1>1, <1>2, <2>1 DEF DiskWrite, Stamp, ChildCalls
  <2>3. PageIsAt'
    BY <1>1, <2>1, <2>2 DEF PageIsAt
  <2> QED BY <1>1, <1>2, <2>1, <2>3, ChildGoesOn DEF Between
<1> QED BY <1>3, <1>4

LEMMA SetRootRuns ==
  ASSUME StoreInv, RunInv, ChildSetRoot
  PROVE  RunInv'
<1>1. /\ child = "setRoot" /\ child' \in {"free", "checkpoint"} /\ usable
      /\ root' = page /\ old' = root /\ UNCHANGED diskVars
  BY DEF ChildSetRoot, SetRoot
<1>2. ChildCalls
  BY <1>1 DEF ChildSetRoot, SetRoot, ChildCalls, callVars, histVars, nameVars, Between,
              RunInv, FileIsAt
<1>3. cache[page] = Stamp /\ old' \in PageIDs /\ Stamp' = Stamp
  BY <1>1, <1>2 DEF RunInv, PageIsAt, usable, StoreInv, TypeOK, MemType, ChildCalls, Stamp
<1>4. PageIsAt'
  BY <1>1, <1>3 DEF PageIsAt, diskVars
<1> QED BY <1>1, <1>2, <1>4, ChildGoesOn DEF Between

LEMMA FreeRuns ==
  ASSUME StoreInv, RunInv, ChildFree
  PROVE  RunInv'
<1>1. /\ child = "free" /\ child' = "checkpoint" /\ usable
      /\ UNCHANGED <<root, diskVars>>
  BY DEF ChildFree, Free
<1>2. ChildCalls
  BY <1>1 DEF ChildFree, Free, ChildCalls, callVars, nameVars, Between, RunInv, FileIsAt
<1>3. PageIsAt'
  BY <1>1, <1>2 DEF RunInv, PageIsAt, usable, diskVars, ChildCalls, Stamp
<1> QED BY <1>1, <1>2, <1>3, ChildGoesOn DEF Between

LEMMA CheckpointStarts ==
  ASSUME StoreInv, RunInv, ChildCheckpoint
  PROVE  RunInv'
<1>1. /\ child = "checkpoint" /\ child' = "inCheckpoint" /\ usable
      /\ durable.checkpoint < MaxCheckpoint /\ pc' = "ckSync" /\ caller' = "client"
      /\ UNCHANGED <<diskVars, memVars, histVars, told, entry>>
  BY DEF ChildCheckpoint, Checkpoint, StartCheckpoint, nameVars
<1>2. saved.checkpoint = told /\ entry = "durable" /\ (root = NoPage \/ cache[root] = Stamp)
  BY <1>1 DEF RunInv, ChildIsAt, PageIsAt, usable, Between
<1> QED BY <1>1, <1>2
        DEF RunInv, FileIsAt, Recorded, CheckpointIsNext, ChildIsAt, PageIsAt, ParentOnlyLooks,
            Checkpointing, CkPcs, Between, diskVars, memVars, histVars, Stamp

LEMMA ChildRuns ==
  ASSUME StoreInv, RunInv, ChildStep
  PROVE  RunInv'
BY CreateRuns, SayRuns, AllocateRuns, WriteRuns, SetRootRuns, FreeRuns, CheckpointStarts
   DEF ChildStep

\* A death, a power cut, and the parent's calls.
LEMMA OthersRun ==
  ASSUME StoreInv, RunInv, ChildDies \/ PowerFails \/ ParentOpens \/ ParentCloses
  PROVE  RunInv'
<1>1. CASE ChildDies \/ PowerFails
  <2>1. FileIsAt'
    BY <1>1, FileStaysAt DEF ChildDies, PowerFails, PowerCut, RunInv, FileKept, nameVars
  <2> QED BY <1>1, <2>1, StoreIsGone DEF ChildDies, PowerFails, PowerCut, Idling
<1>2. CASE ParentOpens
  <2>1. Idling'
    BY <1>2 DEF ParentOpens, childVars, Idling
  <2>2. CASE OpenBlank
    BY <1>2, <2>1, <2>2, BlankRuns DEF ParentOpens, childVars, nameVars
  <2>3. CASE OpenLoad
    <3>1. FileIsAt'
      BY <1>2, <2>3, FileStaysAt
      DEF ParentOpens, OpenLoad, RunInv, FileKept, childVars, nameVars, histVars
    <3> QED BY <1>2, <2>1, <2>3, <3>1, WithoutStore
            DEF ParentOpens, OpenLoad, RunInv, ParentOnlyLooks, childVars, CkPcs
  <2> QED BY <1>2, <2>2, <2>3 DEF ParentOpens
<1>3. CASE ParentCloses
  <2>1. NoStore("down") /\ UNCHANGED <<saved, doubt, clobbered, childVars, entry>> /\ child = "dead"
    BY <1>3 DEF ParentCloses, Close, RunInv, ParentOnlyLooks, nameVars
  <2>2. FileIsAt' /\ Idling'
    BY <2>1, FileStaysAt DEF RunInv, FileKept, childVars, Idling
  <2> QED BY <2>1, <2>2, StoreIsGone
<1> QED BY <1>1, <1>2, <1>3

\* Nothing happens, or the drive's cache drops a page.
LEMMA EvictionRuns ==
  ASSUME StoreInv, RunInv, UNCHANGED allVars \/ Evicted
  PROVE  RunInv'
<1>1. UNCHANGED <<memVars, callVars, histVars, childVars, entry>>
  BY DEF allVars, vars, Evicted, Evict, nameVars
<1>2. UNCHANGED cache \/ \E p \in PageIDs : DiskEvict(p)
  BY DEF allVars, vars, diskVars, Evicted, Evict
<1>3. Live /\ ~ poisoned => \A q \in held : cache'[q] = cache[q]
  BY <1>2, EvictLeavesHeld DEF RunInv, FileIsAt
<1>4. FileIsAt' /\ ChildIsAt' /\ ParentOnlyLooks'
  BY <1>1 DEF RunInv, FileIsAt, Recorded, ChildIsAt, ParentOnlyLooks, Checkpointing,
              memVars, callVars, histVars, childVars
<1>5. CheckpointIsNext'
  <2>1. Checkpointing => root = NoPage \/ cache'[root] = cache[root]
    BY <1>3, CheckpointingIsLive, RootIsHeld
  <2> QED BY <1>1, <2>1 DEF RunInv, CheckpointIsNext, Checkpointing, Stamp, memVars, callVars,
                            histVars, childVars
<1>6. PageIsAt'
  <2>1. child \in Between => Live
    BY DEF RunInv, ChildIsAt, Live
  <2>2. child \in Between /\ ~ poisoned => root = NoPage \/ cache'[root] = cache[root]
    BY <1>3, <2>1, RootIsHeld
  <2>3. child = "setRoot" /\ ~ poisoned => cache'[page] = cache[page]
    BY <1>3, <2>1 DEF RunInv, PageIsAt, Between
  <2> QED BY <1>1, <2>2, <2>3 DEF RunInv, PageIsAt, Stamp, Between, memVars, histVars, childVars
<1> QED BY <1>4, <1>5, <1>6 DEF RunInv

-----------------------------------------------------------------------------
(* The invariant holds. *)

\* All but a new file, a lost one and a death are steps of the store, or none.
LEMMA StoreGoesOn ==
  ASSUME StoreInv, RunInv,
         ChildStep \/ ChildDies \/ StoreRuns \/ ParentOpens \/ ParentCloses \/ PowerFails
           \/ Evicted \/ UNCHANGED allVars
  PROVE  StoreInv'
<1>1. ASSUME [Next]_vars PROVE StoreInv'
  <2>1. TypeOK' /\ ListPagesInv'
    BY <1>1, NextType, ListPagesStep DEF StoreInv
  <2> QED BY <1>1, <2>1, InvariantNext DEF StoreInv
<1>2. CASE ChildStep
  <2>1. CASE ChildWrite
    <3>1. page \in PageIDs /\ durable.checkpoint + 1 \in Values
      BY <2>1, UsableState, RootIsHeld, NextNumber
      DEF ChildWrite, Write, RunInv, PageIsAt, StoreInv, usable
    <3> QED BY <1>1, <2>1, <3>1 DEF ChildWrite, Next, ClientStep
  <2>2. CASE ChildSetRoot
    <3>1. page \in PageIDs
      BY <2>2, UsableState, RootIsHeld DEF ChildSetRoot, SetRoot, RunInv, PageIsAt, StoreInv
    <3> QED BY <1>1, <2>2, <3>1 DEF ChildSetRoot, Next, ClientStep
  <2>3. CASE ChildFree
    <3>1. old \in PageIDs
      BY <2>3 DEF ChildFree, RunInv, PageIsAt
    <3> QED BY <1>1, <2>3, <3>1 DEF ChildFree, Next, ClientStep
  <2>4. CASE ChildCreate \/ ChildAllocate \/ ChildCheckpoint
    BY <1>1, <2>4 DEF ChildCreate, ChildAllocate, ChildCheckpoint, Next, ClientStep
  <2>5. CASE Created \/ ChildSay \/ Checkpointed
    BY <1>1, <2>5 DEF Created, ChildSay, Checkpointed
  <2> QED BY <1>2, <2>1, <2>2, <2>3, <2>4, <2>5 DEF ChildStep
<1>3. CASE ChildDies
  <2>1. NoStore("down") /\ UNCHANGED <<diskVars, saved, doubt, clobbered, trouble>>
    BY <1>3 DEF ChildDies
  <2>2. IInv'
    BY <2>1, GiveUp DEF StoreInv
  <2>3. ListPagesInv'
    BY <2>1 DEF NoStore, ListPagesInv
  <2>4. TypeOK'
    BY <2>1, NoStoreType DEF StoreInv, TypeOK, DiskType, HistType, diskVars
  <2> QED BY <2>2, <2>3, <2>4 DEF StoreInv
<1>4. CASE StoreRuns \/ ParentOpens \/ ParentCloses \/ PowerFails \/ Evicted
  BY <1>1, <1>4 DEF StoreRuns, ParentOpens, ParentCloses, PowerFails, Evicted, Next, ClientStep, World
<1>5. CASE UNCHANGED allVars
  BY <1>1, <1>5 DEF allVars
<1> QED BY <1>2, <1>3, <1>4, <1>5

LEMMA KStep ==
  ASSUME KInv, [KNext]_allVars
  PROVE  KInv'
<1>1. CASE Lost
  <2>1. CASE NextRun
    BY <2>1, NextRunBegins DEF KInv
  <2>2. CASE PowerFails
    BY <1>1, <2>2 DEF Lost, PowerFails, PowerCut, NoStore, KInv
  <2>3. CASE Evicted \/ UNCHANGED allVars
    BY <1>1, <2>3 DEF Lost, KInv, Evicted, Evict, allVars, vars, callVars, childVars, nameVars
  <2>4. ~ ChildStep /\ ~ ChildDies /\ ~ ParentOpens /\ ~ FileIsLost
    BY <1>1 DEF Lost, ChildStep, ChildCreate, Created, ChildSay, ChildAllocate, ChildWrite,
                ChildSetRoot, ChildFree, ChildCheckpoint, Checkpointed, ChildDies, ParentOpens,
                FileIsLost
  <2>5. ~ StoreRuns /\ ~ ParentCloses
    BY <1>1 DEF Lost, StoreRuns, StoreStep, ParentCloses, Close, CkSync, CkTake, CkTaken, CkList,
                CkListSync, CkMeta, CkMetaSync, WalkPage, WalkDone, LdMeta, LdSync, Parent
  <2> QED BY <2>1, <2>2, <2>3, <2>4, <2>5 DEF KNext
<1>2. CASE StoreInv /\ RunInv
  <2>1. CASE NextRun
    BY <2>1, NextRunBegins DEF KInv
  <2>2. CASE FileIsLost
    BY <1>2, <2>2 DEF FileIsLost, NoFile, NoStore, Lost, KInv, RunInv, FileIsAt
  <2>3. CASE ChildStep \/ ChildDies \/ StoreRuns \/ ParentOpens \/ ParentCloses \/ PowerFails
               \/ Evicted \/ UNCHANGED allVars
    <3>1. StoreInv'
      BY <1>2, <2>3, StoreGoesOn
    <3>2. RunInv'
      BY <1>2, <2>3, <3>1, ChildRuns, StoreRunsStep, OthersRun, EvictionRuns
    <3> QED BY <3>1, <3>2 DEF KInv
  <2> QED BY <2>1, <2>2, <2>3 DEF KNext
<1> QED BY <1>1, <1>2 DEF KInv

\* Runs of the loop one after the other, with deaths, power cuts and failed calls
\* anywhere: what the child said, what the file holds and what its pages say keep step.
THEOREM KillNineInvariant == KSpec => []KInv
<1>1. KInit => KInv
  BY RunBegins DEF KInv
<1>2. KInv /\ [KNext]_allVars => KInv'
  BY KStep
<1> QED BY <1>1, <1>2, PTL DEF KSpec

\* A reopened file is never behind what the child was told was durable, nor more than
\* one checkpoint ahead; and it is missing only if the child had said nothing.
THEOREM FileNeverBehind == KSpec => []NeverBehind
<1>1. KInv => NeverBehind
  <2>1. CASE Lost
    BY <2>1 DEF Lost, NeverBehind, Reopened
  <2>2. CASE StoreInv /\ RunInv
    <3>1. Reopened => durable.checkpoint = saved.checkpoint
      BY <2>2, NumberIsKnown DEF Reopened
    <3> QED BY <2>2, <3>1 DEF NeverBehind, RunInv, FileIsAt
  <2> QED BY <2>1, <2>2 DEF KInv
<1> QED BY <1>1, KillNineInvariant, PTL

\* The root of a reopened file holds the stamp of the checkpoint the file is at.
THEOREM RootKeepsItsStamp == KSpec => []RootIsStamped
<1>1. KInv => RootIsStamped
  <2>1. SUFFICES ASSUME KInv, Reopened, root # NoPage
        PROVE  cache[root] = UserPage(durable.checkpoint)
    BY DEF RootIsStamped
  <2>2. StoreInv /\ RunInv /\ pc = "idle" /\ child = "dead"
    BY <2>1 DEF KInv, Lost, Reopened
  <2>3. durable.checkpoint = saved.checkpoint
    BY <2>2, NumberIsKnown
  <2>4. root = saved.root /\ Recorded(saved) /\ clobbered = {}
    BY <2>2 DEF RunInv, FileIsAt, ParentOnlyLooks
  <2>5. root \in saved.held \ clobbered /\ saved.data[root] = UserPage(saved.checkpoint)
    BY <2>1, <2>4 DEF Recorded
  <2>6. cache[root] = saved.data[root]
    BY <2>2, <2>5 DEF StoreInv, IInv, DriveInv, IntactInv, Stable
  <2> QED BY <2>3, <2>5, <2>6
<1> QED BY <1>1, KillNineInvariant, PTL

=============================================================================
