---------------------------- MODULE PageStoreProofs ----------------------------
(***************************************************************************)
(* Theorems about the page store, for every number of pages, chunk size,   *)
(* free-list page capacity and bound on failures.                          *)
(*                                                                         *)
(* First part: its types, when it is silent and which pages it slices; and *)
(* then the lemmas that the proof of the invariant of PageStoreInv rests   *)
(* on, about sets of numbers, lists of pages, the size of the file, and    *)
(* what each operation of the disk keeps.                                  *)
(* Second part: each call, each step of a checkpoint and the end of a      *)
(* process keep the invariant.                                             *)
(* Third part: opening keeps it; it holds; and the refinement.             *)
(***************************************************************************)
EXTENDS PageStoreInv, SequenceTheorems, FiniteSetTheorems, WellFoundedInduction, TLAPS

USE MaxPagesAssumption DEF PageIDs, MetaPage, NoPage

-----------------------------------------------------------------------------
(* Contents and the drive. *)

\* The contents the store writes are contents a page may have.
LEMMA ContentKinds ==
  /\ None \in Content /\ Zero \in Content /\ Torn \in Content
  /\ \A v \in Values \cup {Fresh} : UserPage(v) \in Content
  /\ \A next \in PageIDs, entries \in Seq(PageIDs) : FreeListPage(next, entries) \in Content
  /\ \A m \in MetaRecord : m \in Content
  /\ NoMeta \in MetaRecord
BY DEF Content, None, Zero, Torn, UserPage, FreeListPage, MetaRecord, NoMeta, Meta

\* A page is of the kind it says, with that kind's fields.
LEMMA KindTells ==
  ASSUME NEW c \in Content
  PROVE  /\ c.kind = "meta" => c \in MetaRecord
         /\ c.kind = "freelist" => c.next \in PageIDs /\ c.entries \in Seq(PageIDs)
BY DEF Content, None, Zero, Torn, MetaRecord

LEMMA DiskWriteType ==
  ASSUME DiskType, NEW zeroed, NEW written, NEW c \in Content,
         DiskWrite(zeroed, written, c)
  PROVE  DiskType'
BY ContentKinds DEF DiskType, DiskWrite

LEMMA DiskWriteFailsType ==
  ASSUME DiskType, NEW zeroed, NEW p, NEW c \in Content,
         DiskWriteFails(zeroed, p, c)
  PROVE  DiskType'
<1>1. PICK written \in {{}, {p}} :
        DiskWrite(zeroed, written, IF p = MetaPage THEN c ELSE Torn)
  BY DEF DiskWriteFails
<1>2. (IF p = MetaPage THEN c ELSE Torn) \in Content
  BY ContentKinds
<1> QED BY <1>1, <1>2, DiskWriteType

LEMMA FillHolesType ==
  ASSUME NEW image \in [PageIDs -> Content]
  PROVE  FillHoles(image) \in [PageIDs -> Content]
BY ContentKinds DEF FillHoles

LEMMA LandedType ==
  ASSUME DiskType, NEW image \in Landed
  PROVE  image \in [PageIDs -> Content]
<1>1. PICK land :
        /\ \A p \in Written : land[p] \in Landing(p)
        /\ image = FillHoles([p \in PageIDs |-> IF p \in Written THEN land[p] ELSE drive[p]])
  BY DEF Landed
<1>2. \A p \in PageIDs : Landing(p) \subseteq Content
  BY ContentKinds DEF Landing, DiskType
<1>3. [p \in PageIDs |-> IF p \in Written THEN land[p] ELSE drive[p]]
        \in [PageIDs -> Content]
  BY <1>1, <1>2 DEF Written, DiskType
<1> QED BY <1>1, <1>3, FillHolesType

LEMMA DiskSyncType ==
  ASSUME DiskType, DiskSync \/ DiskSyncFails \/ DiskPowerCut
  PROVE  DiskType'
<1>1. CASE DiskSync
  <2>1. [p \in PageIDs |-> IF pend[p] = {} THEN drive[p] ELSE cache[p]]
          \in [PageIDs -> Content]
    BY DEF DiskType
  <2> QED BY <1>1, <2>1, FillHolesType DEF DiskSync, DiskType
<1>2. CASE DiskSyncFails
  BY <1>2, LandedType DEF DiskSyncFails, DiskType
<1>3. CASE DiskPowerCut
  BY <1>3, LandedType DEF DiskPowerCut, DiskType
<1> QED BY <1>1, <1>2, <1>3

LEMMA DiskEvictType ==
  ASSUME DiskType, NEW p \in PageIDs, DiskEvict(p)
  PROVE  DiskType'
BY ContentKinds DEF DiskType, DiskEvict, OnDrive

-----------------------------------------------------------------------------
(* Memory. *)

LEMMA StatusOfType ==
  ASSUME NEW frees, NEW pends, NEW lists
  PROVE  StatusOf(frees, pends, lists)
           \in [PageIDs -> {"owned", "free", "pending", "freelist"}]
BY DEF StatusOf

LEMMA LastFrontType ==
  ASSUME NEW s \in Seq(PageIDs), s # <<>>
  PROVE  Last(s) \in PageIDs /\ Front(s) \in Seq(PageIDs)
<1>1. Len(s) \in Nat \ {0}
  BY EmptySeq, LenProperties
<1> QED BY <1>1, LenProperties, SubSeqProperties DEF Last, Front

LEMMA GrowToType ==
  ASSUME NEW pages \in 0 .. MaxPages
  PROVE  growTo(pages) \in 0 .. MaxPages
BY ChunkAssumption DEF growTo

LEMMA EntriesType ==
  ASSUME MemType, CallType
  PROVE  Entries \in Seq(PageIDs) /\ Len(Entries) = Count
<1>1. ck.free \in Seq(PageIDs) /\ pending \in Seq(PageIDs) /\ listPage \in Seq(PageIDs)
  BY DEF MemType, CallType
<1> QED BY <1>1, ConcatProperties, LenProperties DEF Entries, Count

LEMMA MetaType ==
  ASSUME NEW rt \in PageIDs, NEW head \in PageIDs, NEW count \in Nat,
         NEW next \in 0 .. MaxPages, NEW file \in 0 .. MaxPages, NEW number \in Nat
  PROVE  Meta(rt, head, count, next, file, number) \in MetaRecord
BY DEF Meta, MetaRecord

LEMMA NextMetaType ==
  ASSUME MemType, CallType
  PROVE  NextMeta \in MetaRecord
<1>1. (IF ck.lists = <<>> THEN NoPage ELSE Head(ck.lists)) \in PageIDs
  BY HeadTailProperties DEF CallType
<1>2. Len(Entries) \in Nat
  BY EntriesType, LenProperties
<1>3. durable.checkpoint + 1 \in Nat
  BY DEF MemType, MetaRecord
<1>4. root \in PageIDs /\ ck.next \in 0 .. MaxPages /\ ck.file \in 0 .. MaxPages
  BY DEF MemType, CallType
<1> HIDE DEF PageIDs, NoPage
<1> QED BY <1>1, <1>2, <1>3, <1>4, MetaType DEF NextMeta

\* A process that lets its Store go leaves memory of the right type.
LEMMA TroubleType ==
  ASSUME trouble \in Nat, Trouble \/ UNCHANGED trouble
  PROVE  trouble' \in Nat
BY DEF Trouble

LEMMA NoStoreType ==
  ASSUME NEW where \in {"down", "refused"}, NoStore(where)
  PROVE  MemType' /\ CallType' /\ held' = {}
<1>1. MemType'
  BY ContentKinds, StatusOfType, EmptySeq DEF MemType, NoStore
<1>2. CallType'
  BY EmptySeq DEF CallType, NoStore, NoCheckpoint, NoWalk
<1> QED BY <1>1, <1>2 DEF NoStore

LEMMA CheckpointFailsType ==
  ASSUME MemType, CallType, HistType, NEW poisons \in BOOLEAN, CheckpointFails(poisons)
  PROVE  MemType' /\ CallType' /\ held' \subseteq PageIDs
<1>1. CASE caller = "client"
  <2>1. NoCheckpoint \in [free : Seq(PageIDs), next : 0 .. MaxPages, file : 0 .. MaxPages,
                          lists : Seq(PageIDs), at : Nat]
    BY EmptySeq DEF NoCheckpoint
  <2> QED BY <1>1, <2>1 DEF MemType, CallType, HistType, CheckpointFails
<1>2. CASE caller # "client"
  BY <1>2, NoStoreType DEF CheckpointFails
<1> QED BY <1>1, <1>2

-----------------------------------------------------------------------------
(* Client calls keep the types. *)

USE DEF diskVars, memVars, callVars, histVars

LEMMA SetRootType ==
  ASSUME TypeOK, NEW id \in PageIDs, SetRoot(id)
  PROVE  TypeOK'
<1> USE DEF SetRoot
<1>1. DiskType'
  BY DEF TypeOK, DiskType
<1>2. MemType'
  BY DEF TypeOK, MemType
<1>3. CallType' /\ HistType' /\ trouble' \in Nat
  BY DEF TypeOK, CallType, HistType
<1> QED BY <1>1, <1>2, <1>3 DEF TypeOK

LEMMA WriteType ==
  ASSUME TypeOK, NEW id \in PageIDs, NEW v \in Values, Write(id, v)
  PROVE  TypeOK'
<1> USE DEF Write
<1>1. DiskType'
  BY ContentKinds, DiskWriteType, DiskWriteFailsType DEF TypeOK
<1>2. MemType'
  BY DEF TypeOK, MemType
<1>3. CallType'
  BY DEF TypeOK, CallType
<1>4. HistType'
  BY DEF TypeOK, HistType, Overwritten
<1>5. trouble' \in Nat
  BY DEF TypeOK, Trouble
<1> QED BY <1>1, <1>2, <1>3, <1>4, <1>5 DEF TypeOK

LEMMA AllocateReusedType ==
  ASSUME TypeOK, AllocateReused
  PROVE  TypeOK'
<1> USE DEF AllocateReused
<1>1. DiskType'
  BY ContentKinds, DiskWriteType, DiskWriteFailsType DEF TypeOK
<1>2. Last(free) \in PageIDs /\ Front(free) \in Seq(PageIDs)
  BY LastFrontType DEF TypeOK, MemType
<1>3. MemType'
  BY <1>2 DEF TypeOK, MemType
<1>4. CallType'
  BY DEF TypeOK, CallType
<1>5. HistType'
  BY <1>2 DEF TypeOK, HistType
<1>6. trouble' \in Nat
  BY DEF TypeOK, Trouble
<1> QED BY <1>1, <1>3, <1>4, <1>5, <1>6 DEF TypeOK

LEMMA AllocateNewType ==
  ASSUME TypeOK, AllocateNew
  PROVE  TypeOK'
<1> DEFINE full == nextPage >= filePages
           size == IF full THEN growTo(filePages) ELSE filePages
<1> USE DEF AllocateNew
<1>1. DiskType'
  BY ContentKinds, DiskWriteType, DiskWriteFailsType DEF TypeOK
<1>2. size \in 0 .. MaxPages
  BY GrowToType DEF TypeOK, MemType
<1>3. nextPage \in PageIDs /\ nextPage + 1 \in 0 .. MaxPages
  BY DEF TypeOK, MemType
<1>4. MemType'
  BY <1>2, <1>3 DEF TypeOK, MemType
<1>5. CallType'
  BY DEF TypeOK, CallType
<1>6. HistType'
  BY <1>3 DEF TypeOK, HistType
<1>7. trouble' \in Nat
  BY DEF TypeOK, Trouble
<1> QED BY <1>1, <1>4, <1>5, <1>6, <1>7 DEF TypeOK

LEMMA FreeType ==
  ASSUME TypeOK, NEW id \in PageIDs, Free(id)
  PROVE  TypeOK'
<1> USE DEF Free
<1>1. DiskType'
  BY DEF TypeOK, DiskType
<1>2. MemType'
  BY AppendProperties DEF TypeOK, MemType
<1>3. CallType' /\ HistType' /\ trouble' \in Nat
  BY DEF TypeOK, CallType, HistType
<1> QED BY <1>1, <1>2, <1>3 DEF TypeOK

LEMMA SyncType ==
  ASSUME TypeOK, Sync
  PROVE  TypeOK'
<1> USE DEF Sync
<1>1. DiskType'
  BY DiskSyncType DEF TypeOK
<1>2. MemType'
  BY DEF TypeOK, MemType
<1>3. CallType' /\ HistType'
  BY DEF TypeOK, CallType, HistType
<1>4. trouble' \in Nat
  BY DEF TypeOK, Trouble
<1> QED BY <1>1, <1>2, <1>3, <1>4 DEF TypeOK

LEMMA CheckpointType ==
  ASSUME TypeOK, Checkpoint
  PROVE  TypeOK'
<1> USE DEF Checkpoint, StartCheckpoint
<1>1. DiskType' /\ MemType' /\ HistType' /\ trouble' \in Nat
  BY DEF TypeOK, DiskType, MemType, HistType
<1>2. CallType'
  BY DEF TypeOK, CallType
<1> QED BY <1>1, <1>2 DEF TypeOK

LEMMA CloseType ==
  ASSUME TypeOK, Close \/ Discard
  PROVE  TypeOK'
<1> USE DEF Close, Discard
<1>1. DiskType' /\ trouble' \in Nat
  BY DEF TypeOK, DiskType
<1>2. MemType' /\ CallType' /\ held' \subseteq PageIDs
  <2>1. CASE NoStore("down")
    BY <2>1, NoStoreType
  <2>2. CASE StartCheckpoint("close") /\ UNCHANGED <<memVars, held, ck, walk>>
    BY <2>2 DEF TypeOK, MemType, CallType, HistType, StartCheckpoint
  <2> QED BY <2>1, <2>2
<1>3. HistType'
  BY <1>2 DEF TypeOK, HistType
<1> QED BY <1>1, <1>2, <1>3 DEF TypeOK

-----------------------------------------------------------------------------
(* Each I/O of a checkpoint keeps them. *)

LEMMA CkSyncType ==
  ASSUME TypeOK, CkSync
  PROVE  TypeOK'
<1> USE DEF CkSync
<1>1. DiskType'
  BY DiskSyncType DEF TypeOK
<1>2. MemType' /\ CallType' /\ held' \subseteq PageIDs
  <2>1. CASE CheckpointFails(TRUE)
    BY <2>1, CheckpointFailsType DEF TypeOK
  <2>2. CASE /\ pc' = "ckTake"
             /\ ck' = [free |-> free, next |-> nextPage, file |-> filePages,
                       lists |-> <<>>, at |-> 0]
             /\ UNCHANGED <<memVars, held, caller, walk>>
    BY <2>2, EmptySeq DEF TypeOK, MemType, CallType, HistType
  <2> QED BY <2>1, <2>2
<1>3. HistType'
  BY <1>2 DEF TypeOK, HistType
<1>4. trouble' \in Nat
  BY TroubleType DEF TypeOK
<1> QED BY <1>1, <1>2, <1>3, <1>4 DEF TypeOK

LEMMA CkTakeType ==
  ASSUME TypeOK, CkTake
  PROVE  TypeOK'
<1> USE DEF CkTake
<1>1. DiskType'
  BY ContentKinds, DiskWriteType DEF TypeOK, DiskType
<1>2. MemType' /\ CallType' /\ held' \subseteq PageIDs
  <2>1. CASE CheckpointFails(FALSE)
    BY <2>1, CheckpointFailsType DEF TypeOK
  <2>2. CASE ck.free # <<>>
    <3>1. Last(ck.free) \in PageIDs /\ Front(ck.free) \in Seq(PageIDs)
      BY <2>2, LastFrontType DEF TypeOK, CallType
    <3>2. Append(ck.lists, Last(ck.free)) \in Seq(PageIDs)
      BY <3>1, AppendProperties DEF TypeOK, CallType
    <3>3. /\ ck' = [ck EXCEPT !.free = Front(@), !.lists = Append(@, Last(ck.free))]
          /\ UNCHANGED <<memVars, held, pc, caller, walk>>
      BY <2>2
    <3>4. MemType' /\ held' \subseteq PageIDs
      BY <3>3 DEF TypeOK, MemType, HistType
    <3> HIDE DEF CkTake
    <3> QED BY <3>1, <3>2, <3>3, <3>4 DEF TypeOK, CallType
  <2>3. CASE /\ ck.free = <<>> /\ ck.next < MaxPages
             /\ ck' = [ck EXCEPT !.next = @ + 1, !.file = CkSize,
                                 !.lists = Append(@, ck.next)]
             /\ UNCHANGED <<memVars, held, pc, caller, walk>>
    <3>1. CkSize \in 0 .. MaxPages
      BY GrowToType DEF TypeOK, CallType, CkSize
    <3>2. ck.next \in PageIDs /\ ck.next + 1 \in 0 .. MaxPages
      BY <2>3 DEF TypeOK, CallType
    <3>3. Append(ck.lists, ck.next) \in Seq(PageIDs)
      BY <3>2, AppendProperties DEF TypeOK, CallType
    <3> QED BY <2>3, <3>1, <3>2, <3>3 DEF TypeOK, MemType, CallType, HistType
  <2>4. ck.next \in Int /\ ~(ck.next >= MaxPages) => ck.next < MaxPages
    OBVIOUS
  <2>5. ck.next \in Int
    BY DEF TypeOK, CallType
  <2> QED BY <2>1, <2>2, <2>3, <2>4, <2>5
<1>3. HistType'
  BY <1>2 DEF TypeOK, HistType
<1>4. trouble' \in Nat
  BY TroubleType DEF TypeOK
<1> QED BY <1>1, <1>2, <1>3, <1>4 DEF TypeOK

LEMMA CkTakenType ==
  ASSUME TypeOK, CkTaken
  PROVE  TypeOK'
<1> USE DEF CkTaken
<1>1. DiskType' /\ MemType' /\ HistType' /\ trouble' \in Nat
  BY DEF TypeOK, DiskType, MemType, HistType
<1>2. CallType'
  BY DEF TypeOK, CallType
<1> QED BY <1>1, <1>2 DEF TypeOK

\* The slice a list page gets is a sequence of page ids.
LEMMA SliceType ==
  ASSUME MemType, CallType
  PROVE  SubSeq(Entries, lo(ck.at) + 1, hi(ck.at)) \in Seq(PageIDs)
<1>1. Entries \in Seq(PageIDs) /\ Len(Entries) \in Nat
  BY EntriesType, LenProperties
<1>2. lo(ck.at) \in Nat /\ hi(ck.at) \in Int /\ hi(ck.at) <= Len(Entries)
  BY <1>1, CapacityAssumption DEF CallType, lo, hi
<1>3. \A i \in lo(ck.at) + 1 .. hi(ck.at) : Entries[i] \in PageIDs
  BY <1>1, <1>2, LenProperties
<1> QED BY <1>2, <1>3, SubSeqProperties

LEMMA CkListType ==
  ASSUME TypeOK, CkList
  PROVE  TypeOK'
<1> DEFINE next == IF ck.at + 1 < Len(ck.lists) THEN ck.lists[ck.at + 2] ELSE NoPage
           page == FreeListPage(next, SubSeq(Entries, lo(ck.at) + 1, hi(ck.at)))
<1>1. next \in PageIDs
  <2>1. ck.lists \in Seq(PageIDs) /\ ck.at \in Nat
    BY DEF TypeOK, CallType
  <2>2. Len(ck.lists) \in Nat /\ \A i \in 1 .. Len(ck.lists) : ck.lists[i] \in PageIDs
    BY <2>1, LenProperties
  <2>3. PICK at, len \in Nat : at = ck.at /\ len = Len(ck.lists)
    BY <2>1, <2>2
  <2>4. CASE at + 1 < len
    <3>1. at + 2 \in 1 .. len
      BY <2>4
    <3>2. ck.lists[at + 2] \in PageIDs
      BY <2>2, <2>3, <3>1, Zenon
    <3> QED BY <2>3, <2>4, <3>2
  <2>5. CASE ~ (at + 1 < len)
    BY <2>3, <2>5
  <2> QED BY <2>4, <2>5
<1> HIDE DEF next
<1>2. page \in Content
  BY <1>1, SliceType, ContentKinds DEF TypeOK
<1> HIDE DEF page
<1>a. PICK id :
        \/ /\ DiskWrite({}, {id}, page)
           /\ ck' = [ck EXCEPT !.at = @ + 1]
           /\ pc' = AfterListPage
           /\ UNCHANGED <<memVars, held, caller, walk, trouble>>
        \/ Trouble /\ DiskWriteFails({}, id, page) /\ CheckpointFails(FALSE)
  BY DEF CkList, next, page
<1>b. UNCHANGED <<saved, doubt, clobbered>>
  BY DEF CkList
<1>3. DiskType'
  BY <1>a, <1>2, DiskWriteType, DiskWriteFailsType DEF TypeOK
<1>4. MemType' /\ CallType' /\ held' \subseteq PageIDs
  <2>1. CASE CheckpointFails(FALSE)
    BY <2>1, CheckpointFailsType DEF TypeOK
  <2>2. CASE /\ pc' = AfterListPage
             /\ ck' = [ck EXCEPT !.at = @ + 1]
             /\ UNCHANGED <<memVars, held, caller, walk>>
    <3>1. pc' \in {"ckList", "ckListSync"}
      BY <2>2 DEF AfterListPage
    <3>2. ck' \in [free : Seq(PageIDs), next : 0 .. MaxPages, file : 0 .. MaxPages,
                   lists : Seq(PageIDs), at : Nat]
      <4>1. ck \in [free : Seq(PageIDs), next : 0 .. MaxPages, file : 0 .. MaxPages,
                    lists : Seq(PageIDs), at : Nat]
        BY DEF TypeOK, CallType
      <4>2. ck' = [ck EXCEPT !.at = @ + 1]
        BY <2>2
      <4>3. ck.at + 1 \in Nat
        BY <4>1
      <4> HIDE DEF PageIDs
      <4> QED BY <4>1, <4>2, <4>3
    <3>3. CallType'
      BY <2>2, <3>1, <3>2, Zenon DEF TypeOK, CallType
    <3>4. MemType' /\ held' \subseteq PageIDs
      BY <2>2 DEF TypeOK, MemType, HistType
    <3> QED BY <3>3, <3>4
  <2> QED BY <1>a, <2>1, <2>2
<1>5. HistType'
  BY <1>4, <1>b DEF TypeOK, HistType
<1>6. trouble' \in Nat
  BY <1>a, TroubleType DEF TypeOK
<1> QED BY <1>3, <1>4, <1>5, <1>6 DEF TypeOK

LEMMA CkListSyncType ==
  ASSUME TypeOK, CkListSync
  PROVE  TypeOK'
<1> USE DEF CkListSync
<1>1. DiskType'
  BY DiskSyncType DEF TypeOK
<1>2. MemType' /\ CallType' /\ held' \subseteq PageIDs
  <2>1. CASE CheckpointFails(TRUE)
    BY <2>1, CheckpointFailsType DEF TypeOK
  <2>2. CASE pc' = "ckMeta" /\ UNCHANGED <<memVars, held, caller, ck, walk>>
    BY <2>2 DEF TypeOK, MemType, CallType, HistType
  <2> QED BY <2>1, <2>2
<1>3. HistType'
  BY <1>2 DEF TypeOK, HistType
<1>4. trouble' \in Nat
  BY TroubleType DEF TypeOK
<1> QED BY <1>1, <1>2, <1>3, <1>4 DEF TypeOK

LEMMA CkMetaType ==
  ASSUME TypeOK, CkMeta
  PROVE  TypeOK'
<1> USE DEF CkMeta
<1>1. NextMeta \in Content
  BY NextMetaType, ContentKinds DEF TypeOK
<1>2. DiskType'
  BY <1>1, DiskWriteType, DiskWriteFailsType DEF TypeOK
<1>3. MemType' /\ CallType' /\ held' \subseteq PageIDs
  <2>1. CASE CheckpointFails(TRUE)
    BY <2>1, CheckpointFailsType DEF TypeOK
  <2>2. CASE pc' = "ckMetaSync" /\ UNCHANGED <<memVars, held, caller, ck, walk>>
    BY <2>2 DEF TypeOK, MemType, CallType, HistType
  <2> QED BY <2>1, <2>2
<1>4. doubt'.held = held
  <2>1. doubt' = Snapshot(durable.checkpoint + 1)
    OBVIOUS
  <2> HIDE DEF CkMeta
  <2> QED BY <2>1 DEF Snapshot
<1>5. HistType'
  BY <1>3, <1>4 DEF TypeOK, HistType
<1>6. trouble' \in Nat
  BY TroubleType DEF TypeOK
<1> QED BY <1>2, <1>3, <1>5, <1>6 DEF TypeOK

LEMMA CkMetaSyncType ==
  ASSUME TypeOK, CkMetaSync
  PROVE  TypeOK'
<1> USE DEF CkMetaSync
<1>1. DiskType'
  BY DiskSyncType DEF TypeOK
<1>2. MemType' /\ CallType' /\ held' \subseteq PageIDs
  <2>1. CASE NoStore("down")
    BY <2>1, NoStoreType
  <2>2. CASE CheckpointFails(TRUE)
    BY <2>2, CheckpointFailsType DEF TypeOK
  <2>3. CASE Adopt
    <3>1. durable' \in MetaRecord
      BY <2>3, NextMetaType DEF TypeOK, Adopt
    <3>2. free' \in Seq(PageIDs) /\ pending' \in Seq(PageIDs) /\ listPage' \in Seq(PageIDs)
      BY <2>3, EntriesType, EmptySeq DEF TypeOK, CallType, Adopt
    <3>3. status' \in [PageIDs -> {"owned", "free", "pending", "freelist"}]
      BY <2>3, StatusOfType DEF Adopt
    <3>4. MemType'
      BY <2>3, <3>1, <3>2, <3>3 DEF TypeOK, MemType, CallType, Adopt
    <3>5. CallType' /\ held' \subseteq PageIDs
      BY <2>3, EmptySeq DEF TypeOK, CallType, HistType, Adopt, NoCheckpoint
    <3> QED BY <3>4, <3>5
  <2> QED BY <2>1, <2>2, <2>3
<1>3. NoDoubt.held = {}
  BY DEF NoDoubt, Blank
<1>4. saved'.held \subseteq PageIDs /\ doubt'.held \subseteq PageIDs
      /\ clobbered' \subseteq PageIDs
  BY <1>3 DEF TypeOK, HistType, StillClobbered
<1>5. HistType'
  BY <1>2, <1>4 DEF HistType
<1>6. trouble' \in Nat
  BY TroubleType DEF TypeOK
<1> QED BY <1>1, <1>2, <1>5, <1>6 DEF TypeOK

-----------------------------------------------------------------------------
(* Each step of Open keeps them, and so does the world. *)

LEMMA OpenBlankType ==
  ASSUME TypeOK, OpenBlank
  PROVE  TypeOK'
<1> USE DEF OpenBlank
<1>1. DiskType'
  BY ContentKinds, DiskWriteType DEF TypeOK
<1>2. MemType' /\ CallType' /\ held' \subseteq PageIDs
  <2>1. CASE NoStore("down")
    BY <2>1, NoStoreType
  <2>2. CASE /\ root' = NoPage /\ nextPage' = 1 /\ filePages' = ChunkPages
             /\ pc' = "ckSync" /\ caller' = "create"
             /\ UNCHANGED <<durable, free, pending, listPage, status, dirty, poisoned,
                            ck, walk, held>>
    <3>1. MemType'
      BY <2>2, ChunkAssumption DEF TypeOK, MemType
    <3>2. CallType'
      BY <2>2 DEF TypeOK, CallType
    <3> QED BY <2>2, <3>1, <3>2 DEF TypeOK, HistType
  <2> QED BY <2>1, <2>2 DEF StartCheckpoint
<1>3. HistType'
  BY <1>2 DEF TypeOK, HistType
<1>4. trouble' \in Nat
  BY TroubleType DEF TypeOK
<1> QED BY <1>1, <1>2, <1>3, <1>4 DEF TypeOK

LEMMA OpenLoadType ==
  ASSUME TypeOK, OpenLoad
  PROVE  TypeOK'
<1> USE DEF OpenLoad
<1>1. DiskType' /\ trouble' \in Nat
  BY DEF TypeOK, DiskType
<1>2. HistType'
  BY DEF TypeOK, HistType
<1>3. cache[MetaPage] \in Content
  BY DEF TypeOK, DiskType
<1>4. CASE checkMeta(cache[MetaPage])
  <2>1. cache[MetaPage] \in MetaRecord
    BY <1>3, <1>4, KindTells DEF checkMeta
  <2>2. cache[MetaPage].head \in PageIDs
    BY <2>1 DEF MetaRecord
  <2>3. durable' = cache[MetaPage] /\ walk' = [NoWalk EXCEPT !.at = cache[MetaPage].head]
    BY <1>4
  <2>4. MemType'
    BY <2>1, <2>3 DEF TypeOK, MemType
  <2>5. walk' \in [at : PageIDs, entries : Seq(PageIDs), lists : Seq(PageIDs)]
    BY <2>2, <2>3, EmptySeq DEF NoWalk
  <2>6. pc' = "walk" /\ UNCHANGED <<caller, ck>>
    BY <1>4
  <2>7. CallType'
    BY <2>5, <2>6 DEF TypeOK, CallType
  <2> QED BY <1>1, <1>2, <2>4, <2>7 DEF TypeOK
<1>5. CASE ~checkMeta(cache[MetaPage])
  <2>1. MemType' /\ CallType'
    BY <1>5 DEF TypeOK, MemType, CallType
  <2> QED BY <1>1, <1>2, <2>1 DEF TypeOK
<1> QED BY <1>4, <1>5

LEMMA WalkPageType ==
  ASSUME TypeOK, WalkPage
  PROVE  TypeOK'
<1> USE DEF WalkPage
<1>1. DiskType'
  BY DEF TypeOK, DiskType
<1>2. MemType' /\ CallType' /\ held' \subseteq PageIDs
  <2>1. CASE NoStore("refused")
    BY <2>1, NoStoreType
  <2>2. CASE ~NoStore("refused")
    <3>1. walk.at \in PageIDs /\ walk.entries \in Seq(PageIDs) /\ walk.lists \in Seq(PageIDs)
      BY DEF TypeOK, CallType
    <3>2. cache[walk.at] \in Content /\ cache[walk.at].kind = "freelist"
      BY <2>2, <3>1 DEF TypeOK, DiskType, ChainPageOK
    <3>3. cache[walk.at].next \in PageIDs /\ cache[walk.at].entries \in Seq(PageIDs)
      BY <3>2, KindTells
    <3>4. /\ walk.entries \o cache[walk.at].entries \in Seq(PageIDs)
          /\ Append(walk.lists, walk.at) \in Seq(PageIDs)
      BY <3>1, <3>3, ConcatProperties, AppendProperties
    <3>5. /\ walk' = [at |-> cache[walk.at].next,
                      entries |-> walk.entries \o cache[walk.at].entries,
                      lists |-> Append(walk.lists, walk.at)]
          /\ UNCHANGED <<memVars, held, pc, caller, ck>>
      BY <2>2
    <3> HIDE DEF WalkPage, PageIDs
    <3>6. walk' \in [at : PageIDs, entries : Seq(PageIDs), lists : Seq(PageIDs)]
      BY <3>3, <3>4, <3>5
    <3>7. MemType' /\ held' \subseteq PageIDs
      BY <3>5 DEF TypeOK, MemType, HistType
    <3>8. CallType'
      BY <3>5, <3>6, Zenon DEF TypeOK, CallType
    <3> QED BY <3>7, <3>8
  <2> QED BY <2>1, <2>2
<1>3. HistType'
  BY <1>2 DEF TypeOK, HistType
<1>4. trouble' \in Nat
  BY TroubleType DEF TypeOK
<1> QED BY <1>1, <1>2, <1>3, <1>4 DEF TypeOK

LEMMA WalkDoneType ==
  ASSUME TypeOK, WalkDone
  PROVE  TypeOK'
<1> USE DEF WalkDone
<1>1. DiskType'
  BY DEF TypeOK, DiskType
<1>2. MemType' /\ CallType' /\ held' \subseteq PageIDs
  <2>1. CASE NoStore("refused")
    BY <2>1, NoStoreType
  <2>2. CASE ~NoStore("refused")
    <3>1. /\ durable.root \in PageIDs
          /\ durable.next \in 0 .. MaxPages /\ durable.file \in 0 .. MaxPages
      BY DEF TypeOK, MemType, MetaRecord
    <3>2. status' \in [PageIDs -> {"owned", "free", "pending", "freelist"}]
      BY <2>2, StatusOfType
    <3>3. free' \in Seq(PageIDs) /\ listPage' \in Seq(PageIDs)
      BY <2>2 DEF TypeOK, CallType
    <3>4. MemType'
      BY <2>2, <3>1, <3>2, <3>3 DEF TypeOK, MemType
    <3>5. pc' = "ldMeta" /\ walk' = NoWalk /\ UNCHANGED <<caller, ck, held>>
      BY <2>2
    <3>6. NoWalk \in [at : PageIDs, entries : Seq(PageIDs), lists : Seq(PageIDs)]
      BY EmptySeq DEF NoWalk
    <3> HIDE DEF WalkDone
    <3>7. CallType' /\ held' \subseteq PageIDs
      BY <3>5, <3>6 DEF TypeOK, CallType, HistType
    <3> QED BY <3>4, <3>7
  <2> QED BY <2>1, <2>2
<1>3. HistType'
  BY <1>2 DEF TypeOK, HistType
<1>4. trouble' \in Nat
  BY TroubleType DEF TypeOK
<1> QED BY <1>1, <1>2, <1>3, <1>4 DEF TypeOK

LEMMA LdMetaType ==
  ASSUME TypeOK, LdMeta
  PROVE  TypeOK'
<1> USE DEF LdMeta
<1>0. durable \in Content
  BY ContentKinds DEF TypeOK, MemType
<1>1. DiskType'
  BY <1>0, DiskWriteType, DiskWriteFailsType DEF TypeOK
<1>2. MemType' /\ CallType' /\ held' \subseteq PageIDs
  <2>1. CASE NoStore("down")
    BY <2>1, NoStoreType
  <2>2. CASE pc' = "ldSync" /\ UNCHANGED <<memVars, caller, ck, walk, held>>
    BY <2>2 DEF TypeOK, MemType, CallType, HistType
  <2> QED BY <2>1, <2>2
<1>3. HistType'
  BY <1>2 DEF TypeOK, HistType
<1>4. trouble' \in Nat
  BY TroubleType DEF TypeOK
<1> QED BY <1>1, <1>2, <1>3, <1>4 DEF TypeOK

LEMMA LdSyncType ==
  ASSUME TypeOK, LdSync
  PROVE  TypeOK'
<1> USE DEF LdSync
<1>1. DiskType'
  BY DiskSyncType DEF TypeOK
<1>2. Recovered.held \subseteq PageIDs
  BY DEF TypeOK, HistType, Recovered
<1>3. MemType' /\ CallType' /\ held' \subseteq PageIDs
  <2>1. CASE NoStore("down")
    BY <2>1, NoStoreType
  <2>2. CASE /\ pc' = "parent" /\ held' = Recovered.held
             /\ UNCHANGED <<memVars, caller, ck, walk>>
    BY <1>2, <2>2 DEF TypeOK, MemType, CallType
  <2> QED BY <2>1, <2>2
<1>4. saved'.held \subseteq PageIDs
  BY <1>2 DEF TypeOK, HistType
<1>5. NoDoubt.held = {}
  BY DEF NoDoubt, Blank
<1>6. doubt'.held \subseteq PageIDs /\ clobbered' \subseteq PageIDs
  BY <1>5 DEF TypeOK, HistType, StillClobbered
<1>7. HistType'
  BY <1>3, <1>4, <1>6 DEF HistType
<1>8. trouble' \in Nat
  BY TroubleType DEF TypeOK
<1> QED BY <1>1, <1>3, <1>7, <1>8 DEF TypeOK

LEMMA ParentType ==
  ASSUME TypeOK, Parent
  PROVE  TypeOK'
<1> USE DEF Parent
<1>1. DiskType'
  BY DEF TypeOK, DiskType
<1>2. MemType' /\ CallType' /\ held' \subseteq PageIDs
  <2>1. CASE NoStore("down")
    BY <2>1, NoStoreType
  <2>2. CASE pc' = "idle" /\ UNCHANGED <<memVars, caller, ck, walk, held>>
    BY <2>2 DEF TypeOK, MemType, CallType, HistType
  <2> QED BY <2>1, <2>2
<1>3. HistType'
  BY <1>2 DEF TypeOK, HistType
<1>4. trouble' \in Nat
  BY TroubleType DEF TypeOK
<1> QED BY <1>1, <1>2, <1>3, <1>4 DEF TypeOK

LEMMA KillPowerCutType ==
  ASSUME TypeOK, Kill \/ PowerCut
  PROVE  TypeOK'
<1> USE DEF Kill, PowerCut
<1>1. DiskType'
  <2>1. CASE Kill
    BY <2>1 DEF TypeOK, DiskType
  <2>2. CASE PowerCut
    BY <2>2, DiskSyncType DEF TypeOK
  <2> QED BY <2>1, <2>2
<1>2. MemType' /\ CallType' /\ held' \subseteq PageIDs
  BY NoStoreType
<1>3. HistType'
  BY <1>2 DEF TypeOK, HistType
<1>4. trouble' \in Nat
  BY TroubleType DEF TypeOK
<1> QED BY <1>1, <1>2, <1>3, <1>4 DEF TypeOK

LEMMA EvictType ==
  ASSUME TypeOK, NEW p \in PageIDs, Evict(p)
  PROVE  TypeOK'
<1> USE DEF Evict
<1>1. DiskType'
  BY DiskEvictType DEF TypeOK
<1>2. MemType' /\ CallType' /\ HistType' /\ trouble' \in Nat
  BY DEF TypeOK, MemType, CallType, HistType
<1> QED BY <1>1, <1>2 DEF TypeOK

-----------------------------------------------------------------------------
LEMMA InitType ==
  ASSUME Init
  PROVE  TypeOK
<1> USE DEF Init, DiskInit, NoStoreInit
<1>1. DiskType
  BY ContentKinds DEF DiskType
<1>2. MemType
  BY ContentKinds, StatusOfType, EmptySeq DEF MemType
<1>3. CallType
  BY EmptySeq DEF CallType, NoCheckpoint, NoWalk
<1>4. HistType /\ trouble \in Nat
  BY DEF HistType, Blank, NoDoubt
<1> QED BY <1>1, <1>2, <1>3, <1>4 DEF TypeOK

LEMMA NextType ==
  ASSUME TypeOK, [Next]_vars
  PROVE  TypeOK'
<1>1. ASSUME NEW id \in PageIDs, SetRoot(id) PROVE TypeOK'
  BY <1>1, SetRootType
<1>2. ASSUME NEW id \in PageIDs, Free(id) PROVE TypeOK'
  BY <1>2, FreeType
<1>3. ASSUME NEW id \in PageIDs, NEW v \in Values, Write(id, v) PROVE TypeOK'
  BY <1>3, WriteType
<1>4. CASE AllocateReused \/ AllocateNew \/ Sync \/ Checkpoint \/ Close \/ Discard
  BY <1>4, AllocateReusedType, AllocateNewType, SyncType, CheckpointType, CloseType
<1>5. CASE OpenBlank \/ OpenLoad \/ WalkPage \/ WalkDone \/ LdMeta \/ LdSync \/ Parent
  BY <1>5, OpenBlankType, OpenLoadType, WalkPageType, WalkDoneType, LdMetaType,
     LdSyncType, ParentType
<1>6. CASE \/ CkSync \/ CkTake \/ CkTaken \/ CkList \/ CkListSync \/ CkMeta
           \/ CkMetaSync
  BY <1>6, CkSyncType, CkTakeType, CkTakenType, CkListType, CkListSyncType, CkMetaType,
     CkMetaSyncType
<1>7. CASE Kill \/ PowerCut
  BY <1>7, KillPowerCutType
<1>8. ASSUME NEW p \in PageIDs, Evict(p) PROVE TypeOK'
  BY <1>8, EvictType
<1>9. CASE UNCHANGED vars
  <2>1. DiskType' /\ MemType' /\ CallType' /\ HistType' /\ trouble' \in Nat
    BY <1>9 DEF vars, TypeOK, DiskType, MemType, CallType, HistType
  <2> QED BY <2>1 DEF TypeOK
<1> QED
  BY <1>1, <1>2, <1>3, <1>4, <1>5, <1>6, <1>7, <1>8, <1>9
  DEF Next, ClientStep, StoreStep, World

\* Every variable keeps its type, for every number of pages, chunk and capacity:
\* growTo's cap and Allocate's and checkpoint's checks against MaxPages are enough
\* for no page id or file size to go past it, and every page the store writes is
\* one it can read back.
THEOREM TypeCorrect == Spec => []TypeOK
BY InitType, NextType, PTL DEF Spec

-----------------------------------------------------------------------------
(* A poisoned store writes nothing. *)

PoisonInv == poisoned => pc = "idle"

LEMMA PoisonInvStep ==
  ASSUME PoisonInv, [Next]_vars
  PROVE  PoisonInv'
<1> USE DEF PoisonInv
<1>1. ASSUME NoStore("down") \/ NoStore("refused") PROVE PoisonInv'
  BY <1>1 DEF NoStore
<1>2. ASSUME NEW poisons, CheckpointFails(poisons) PROVE PoisonInv'
  BY <1>1, <1>2 DEF CheckpointFails
<1>3. CASE \E id \in PageIDs : SetRoot(id) \/ Free(id)
  BY <1>3 DEF SetRoot, Free
<1>4. CASE \E id \in PageIDs, v \in Values : Write(id, v)
  BY <1>4 DEF Write
<1>5. CASE AllocateReused \/ AllocateNew
  BY <1>5 DEF AllocateReused, AllocateNew
<1>6. CASE Sync
  BY <1>6 DEF Sync, usable
<1>7. CASE Checkpoint
  BY <1>7 DEF Checkpoint, usable, StartCheckpoint
<1>8. CASE Close \/ Discard
  BY <1>1, <1>8 DEF Close, Discard, StartCheckpoint
<1>9. CASE OpenBlank \/ OpenLoad
  BY <1>1, <1>9 DEF OpenBlank, OpenLoad, StartCheckpoint
<1>10. CASE CkSync \/ CkListSync
  BY <1>2, <1>10 DEF CkSync, CkListSync
<1>11. CASE CkTake \/ CkTaken
  BY <1>2, <1>11 DEF CkTake, CkTaken
<1>12. CASE CkList
  BY <1>2, <1>12 DEF CkList
<1>13. CASE CkMeta
  BY <1>2, <1>13 DEF CkMeta
<1>14. CASE CkMetaSync
  BY <1>1, <1>2, <1>14 DEF CkMetaSync, Adopt
<1>15. CASE WalkPage \/ WalkDone
  BY <1>1, <1>15 DEF WalkPage, WalkDone
<1>16. CASE LdMeta \/ LdSync \/ Parent
  BY <1>1, <1>16 DEF LdMeta, LdSync, Parent
<1>17. CASE World
  BY <1>1, <1>17 DEF World, Kill, PowerCut, Evict
<1>18. CASE UNCHANGED vars
  BY <1>18 DEF vars
<1> QED
  BY <1>3, <1>4, <1>5, <1>6, <1>7, <1>8, <1>9, <1>10, <1>11, <1>12, <1>13, <1>14, <1>15,
     <1>16, <1>17, <1>18
  DEF Next, ClientStep, StoreStep

LEMMA PoisonedStep ==
  ASSUME PoisonInv, [Next]_vars, poisoned
  PROVE  \A p \in PageIDs : pend'[p] \subseteq pend[p]
<1>1. pc = "idle" /\ ~usable
  BY DEF PoisonInv, usable
<1>2. CASE Close \/ Discard
  BY <1>2 DEF Close, Discard
<1>3. CASE Kill \/ PowerCut
  BY <1>3 DEF Kill, PowerCut, DiskPowerCut
<1>4. CASE \E p \in PageIDs : Evict(p)
  BY <1>4 DEF Evict, DiskEvict
<1>5. CASE UNCHANGED vars
  BY <1>5 DEF vars
<1>6. ~StoreStep
  BY <1>1 DEF StoreStep, CkSync, CkTake, CkTaken, CkList, CkListSync, CkMeta, CkMetaSync,
     WalkPage, WalkDone, LdMeta, LdSync, Parent
<1>7. ASSUME ClientStep PROVE Close \/ Discard
  BY <1>1, <1>7 DEF ClientStep, SetRoot, Free, Write, AllocateReused, AllocateNew, Sync,
     Checkpoint, OpenBlank, OpenLoad
<1> QED BY <1>2, <1>3, <1>4, <1>5, <1>6, <1>7 DEF Next, World

\* Once an fsync, or the write of the meta page, has failed, no step of the store
\* adds to what is on its way to the drive until the file is opened again.  The
\* argument is that a store is only ever poisoned between calls, where every call
\* that writes asks for `usable`.
THEOREM PoisonedStaysSilent == Spec => PoisonedIsSilent
<1>1. Init => PoisonInv
  BY DEF Init, NoStoreInit, PoisonInv
<1>2. PoisonInv /\ [Next]_vars => PoisonInv'
  BY PoisonInvStep
<1>3. PoisonInv /\ [Next]_vars
        => [poisoned => \A p \in PageIDs : pend'[p] \subseteq pend[p]]_vars
  BY PoisonedStep
<1> QED BY <1>1, <1>2, <1>3, PTL DEF Spec, PoisonedIsSilent

-----------------------------------------------------------------------------
(* The list pages divide the list among them. *)

LEMMA MultiplyMonotonic ==
  ASSUME NEW a \in Int, NEW b \in Int, NEW c \in Nat, a <= b
  PROVE  a * c <= b * c
<1>1. (b - a) * c >= 0
  OBVIOUS
<1>2. (b - a) * c = b * c - a * c
  OBVIOUS
<1> QED BY <1>1, <1>2

\* pagesFor(n) pages are enough for n entries, and no fewer are.
LEMMA PagesForBounds ==
  ASSUME NEW n \in Nat, NEW pages \in Nat
  PROVE  pagesFor(n) > pages <=> n > pages * FreeListCapacity
<1> DEFINE C == FreeListCapacity
           q == (n + C - 1) \div C
<1>1. C \in Nat \ {0}
  BY CapacityAssumption
<1>2. q \in Int /\ q * C <= n + C - 1 /\ n + C - 1 < q * C + C
  BY <1>1
<1>3. pages * C \in Int /\ q * C \in Int
  BY <1>1, <1>2
<1> HIDE DEF q, C
<1>4. ASSUME q > pages PROVE n > pages * C
  <2>1. (pages + 1) * C <= q * C
    BY <1>1, <1>2, <1>4, MultiplyMonotonic
  <2>2. (pages + 1) * C = pages * C + C
    BY <1>1
  <2> QED BY <1>1, <1>2, <1>3, <2>1, <2>2
<1>5. ASSUME n > pages * C PROVE q > pages
  <2>1. SUFFICES ASSUME q <= pages PROVE FALSE
    BY <1>2
  <2>2. q * C <= pages * C
    BY <1>1, <1>2, <2>1, MultiplyMonotonic
  <2> QED BY <1>1, <1>2, <1>3, <1>5, <2>2
<1> QED BY <1>4, <1>5 DEF pagesFor, q, C

\* Holds from the first list page taken on: the pages taken, but for the last, are
\* no more than the entries fill, for taking one shortens the list by at most one.
Filled == Len(ck.lists) > 0 => (Len(ck.lists) - 1) * FreeListCapacity <= Count

Enough == Count <= Len(ck.lists) * FreeListCapacity

ListPagesInv ==
  /\ pc = "ckTake" => Filled
  /\ pc \in {"ckList", "ckListSync", "ckMeta", "ckMetaSync"} => Filled /\ Enough

LEMMA CountType ==
  ASSUME TypeOK
  PROVE  Count \in Nat /\ Len(ck.lists) \in Nat
BY LenProperties DEF TypeOK, MemType, CallType, Count

LEMMA TakeFills ==
  ASSUME TypeOK, CkTake, pc' = "ckTake"
  PROVE  Filled'
<1>1. Count \in Nat /\ Len(ck.lists) \in Nat
  BY CountType
<1>2. Count > Len(ck.lists) * FreeListCapacity
  BY <1>1, PagesForBounds DEF CkTake
<1>3. ~CheckpointFails(FALSE)
  BY DEF CheckpointFails, NoStore
<1>4. CASE ck.free # <<>>
  <2>1. /\ ck'.free = Front(ck.free) /\ ck'.lists = Append(ck.lists, Last(ck.free))
        /\ UNCHANGED <<pending, listPage>>
    BY <1>3, <1>4 DEF CkTake, TypeOK, CallType
  <2>2. Last(ck.free) \in PageIDs /\ Len(Front(ck.free)) = Len(ck.free) - 1
    <3>1. ck.free \in Seq(PageIDs)
      BY DEF TypeOK, CallType
    <3>2. Len(ck.free) \in Nat \ {0}
      BY <3>1, <1>4, EmptySeq
    <3>3. \A i \in 1 .. Len(ck.free) - 1 : ck.free[i] \in PageIDs
      BY <3>1, <3>2, LenProperties
    <3> QED BY <3>1, <3>2, <3>3, <1>4, LastFrontType, SubSeqProperties DEF Front
  <2>3. Len(ck'.lists) = Len(ck.lists) + 1
    BY <2>1, <2>2, AppendProperties DEF TypeOK, CallType
  <2>4. Count' = Count - 1
    BY <2>1, <2>2, LenProperties DEF Count, TypeOK, MemType, CallType
  <2> QED BY <1>1, <1>2, <2>3, <2>4, CapacityAssumption DEF Filled
<1>5. CASE ck.free = <<>>
  <2>a. /\ ck' = [ck EXCEPT !.next = @ + 1, !.file = CkSize, !.lists = Append(@, ck.next)]
        /\ UNCHANGED <<pending, listPage>>
        /\ ~(ck.next >= MaxPages)
    BY <1>3, <1>5 DEF CkTake
  <2>b. ck \in [free : Seq(PageIDs), next : 0 .. MaxPages, file : 0 .. MaxPages,
                lists : Seq(PageIDs), at : Nat]
    BY DEF TypeOK, CallType
  <2>1. ck'.free = ck.free /\ ck'.lists = Append(ck.lists, ck.next)
        /\ UNCHANGED <<pending, listPage>> /\ ck.next \in PageIDs
    BY <2>a, <2>b
  <2>2. Len(ck'.lists) = Len(ck.lists) + 1
    BY <2>1, AppendProperties DEF TypeOK, CallType
  <2>3. Count' = Count
    BY <2>1 DEF Count
  <2> QED BY <1>1, <1>2, <2>2, <2>3, CapacityAssumption DEF Filled
<1> QED BY <1>4, <1>5

LEMMA ListPagesStep ==
  ASSUME TypeOK, ListPagesInv, [Next]_vars
  PROVE  ListPagesInv'
<1> DEFINE Writing == {"ckList", "ckListSync", "ckMeta", "ckMetaSync"}
<1>1. ASSUME pc' \notin Writing \cup {"ckTake"} PROVE ListPagesInv'
  BY <1>1 DEF ListPagesInv
<1>2. ASSUME NoStore("down") \/ NoStore("refused") PROVE ListPagesInv'
  BY <1>1, <1>2 DEF NoStore
<1>3. ASSUME NEW poisons, CheckpointFails(poisons) PROVE ListPagesInv'
  BY <1>1, <1>2, <1>3 DEF CheckpointFails
<1>4. ASSUME ck'.free = ck.free, ck'.lists = ck.lists, UNCHANGED <<pending, listPage>>
      PROVE  Count' = Count /\ Filled' = Filled /\ Enough' = Enough
  BY <1>4 DEF Count, Filled, Enough
<1>5. CASE ClientStep
  <2>1. CASE \/ \E id \in PageIDs : SetRoot(id) \/ Free(id)
             \/ \E id \in PageIDs, v \in Values : Write(id, v)
             \/ AllocateReused \/ AllocateNew \/ Sync
    <3>1. pc' = "idle"
      BY <2>1 DEF SetRoot, Free, Write, AllocateReused, AllocateNew, Sync, usable
    <3> QED BY <3>1, <1>1
  <2>2. CASE Checkpoint \/ Close \/ Discard \/ OpenBlank
    BY <2>2, <1>1, <1>2
    DEF Checkpoint, Close, Discard, OpenBlank, StartCheckpoint
  <2>3. CASE OpenLoad
    BY <2>3, <1>1 DEF OpenLoad
  <2> QED BY <1>5, <2>1, <2>2, <2>3 DEF ClientStep
<1>6. CASE CkSync
  <2>1. ASSUME pc' = "ckTake", ck'.lists = <<>> PROVE ListPagesInv'
    BY <2>1, EmptySeq DEF ListPagesInv, Filled
  <2>2. CASE /\ pc' = "ckTake"
             /\ ck' = [free |-> free, next |-> nextPage, file |-> filePages,
                       lists |-> <<>>, at |-> 0]
    BY <2>1, <2>2
  <2> QED BY <1>3, <1>6, <2>2 DEF CkSync
<1>7. CASE CkTake
  <2>1. CASE pc' = "ckTake"
    BY <1>7, <2>1, TakeFills DEF ListPagesInv
  <2>2. CASE pc' # "ckTake"
    BY <1>3, <1>7, <2>2 DEF CkTake
  <2> QED BY <2>1, <2>2
<1>8. CASE CkTaken
  <2>1. Enough
    <3>1. Count \in Nat /\ Len(ck.lists) \in Nat
      BY CountType
    <3>2. pagesFor(Count) \in Int /\ Len(ck.lists) * FreeListCapacity \in Int
      BY <3>1, CapacityAssumption DEF pagesFor
    <3>3. ~(pagesFor(Count) > Len(ck.lists))
      BY <1>8, <3>1, <3>2 DEF CkTaken
    <3> QED BY <3>1, <3>2, <3>3, PagesForBounds DEF Enough
  <2>2. Filled
    BY <1>8 DEF CkTaken, ListPagesInv
  <2> QED BY <1>4, <1>8, <2>1, <2>2 DEF CkTaken, ListPagesInv
<1>9. CASE CkList
  <2>1. ASSUME pc' = AfterListPage, ck' = [ck EXCEPT !.at = @ + 1], UNCHANGED memVars
        PROVE  ListPagesInv'
    <3>1. ck'.free = ck.free /\ ck'.lists = ck.lists
      BY <2>1 DEF TypeOK, CallType
    <3>2. Filled /\ Enough
      BY <1>9 DEF CkList, ListPagesInv
    <3> QED BY <1>4, <2>1, <3>1, <3>2 DEF ListPagesInv, AfterListPage
  <2> QED BY <1>3, <1>9, <2>1 DEF CkList
<1>10. CASE CkListSync \/ CkMeta
  <2>1. Filled /\ Enough
    BY <1>10 DEF CkListSync, CkMeta, ListPagesInv
  <2>2. ASSUME pc' \in {"ckMeta", "ckMetaSync"}, UNCHANGED <<memVars, ck>>
        PROVE  ListPagesInv'
    BY <1>4, <2>1, <2>2 DEF ListPagesInv
  <2> QED BY <1>3, <1>10, <2>2 DEF CkListSync, CkMeta
<1>11. CASE CkMetaSync
  BY <1>1, <1>2, <1>3, <1>11 DEF CkMetaSync, Adopt
<1>12. CASE WalkPage \/ WalkDone \/ LdMeta \/ LdSync \/ Parent
  BY <1>1, <1>2, <1>12 DEF WalkPage, WalkDone, LdMeta, LdSync, Parent
<1>13. CASE Kill \/ PowerCut
  BY <1>2, <1>13 DEF Kill, PowerCut
<1>14. CASE (\E p \in PageIDs : Evict(p)) \/ UNCHANGED vars
  <2>1. UNCHANGED <<memVars, pc, ck>>
    BY <1>14 DEF Evict, vars
  <2> QED BY <1>4, <2>1 DEF ListPagesInv
<1> QED
  BY <1>5, <1>6, <1>7, <1>8, <1>9, <1>10, <1>11, <1>12, <1>13, <1>14
  DEF Next, StoreStep, World

LEMMA ListPagesFit ==
  ASSUME TypeOK, ListPagesInv
  PROVE  SlicesInBounds
<1> SUFFICES ASSUME pc \in {"ckList", "ckListSync", "ckMeta", "ckMetaSync"}
             PROVE  /\ \A i \in 0 .. Len(ck.lists) - 1 : lo(i) <= Len(Entries)
                    /\ Len(Entries) <= Len(ck.lists) * FreeListCapacity
  BY DEF SlicesInBounds
<1>1. Filled /\ Enough
  BY DEF ListPagesInv
<1>2. Len(Entries) = Count
  BY EntriesType DEF TypeOK
<1>3. Count \in Nat /\ Len(ck.lists) \in Nat
  BY CountType
<1>4. ASSUME NEW i \in 0 .. Len(ck.lists) - 1 PROVE lo(i) <= Len(Entries)
  <2>1. i * FreeListCapacity <= (Len(ck.lists) - 1) * FreeListCapacity
    BY <1>3, MultiplyMonotonic, CapacityAssumption
  <2>2. /\ i * FreeListCapacity \in Int
        /\ (Len(ck.lists) - 1) * FreeListCapacity \in Int
    BY <1>3, CapacityAssumption
  <2> QED BY <1>1, <1>2, <1>3, <2>1, <2>2 DEF Filled, lo
<1> QED BY <1>1, <1>2, <1>4 DEF Enough

\* checkpoint never takes a slice that starts past the end of its list, and its list
\* pages hold every entry, however many pages the list needs and wherever they come
\* from.  The inductive invariant is Filled, while pages are still being taken, and
\* Filled with Enough once they have been.
THEOREM SlicesStayInBounds == Spec => []SlicesInBounds
<1>1. Init => ListPagesInv
  BY DEF Init, NoStoreInit, ListPagesInv
<1>2. TypeOK /\ ListPagesInv /\ [Next]_vars => ListPagesInv'
  BY ListPagesStep
<1>3. TypeOK /\ ListPagesInv => SlicesInBounds
  BY ListPagesFit
<1> QED BY <1>1, <1>2, <1>3, TypeCorrect, PTL DEF Spec

-----------------------------------------------------------------------------
(* Sets of numbers. *)

\* A non-empty set of naturals has a least element.  The intervals below its
\* elements are ordered by inclusion, which is well-founded on finite sets.
LEMMA LeastElement ==
  ASSUME NEW S, S \subseteq Nat, S # {}
  PROVE  \E m \in S : \A n \in S : m <= n
<1> DEFINE below == {0 .. m : m \in S}
<1>1. below \subseteq FiniteSubsetsOf(Nat)
  <2>1. ASSUME NEW m \in S PROVE (0 .. m) \in FiniteSubsetsOf(Nat)
    <3>1. IsFiniteSet(0 .. m)
      BY FS_Interval
    <3>2. (0 .. m) \subseteq Nat
      OBVIOUS
    <3> QED BY <3>1, <3>2 DEF FiniteSubsetsOf
  <2> QED BY <2>1
<1>2. below # {}
  OBVIOUS
<1>3. PICK x \in below : \A y \in below : ~ (<<y, x>> \in StrictSubsetOrdering(Nat))
  <2> HIDE DEF below
  <2> QED BY <1>1, <1>2, FS_StrictSubsetOrderingWellFounded, WFMin
<1>4. PICK m \in S : x = 0 .. m
  BY <1>3
<1>5. ASSUME NEW n \in S PROVE m <= n
  <2>1. SUFFICES ASSUME n < m PROVE FALSE
    BY <1>4
  <2>2. (0 .. n) \in below
    OBVIOUS
  <2>3. (0 .. n) \subseteq (0 .. m) /\ (0 .. n) # (0 .. m)
    <3>1. m \in 0 .. m /\ m \notin 0 .. n
      BY <2>1
    <3> QED BY <2>1, <3>1
  <2>4. (0 .. n) \in SUBSET Nat /\ (0 .. m) \in SUBSET Nat
    OBVIOUS
  <2>5. <<0 .. n, 0 .. m>> \in StrictSubsetOrdering(Nat)
    BY <2>3, <2>4 DEF StrictSubsetOrdering
  <2> QED BY <1>3, <1>4, <2>2, <2>5
<1> QED BY <1>4, <1>5

\* A non-empty set of numbers up to n has a greatest element.
LEMMA GreatestElement ==
  ASSUME NEW n \in Nat, NEW S, S \subseteq 0 .. n, S # {}
  PROVE  \E m \in S : \A k \in S : m >= k
<1> DEFINE mirrored == {n - m : m \in S}
<1>1. mirrored \subseteq Nat /\ mirrored # {}
  OBVIOUS
<1>2. PICK x \in mirrored : \A y \in mirrored : x <= y
  <2> HIDE DEF mirrored
  <2> QED BY <1>1, LeastElement
<1>3. PICK m \in S : x = n - m
  BY <1>2
<1>4. ASSUME NEW k \in S PROVE m >= k
  <2>1. n - k \in mirrored
    OBVIOUS
  <2>2. n - m <= n - k
    BY <1>2, <1>3, <2>1
  <2> QED BY <2>2
<1> QED BY <1>4

\* The size of the file, from the pages it has.
LEMMA PageCountBounds ==
  ASSUME NEW k \in 0 .. MaxPages
  PROVE  /\ PageCount \in Nat
         /\ (\A p \in PageIDs : p >= k => cache[p] = None) => PageCount <= k
         /\ \A p \in PageIDs : cache[p] # None => PageCount > p
<1> DEFINE there == {p \in PageIDs : cache[p] # None}
<1>1. CASE there = {}
  <2>1. PageCount = 0
    BY <1>1 DEF PageCount
  <2> QED BY <1>1, <2>1
<1>2. CASE there # {}
  <2>1. PICK m \in there : \A p \in there : m >= p
    <3>1. there \subseteq 0 .. MaxPages - 1 /\ MaxPages - 1 \in Nat
      OBVIOUS
    <3> HIDE DEF there
    <3> QED BY <1>2, <3>1, GreatestElement
  <2>2. Max(there) \in there /\ \A p \in there : Max(there) >= p
    <3> HIDE DEF there
    <3> QED BY <2>1 DEF Max
  <2>3. PageCount = 1 + Max(there)
    BY <1>2 DEF PageCount
  <2> QED BY <2>2, <2>3
<1> QED BY <1>1, <1>2

-----------------------------------------------------------------------------
(* The disk. *)

\* What FillHoles does to each page, and that it leaves no hole.
LEMMA FillHolesPages ==
  ASSUME NEW image
  PROVE  /\ \A p \in PageIDs : image[p] # None => FillHoles(image)[p] = image[p]
         /\ \A p \in PageIDs : image[p] = None => FillHoles(image)[p] \in {None, Zero}
         /\ \A p \in PageIDs : FillHoles(image)[p] # None =>
              image[p] # None \/ \E q \in PageIDs : q > p /\ image[q] # None
         /\ \A p, q \in PageIDs : p < q /\ FillHoles(image)[q] # None => FillHoles(image)[p] # None
<1>1. None # Zero
  BY DEF None, Zero
<1>2. ASSUME NEW p \in PageIDs, NEW q \in PageIDs, p < q, FillHoles(image)[q] # None
      PROVE  FillHoles(image)[p] # None
  <2>1. PICK r \in PageIDs : r >= q /\ image[r] # None
    BY <1>2 DEF FillHoles
  <2>2. r > p
    BY <1>2, <2>1
  <2> QED BY <1>1, <2>1, <2>2 DEF FillHoles
<1>3. ASSUME NEW p \in PageIDs, FillHoles(image)[p] # None
      PROVE  image[p] # None \/ \E q \in PageIDs : q > p /\ image[q] # None
  BY <1>3 DEF FillHoles
<1> QED BY <1>1, <1>2, <1>3 DEF FillHoles

\* What a crash or a failed fsync makes of each page of the drive.
LEMMA LandedPages ==
  ASSUME NEW image \in Landed
  PROVE  \E land \in [PageIDs -> UNION {Landing(p) : p \in PageIDs}] :
           /\ image = FillHoles(land)
           /\ \A p \in PageIDs : land[p] \in Landing(p)
           /\ \A p \in PageIDs : pend[p] = {} => land[p] = drive[p]
<1>1. PICK f \in [Written -> UNION {Landing(p) : p \in Written}] :
        /\ \A p \in Written : f[p] \in Landing(p)
        /\ image = FillHoles([p \in PageIDs |-> IF p \in Written THEN f[p] ELSE drive[p]])
  BY DEF Landed
<1> DEFINE land == [p \in PageIDs |-> IF p \in Written THEN f[p] ELSE drive[p]]
<1>2. \A p \in PageIDs : land[p] \in Landing(p)
  BY <1>1 DEF Landing
<1>3. \A p \in PageIDs : pend[p] = {} => land[p] = drive[p]
  BY DEF Written
<1>4. land \in [PageIDs -> UNION {Landing(p) : p \in PageIDs}]
  <2>1. land = [p \in PageIDs |-> land[p]]
    OBVIOUS
  <2> QED BY <1>2, <2>1
<1> QED BY <1>1, <1>2, <1>3, <1>4

\* A step that writes nothing: an fsync, a crash, an eviction, or no I/O at all.
\* Pages may fall back to what the drive has, and lose what never reached it.
Quiet ==
  /\ \A p \in PageIDs :
       /\ cache[p] # None /\ drive[p] = cache[p] /\ pend[p] = {}
            => cache'[p] = cache[p] /\ drive'[p] = cache[p] /\ pend'[p] = {}
       /\ drive[p] # None => drive'[p] # None
       /\ cache'[p] # None => cache[p] # None
       /\ {cache[p], drive[p]} \cup pend[p] \subseteq {None, Zero}
            => {cache'[p], drive'[p]} \cup pend'[p] \subseteq {None, Zero}
       /\ pend'[p] \subseteq pend[p]
  /\ \A m \in Metas' : m \in Metas \/ (m = Zero /\ None \in Metas)

\* The drive takes the pages of land, which it may have had or been sent.
Settles(land) ==
  /\ drive' = FillHoles(land)
  /\ cache' = cache \/ cache' = drive'
  /\ \A p \in PageIDs :
       /\ pend'[p] = {}
       /\ pend[p] = {} => land[p] = drive[p]
       /\ pend[p] # {} => land[p] = cache[p] \/ land[p] \in Landing(p)

LEMMA DiskSettles ==
  ASSUME DiskSync \/ DiskSyncFails \/ DiskPowerCut
  PROVE  \E land : Settles(land)
<1>1. CASE DiskSync
  <2> DEFINE land == [p \in PageIDs |-> IF pend[p] = {} THEN drive[p] ELSE cache[p]]
  <2>1. Settles(land)
    BY <1>1 DEF DiskSync, Settles
  <2> QED BY <2>1
<1>2. CASE DiskSyncFails \/ DiskPowerCut
  <2>1. drive' \in Landed
    BY <1>2 DEF DiskSyncFails, DiskPowerCut
  <2>2. PICK land : /\ drive' = FillHoles(land)
                    /\ \A p \in PageIDs : land[p] \in Landing(p)
                    /\ \A p \in PageIDs : pend[p] = {} => land[p] = drive[p]
    BY <2>1, LandedPages
  <2>3. Settles(land)
    BY <1>2, <2>2 DEF DiskSyncFails, DiskPowerCut, Settles
  <2> QED BY <2>3
<1> QED BY <1>1, <1>2

LEMMA SettlesIsQuiet ==
  ASSUME FileInv, NEW land, Settles(land)
  PROVE  Quiet /\ FileInv'
<1>1. None # Zero /\ None # Torn /\ Zero # Torn
  BY DEF None, Zero, Torn
<1>2. /\ drive' = FillHoles(land)
      /\ cache' = cache \/ cache' = drive'
      /\ \A p \in PageIDs : pend'[p] = {}
  BY DEF Settles
<1>3. ASSUME NEW p \in PageIDs
      PROVE  /\ pend[p] = {} => land[p] = drive[p]
             /\ pend[p] # {} => \/ land[p] \in {drive[p], cache[p]} \cup pend[p]
                                \/ /\ p # MetaPage /\ land[p] = Torn
                                   /\ ~ ({drive[p]} \cup pend[p] \subseteq {None, Zero})
  BY DEF Settles, Landing
<1>4. ASSUME NEW p \in PageIDs
      PROVE  /\ land[p] # None => cache[p] # None
             /\ drive[p] # None => land[p] # None
  BY <1>1, <1>3 DEF FileInv
<1>5. /\ \A p \in PageIDs : land[p] # None => drive'[p] = land[p]
      /\ \A p \in PageIDs : land[p] = None => drive'[p] \in {None, Zero}
      /\ \A p \in PageIDs : drive'[p] # None =>
           land[p] # None \/ \E q \in PageIDs : q > p /\ land[q] # None
      /\ \A p, q \in PageIDs : p < q /\ drive'[q] # None => drive'[p] # None
  BY <1>2, FillHolesPages
<1>6. ASSUME NEW p \in PageIDs, drive'[p] # None PROVE cache[p] # None
  BY <1>4, <1>5, <1>6 DEF FileInv
<1>7. FileInv'
  <2>1. \A p \in PageIDs : cache'[p] # None => cache[p] # None
    BY <1>2, <1>6
  <2>2. \A p \in PageIDs : drive'[p] # None => cache'[p] # None
    BY <1>2, <1>6
  <2>3. \A p, q \in PageIDs : p < q /\ cache'[q] # None => cache'[p] # None
    BY <1>2, <1>5 DEF FileInv
  <2> QED BY <1>2, <1>5, <2>2, <2>3 DEF FileInv
<1>8. ASSUME NEW p \in PageIDs
      PROVE  /\ cache[p] # None /\ drive[p] = cache[p] /\ pend[p] = {}
                  => cache'[p] = cache[p] /\ drive'[p] = cache[p] /\ pend'[p] = {}
             /\ drive[p] # None => drive'[p] # None
             /\ cache'[p] # None => cache[p] # None
             /\ {cache[p], drive[p]} \cup pend[p] \subseteq {None, Zero}
                  => {cache'[p], drive'[p]} \cup pend'[p] \subseteq {None, Zero}
             /\ pend'[p] \subseteq pend[p]
  <2>1. cache[p] # None /\ drive[p] = cache[p] /\ pend[p] = {}
          => cache'[p] = cache[p] /\ drive'[p] = cache[p] /\ pend'[p] = {}
    BY <1>2, <1>3, <1>5
  <2>2. drive[p] # None => drive'[p] # None
    BY <1>4, <1>5
  <2>3. cache'[p] # None => cache[p] # None
    BY <1>2, <1>6
  <2>4. {cache[p], drive[p]} \cup pend[p] \subseteq {None, Zero}
          => {cache'[p], drive'[p]} \cup pend'[p] \subseteq {None, Zero}
    BY <1>2, <1>3, <1>5
  <2> QED BY <1>2, <2>1, <2>2, <2>3, <2>4
<1>9. ASSUME NEW m \in Metas' PROVE m \in Metas \/ (m = Zero /\ None \in Metas)
  <2>1. MetaPage \in PageIDs
    OBVIOUS
  <2>2. m \in {cache'[MetaPage], drive'[MetaPage]} \cup pend'[MetaPage]
    BY DEF Metas
  <2>3. m = cache[MetaPage] \/ m = drive'[MetaPage]
    BY <1>2, <2>1, <2>2
  <2>4. land[MetaPage] \in {drive[MetaPage], cache[MetaPage]} \cup pend[MetaPage]
    BY <1>3, <2>1
  <2>5. drive'[MetaPage] = land[MetaPage]
          \/ (land[MetaPage] = None /\ drive'[MetaPage] \in {None, Zero})
    BY <1>5, <2>1
  <2> QED BY <2>3, <2>4, <2>5 DEF Metas
<1> QED BY <1>7, <1>8, <1>9 DEF Quiet

LEMMA EvictIsQuiet ==
  ASSUME DiskType, FileInv, NEW p \in PageIDs, DiskEvict(p)
  PROVE  Quiet /\ FileInv'
<1>1. None # Zero
  BY DEF None, Zero
<1>2. /\ drive' = drive /\ pend' = pend /\ pend[p] = {} /\ cache[p] # None
      /\ \A q \in PageIDs : q # p => cache'[q] = cache[q]
      /\ cache'[p] = IF drive[p] = None THEN Zero ELSE drive[p]
  BY DEF DiskEvict, OnDrive, DiskType
<1>3. \A q \in PageIDs : cache'[q] # None <=> cache[q] # None
  BY <1>1, <1>2
<1>4. FileInv'
  BY <1>2, <1>3 DEF FileInv
<1>5. ASSUME NEW m \in Metas' PROVE m \in Metas \/ (m = Zero /\ None \in Metas)
  BY <1>2 DEF Metas
<1>6. ASSUME NEW q \in PageIDs
      PROVE  /\ cache[q] # None /\ drive[q] = cache[q] /\ pend[q] = {}
                  => cache'[q] = cache[q] /\ drive'[q] = cache[q] /\ pend'[q] = {}
             /\ drive[q] # None => drive'[q] # None
             /\ cache'[q] # None => cache[q] # None
             /\ {cache[q], drive[q]} \cup pend[q] \subseteq {None, Zero}
                  => {cache'[q], drive'[q]} \cup pend'[q] \subseteq {None, Zero}
             /\ pend'[q] \subseteq pend[q]
  BY <1>2, <1>3
<1> QED BY <1>4, <1>5, <1>6 DEF Quiet

LEMMA QuietSteps ==
  ASSUME DiskType, FileInv,
         \/ UNCHANGED diskVars
         \/ DiskSync \/ DiskSyncFails \/ DiskPowerCut
         \/ \E p \in PageIDs : DiskEvict(p)
  PROVE  Quiet /\ FileInv'
<1>1. CASE UNCHANGED diskVars
  BY <1>1 DEF diskVars, Quiet, FileInv, Metas
<1> QED BY <1>1, DiskSettles, SettlesIsQuiet, EvictIsQuiet

\* A step that writes the pages W and leaves the others alone.
Writes(W) ==
  /\ drive' = drive
  /\ \A p \in PageIDs :
       /\ p \notin W => cache'[p] = cache[p] /\ pend'[p] = pend[p]
       /\ p \in W => cache'[p] # None /\ pend'[p] # {}
       /\ pend[p] \subseteq pend'[p]
       /\ None \notin pend[p] => None \notin pend'[p]

\* The pages of W, and none missing before them.
Gapless(W) == \A p \in PageIDs, q \in W : p < q => cache[p] # None \/ p \in W

LEMMA DiskWriteWrites ==
  ASSUME NEW zeroed \in SUBSET PageIDs, NEW written \in SUBSET PageIDs,
         NEW c, c # None, DiskWrite(zeroed, written, c)
  PROVE  Writes(zeroed \cup written)
<1>1. None # Zero
  BY DEF None, Zero
<1> QED BY <1>1 DEF DiskWrite, Writes

LEMMA DiskWriteFailsWrites ==
  ASSUME NEW zeroed \in SUBSET PageIDs, NEW p \in PageIDs,
         NEW c, c # None, DiskWriteFails(zeroed, p, c)
  PROVE  \E W \in SUBSET (zeroed \cup {p}) : zeroed \subseteq W /\ Writes(W)
<1>1. None # Torn
  BY DEF None, Torn
<1>2. PICK written \in {{}, {p}} : DiskWrite(zeroed, written, IF p = MetaPage THEN c ELSE Torn)
  BY DEF DiskWriteFails
<1>3. Writes(zeroed \cup written)
  BY <1>1, <1>2, DiskWriteWrites
<1> QED BY <1>2, <1>3

\* The write of one page, or of some of it.
LEMMA OnePageWrites ==
  ASSUME NEW p \in PageIDs, NEW c, c # None
  PROVE  /\ DiskWrite({}, {p}, c) => Writes({p})
         /\ DiskWriteFails({}, p, c) => \E W \in SUBSET {p} : Writes(W)
<1>1. {} \cup {p} = {p} /\ {} \in SUBSET PageIDs /\ {p} \in SUBSET PageIDs
  OBVIOUS
<1>2. ASSUME DiskWriteFails({}, p, c) PROVE \E W \in SUBSET {p} : Writes(W)
  <2> DEFINE zeroed == {}
  <2>1. zeroed \in SUBSET PageIDs /\ DiskWriteFails(zeroed, p, c)
    BY <1>2
  <2>2. zeroed \cup {p} = {p}
    OBVIOUS
  <2> HIDE DEF zeroed
  <2>3. \E W \in SUBSET (zeroed \cup {p}) : zeroed \subseteq W /\ Writes(W)
    BY <2>1, DiskWriteFailsWrites
  <2> QED BY <2>2, <2>3
<1>3. ASSUME DiskWrite({}, {p}, c) PROVE Writes({p})
  <2>1. Writes({} \cup {p})
    BY <1>1, <1>3, DiskWriteWrites
  <2> QED BY <1>1, <2>1
<1> QED BY <1>2, <1>3

LEMMA WritesKeepFile ==
  ASSUME FileInv, NEW W \in SUBSET PageIDs, Writes(W), Gapless(W)
  PROVE  FileInv'
<1>1. \A p \in PageIDs : cache'[p] # None <=> cache[p] # None \/ p \in W
  BY DEF Writes
<1>2. ASSUME NEW p \in PageIDs, NEW q \in PageIDs, p < q, cache'[q] # None
      PROVE  cache'[p] # None
  BY <1>1, <1>2 DEF FileInv, Gapless
<1> QED BY <1>1, <1>2 DEF FileInv, Writes

\* Pages that follow the file's last, and one that is in the file then.
LEMMA GrowthIsGapless ==
  ASSUME FileInv, NEW from \in 0 .. MaxPages, NEW to \in 0 .. MaxPages,
         from > 0 => cache[from - 1] # None,
         NEW W \in SUBSET PageIDs, NewPages(from, to) \subseteq W,
         \A p \in W : p \in NewPages(from, to) \/ p < from
  PROVE  Gapless(W)
<1>1. SUFFICES ASSUME NEW p \in PageIDs, NEW q \in W, p < q, p \notin W
      PROVE  cache[p] # None
  BY DEF Gapless
<1>2. p < from
  BY <1>1 DEF NewPages
<1>3. from - 1 \in PageIDs /\ from > 0
  BY <1>2
<1> QED BY <1>2, <1>3 DEF FileInv

LEMMA ExistingIsGapless ==
  ASSUME FileInv, NEW W \in SUBSET PageIDs, \A p \in W : cache[p] # None
  PROVE  Gapless(W)
BY DEF FileInv, Gapless

-----------------------------------------------------------------------------
(* Checkpoints on the drive, and what keeps them. *)

LEMMA QuietKeepsStable ==
  ASSUME Quiet, NEW p \in PageIDs, NEW c, Stable(p, c)
  PROVE  Stable(p, c)'
BY DEF Quiet, Stable

LEMMA WritesKeepStable ==
  ASSUME NEW W, Writes(W), NEW p \in PageIDs, p \notin W, NEW c, Stable(p, c)
  PROVE  Stable(p, c)'
BY DEF Writes, Stable

\* What Accounts says of the pages of the list.
LEMMA ListPagesInFile ==
  ASSUME NEW m, NEW L \in PageLists, NEW E \in PageLists, Accounts(m, L, E)
  PROVE  /\ m \in MetaRecord
         /\ m.next \in 1 .. MaxPages /\ m.file \in 1 .. MaxPages
         /\ m.next <= m.file /\ m.file - 1 \in PageIDs
         /\ \A i \in DOMAIN L : L[i] \in Range(L)
         /\ \A i \in DOMAIN L : L[i] \in PageIDs /\ L[i] # MetaPage
         /\ m # None /\ m # Zero
<1>1. m \in MetaRecord /\ m.next # 0 /\ m.next <= m.file
  BY DEF Accounts
<1>2. m.next \in 0 .. MaxPages /\ m.file \in 0 .. MaxPages /\ m.kind = "meta"
  BY <1>1 DEF MetaRecord
<1>3. m # None /\ m # Zero
  BY <1>2 DEF None, Zero
<1>4. \A i \in DOMAIN L : L[i] \in Range(L) /\ L[i] \in PageIDs
  BY DEF PageLists, Range
<1>5. \A i \in DOMAIN L : L[i] # MetaPage
  BY <1>4 DEF Accounts
<1> QED BY <1>1, <1>2, <1>3, <1>4, <1>5

\* A checkpoint stays backed while its list pages are stable and its file there.
LEMMA BacksKept ==
  ASSUME NEW m, NEW s, NEW L \in PageLists, NEW E \in PageLists, Backs(m, s, L, E),
         \A i \in DOMAIN L : \A c : Stable(L[i], c) => Stable(L[i], c)',
         drive[m.file - 1] # None => drive'[m.file - 1] # None
  PROVE  Backs(m, s, L, E)'
<1>1. Chained(L, E)'
  BY DEF Chained, Backs
<1>2. Accounts(m, L, E)'
  BY DEF Backs, Accounts
<1> QED BY <1>1, <1>2 DEF Backs, Leftover

LEMMA QuietKeepsBacks ==
  ASSUME Quiet, NEW m, NEW s, NEW L \in PageLists, NEW E \in PageLists, Backs(m, s, L, E)
  PROVE  Backs(m, s, L, E)'
<1>1. m.file - 1 \in PageIDs /\ \A i \in DOMAIN L : L[i] \in PageIDs
  BY ListPagesInFile DEF Backs
<1>2. drive[m.file - 1] # None => drive'[m.file - 1] # None
  BY <1>1 DEF Quiet
<1>3. \A i \in DOMAIN L : \A c : Stable(L[i], c) => Stable(L[i], c)'
  BY <1>1, QuietKeepsStable
<1> QED BY <1>2, <1>3, BacksKept

LEMMA WritesKeepBacks ==
  ASSUME NEW W, Writes(W), NEW m, NEW s, NEW L \in PageLists, NEW E \in PageLists,
         Backs(m, s, L, E), W \cap Range(L) = {}
  PROVE  Backs(m, s, L, E)'
<1>1. \A i \in DOMAIN L : L[i] \in PageIDs /\ L[i] \in Range(L)
  BY ListPagesInFile DEF Backs
<1>2. \A i \in DOMAIN L : \A c : Stable(L[i], c) => Stable(L[i], c)'
  BY <1>1, WritesKeepStable
<1>3. drive' = drive
  BY DEF Writes
<1> QED BY <1>2, <1>3, BacksKept

LEMMA QuietKeepsBacked ==
  ASSUME Quiet, NEW m, NEW s, Backed(m, s)
  PROVE  Backed(m, s)'
BY QuietKeepsBacks DEF Backed, PageLists

\* Another snapshot of the same number, root and pages is backed as well.
LEMMA BacksAlike ==
  ASSUME NEW m, NEW s, NEW t, NEW L, NEW E, Backs(m, s, L, E),
         t.checkpoint = s.checkpoint, t.root = s.root, t.held = s.held
  PROVE  Backs(m, t, L, E)
BY DEF Backs

-----------------------------------------------------------------------------
(* What keeps the invariant of the drive. *)

\* The meta records of a file are records or blank, and a blank one means that no
\* checkpoint has returned.
LEMMA MetasKnown ==
  ASSUME DriveInv, NEW m \in Metas
  PROVE  /\ m \in {None, Zero} => saved = Blank
         /\ m \notin {None, Zero} => m \in MetaRecord /\ m # None /\ (Backed(m, saved) \/ Backed(m, doubt))
<1>1. \/ m \in {None, Zero} /\ saved = Blank
      \/ Backed(m, saved) \/ Backed(m, doubt)
  BY DEF DriveInv, MetaInv
<1>2. \A s : Backed(m, s) => m \in MetaRecord /\ m # None /\ m # Zero
  BY ListPagesInFile DEF Backed, Backs
<1> QED BY <1>1, <1>2

LEMMA QuietKeepsDrive ==
  ASSUME DriveInv, Quiet, FileInv', UNCHANGED <<saved, doubt, clobbered>>,
         HistType
  PROVE  DriveInv'
<1>1. BlankInv'
  <2>1. SUFFICES ASSUME saved = Blank
        PROVE  /\ clobbered = {}
               /\ doubt \in {NoDoubt, FirstSnapshot}
               /\ \A p \in PageIDs \ {MetaPage} :
                    /\ {cache'[p], drive'[p]} \cup pend'[p] \subseteq {None, Zero}
                    /\ p >= ChunkPages => cache'[p] = None
    BY DEF BlankInv
  <2> QED BY <2>1 DEF DriveInv, BlankInv, Quiet
<1>2. SnapshotInv'
  BY DEF DriveInv, SnapshotInv
<1>3. MetaInv'
  <2>1. SUFFICES ASSUME NEW m \in Metas'
        PROVE  \/ m \in {None, Zero} /\ saved = Blank
               \/ Backed(m, saved)' \/ Backed(m, doubt)'
    BY DEF MetaInv
  <2>2. CASE m \in Metas
    <3>1. \/ m \in {None, Zero} /\ saved = Blank
          \/ Backed(m, saved) \/ Backed(m, doubt)
      BY <2>2 DEF DriveInv, MetaInv
    <3> QED BY <3>1, QuietKeepsBacked
  <2>3. CASE m = Zero /\ None \in Metas
    BY <2>3, MetasKnown
  <2> QED BY <2>1, <2>2, <2>3 DEF Quiet
<1>4. IntactInv'
  BY QuietKeepsStable DEF DriveInv, IntactInv, HistType
<1> QED BY <1>1, <1>2, <1>3, <1>4 DEF DriveInv

\* While the store believes in the last checkpoint it writes none of its pages, so
\* that a file reopened now or later still shows it.
LEMMA WritesKeepDrive ==
  ASSUME DriveInv, HistType,
         NEW W \in SUBSET (PageIDs \ {MetaPage}), Writes(W), Gapless(W),
         UNCHANGED <<saved, doubt>>,
         clobbered \subseteq clobbered', clobbered' \subseteq saved.held,
         W \cap (saved.held \ clobbered') = {},
         doubt = NoDoubt, NEW m, Stable(MetaPage, m),
         NEW L \in PageLists, NEW E \in PageLists, Backs(m, saved, L, E),
         W \cap Range(L) = {}
  PROVE  DriveInv' /\ Backs(m, saved, L, E)' /\ Stable(MetaPage, m)'
<1>1. FileInv'
  BY WritesKeepFile DEF DriveInv
<1>2. saved.checkpoint # 0 /\ saved # Blank
  BY DEF Backs, Accounts, Blank
<1>3. Backs(m, saved, L, E)'
  BY WritesKeepBacks
<1>4. Stable(MetaPage, m)'
  BY WritesKeepStable
<1>5. MetaInv'
  <2>1. Metas' = {m}
    BY <1>4 DEF Metas, Stable
  <2> QED BY <1>3, <2>1 DEF MetaInv, Backed
<1>6. IntactInv'
  <2>1. doubt'.held = {}
    BY DEF NoDoubt, Blank
  <2>2. ASSUME NEW p \in saved.held \ clobbered' PROVE Stable(p, saved.data[p])'
    <3>1. p \in PageIDs /\ p \notin W /\ p \in saved.held \ clobbered
      BY <2>2 DEF HistType
    <3>2. Stable(p, saved.data[p])
      BY <3>1 DEF DriveInv, IntactInv
    <3> QED BY <3>1, <3>2, WritesKeepStable
  <2> QED BY <2>1, <2>2 DEF IntactInv
<1>7. BlankInv' /\ SnapshotInv'
  BY <1>2 DEF BlankInv, DriveInv, SnapshotInv
<1> QED BY <1>1, <1>3, <1>4, <1>5, <1>6, <1>7 DEF DriveInv

-----------------------------------------------------------------------------
(* Lists of pages. *)

LEMMA FrontLast ==
  ASSUME NEW s \in PageLists, s # <<>>, Distinct(s)
  PROVE  /\ Front(s) \in PageLists /\ Last(s) \in PageIDs
         /\ Distinct(Front(s))
         /\ Last(s) \notin Range(Front(s))
         /\ Range(s) = Range(Front(s)) \cup {Last(s)}
         /\ Len(Front(s)) = Len(s) - 1
<1>1. Len(s) \in Nat \ {0} /\ DOMAIN s = 1 .. Len(s) /\ \A i \in 1 .. Len(s) : s[i] \in PageIDs
  BY EmptySeq, LenProperties, ElementOfSeq DEF PageLists
<1>2. /\ Front(s) \in PageLists /\ Len(Front(s)) = Len(s) - 1
      /\ \A i \in 1 .. Len(s) - 1 : Front(s)[i] = s[i]
  BY <1>1, SubSeqProperties DEF Front, PageLists
<1>3. DOMAIN Front(s) = 1 .. Len(s) - 1
  BY <1>2, LenProperties DEF PageLists
<1>4. Last(s) = s[Len(s)]
  BY DEF Last
<1>5. Distinct(Front(s))
  BY <1>1, <1>2, <1>3 DEF Distinct
<1>6. Last(s) \notin Range(Front(s))
  BY <1>1, <1>2, <1>3, <1>4 DEF Distinct, Range
<1>7. ASSUME NEW p PROVE p \in Range(s) <=> p \in Range(Front(s)) \/ p = Last(s)
  <2>1. p \in Range(s) <=> \E i \in 1 .. Len(s) : p = s[i]
    BY <1>1 DEF Range
  <2>2. p \in Range(Front(s)) <=> \E i \in 1 .. Len(s) - 1 : p = s[i]
    BY <1>2, <1>3 DEF Range
  <2> QED BY <1>1, <1>4, <2>1, <2>2
<1> QED BY <1>1, <1>2, <1>4, <1>5, <1>6, <1>7

LEMMA AppendPage ==
  ASSUME NEW s \in PageLists, NEW p \in PageIDs
  PROVE  /\ Append(s, p) \in PageLists
         /\ Range(Append(s, p)) = Range(s) \cup {p}
         /\ Distinct(s) /\ p \notin Range(s) => Distinct(Append(s, p))
         /\ Append(s, p) # <<>>
<1> DEFINE t == Append(s, p)
<1>1. /\ t \in Seq(PageIDs) /\ t # <<>> /\ Len(t) = Len(s) + 1
      /\ \A i \in 1 .. Len(s) : t[i] = s[i]
      /\ t[Len(s) + 1] = p
  BY AppendProperties DEF PageLists
<1>2. Len(s) \in Nat /\ DOMAIN s = 1 .. Len(s) /\ DOMAIN t = 1 .. Len(s) + 1
  BY <1>1, LenProperties DEF PageLists
<1> HIDE DEF t
<1>3. ASSUME NEW q PROVE q \in Range(t) <=> q \in Range(s) \/ q = p
  <2>1. q \in Range(t) <=> \E i \in 1 .. Len(s) + 1 : q = t[i]
    BY <1>2 DEF Range
  <2>2. q \in Range(s) <=> \E i \in 1 .. Len(s) : q = t[i]
    BY <1>1, <1>2 DEF Range
  <2> QED BY <1>1, <1>2, <2>1, <2>2
<1>4. Distinct(s) /\ p \notin Range(s) => Distinct(t)
  BY <1>1, <1>2 DEF Distinct, Range
<1> QED BY <1>1, <1>3, <1>4 DEF t, PageLists

LEMMA ConcatPages ==
  ASSUME NEW s \in PageLists, NEW t \in PageLists
  PROVE  /\ s \o t \in PageLists
         /\ Len(s \o t) = Len(s) + Len(t)
         /\ Range(s \o t) = Range(s) \cup Range(t)
         /\ Distinct(s) /\ Distinct(t) /\ Range(s) \cap Range(t) = {} => Distinct(s \o t)
<1>1. /\ s \o t \in Seq(PageIDs) /\ Len(s \o t) = Len(s) + Len(t)
      /\ \A i \in 1 .. Len(s) + Len(t) :
           (s \o t)[i] = IF i <= Len(s) THEN s[i] ELSE t[i - Len(s)]
  BY ConcatProperties DEF PageLists
<1>2. /\ Len(s) \in Nat /\ DOMAIN s = 1 .. Len(s)
      /\ Len(t) \in Nat /\ DOMAIN t = 1 .. Len(t)
      /\ DOMAIN (s \o t) = 1 .. Len(s) + Len(t)
  BY <1>1, LenProperties DEF PageLists
<1>3. Range(s \o t) = Range(s) \cup Range(t)
  BY RangeConcatenation DEF PageLists
<1>4. ASSUME Distinct(s), Distinct(t), Range(s) \cap Range(t) = {},
             NEW i \in DOMAIN (s \o t), NEW j \in DOMAIN (s \o t), i # j
      PROVE  (s \o t)[i] # (s \o t)[j]
  <2>1. ASSUME NEW k \in 1 .. Len(s) + Len(t)
        PROVE  /\ k <= Len(s) => (s \o t)[k] = s[k] /\ s[k] \in Range(s) /\ k \in DOMAIN s
               /\ k > Len(s) => /\ (s \o t)[k] = t[k - Len(s)]
                                /\ t[k - Len(s)] \in Range(t) /\ k - Len(s) \in DOMAIN t
    BY <1>1, <1>2 DEF Range
  <2> QED BY <1>2, <1>4, <2>1 DEF Distinct
<1> QED BY <1>1, <1>3, <1>4 DEF PageLists, Distinct

LEMMA EmptyList ==
  /\ <<>> \in PageLists /\ Range(<<>>) = {} /\ Distinct(<<>>) /\ Len(<<>>) = 0
  /\ \A s \in PageLists : Range(s) = {} => s = <<>>
<1>1. ASSUME NEW s \in PageLists, Range(s) = {} PROVE s = <<>>
  <2>1. SUFFICES ASSUME s # <<>> PROVE FALSE
    OBVIOUS
  <2>2. Len(s) \in Nat \ {0} /\ DOMAIN s = 1 .. Len(s)
    BY <2>1, EmptySeq, LenProperties DEF PageLists
  <2>3. s[1] \in Range(s)
    BY <2>2 DEF Range
  <2> QED BY <1>1, <2>3
<1> QED BY <1>1, EmptySeq DEF PageLists, Range, Distinct

\* StatusOf and the lists it is made from.
LEMMA StatusTells ==
  ASSUME NEW frees, NEW pends, NEW lists, NEW p \in PageIDs
  PROVE  StatusOf(frees, pends, lists)[p] = "owned"
           <=> p \notin Range(frees) \cup Range(pends) \cup Range(lists)
BY DEF StatusOf

LEMMA StatusTaken ==
  ASSUME NEW frees, NEW pends, NEW lists, NEW fewer, NEW id \in PageIDs,
         Range(frees) = Range(fewer) \cup {id},
         id \notin Range(fewer) \cup Range(pends) \cup Range(lists),
         NEW before, before = StatusOf(frees, pends, lists),
         NEW after, after = [before EXCEPT ![id] = "owned"]
  PROVE  after = StatusOf(fewer, pends, lists)
<1>1. ASSUME NEW p \in PageIDs PROVE after[p] = StatusOf(fewer, pends, lists)[p]
  BY DEF StatusOf
<1>2. /\ before \in [PageIDs -> {"owned", "free", "pending", "freelist"}]
      /\ StatusOf(fewer, pends, lists) \in [PageIDs -> {"owned", "free", "pending", "freelist"}]
  BY StatusOfType
<1> QED BY <1>1, <1>2

LEMMA StatusPending ==
  ASSUME NEW frees, NEW pends, NEW lists, NEW more, NEW id \in PageIDs,
         Range(more) = Range(pends) \cup {id},
         id \notin Range(frees) \cup Range(pends) \cup Range(lists),
         NEW before, before = StatusOf(frees, pends, lists),
         NEW after, after = [before EXCEPT ![id] = "pending"]
  PROVE  after = StatusOf(frees, more, lists)
<1>1. ASSUME NEW p \in PageIDs PROVE after[p] = StatusOf(frees, more, lists)[p]
  BY DEF StatusOf
<1>2. /\ before \in [PageIDs -> {"owned", "free", "pending", "freelist"}]
      /\ StatusOf(frees, more, lists) \in [PageIDs -> {"owned", "free", "pending", "freelist"}]
  BY StatusOfType
<1> QED BY <1>1, <1>2

-----------------------------------------------------------------------------
(* The slices of a list that its pages hold. *)

\* The first k pages hold the entries up to the beginning of the next.
LEMMA SlicesJoin ==
  ASSUME NEW E \in PageLists, NEW i \in Nat \ {0}, (i - 1) * FreeListCapacity <= Len(E)
  PROVE  /\ Slice(E, i) \in PageLists /\ Len(Slice(E, i)) <= FreeListCapacity
         /\ Upto(E, i - 1) \in 0 .. Len(E) /\ Upto(E, i) \in Upto(E, i - 1) .. Len(E)
         /\ Slice(E, i) = SubSeq(E, Upto(E, i - 1) + 1, Upto(E, i))
         /\ SubSeq(E, 1, Upto(E, i - 1)) \o Slice(E, i) = SubSeq(E, 1, Upto(E, i))
<1> DEFINE C == FreeListCapacity
           from == (i - 1) * C
<1>1. C \in Nat \ {0} /\ Len(E) \in Nat
  BY CapacityAssumption, LenProperties DEF PageLists
<1>2. from \in Nat /\ i * C = from + C
  <2>1. i - 1 \in Nat
    OBVIOUS
  <2>2. \A a \in Nat : a * C \in Nat /\ (a + 1) * C = a * C + C
    BY <1>1
  <2> QED BY <2>1, <2>2
<1>3. Upto(E, i - 1) = from /\ from <= Len(E)
  BY <1>1, <1>2 DEF Upto
<1>4. /\ Upto(E, i) \in from .. Len(E) /\ Upto(E, i) - from <= C
      /\ Slice(E, i) = SubSeq(E, from + 1, Upto(E, i))
  <2>1. Upto(E, i) = IF from + C > Len(E) THEN Len(E) ELSE from + C
    BY <1>2 DEF Upto
  <2>2. Slice(E, i) = SubSeq(E, from + 1, Upto(E, i))
    BY <2>1 DEF Slice
  <2> HIDE DEF from, C
  <2>3. Upto(E, i) \in from .. Len(E) /\ Upto(E, i) - from <= C
    BY <1>1, <1>2, <1>3, <2>1
  <2> QED BY <2>2, <2>3
<1> HIDE DEF from
<1>5. Slice(E, i) \in PageLists /\ Len(Slice(E, i)) <= C
  <2>1. \A k \in from + 1 .. Upto(E, i) : E[k] \in PageIDs
    <3>1. \A k \in 1 .. Len(E) : E[k] \in PageIDs
      BY ElementOfSeq DEF PageLists
    <3>2. ASSUME NEW k \in from + 1 .. Upto(E, i) PROVE k \in 1 .. Len(E)
      BY <1>1, <1>2, <1>4
    <3> QED BY <3>1, <3>2
  <2> DEFINE to == Upto(E, i)
  <2>2. from + 1 \in Int /\ to \in Int
    BY <1>1, <1>2, <1>4
  <2> HIDE DEF to
  <2>3. SubSeq(E, from + 1, to) \in Seq(PageIDs)
        /\ Len(SubSeq(E, from + 1, to)) = IF from + 1 <= to THEN to - (from + 1) + 1 ELSE 0
    BY <2>1, <2>2, SubSeqProperties DEF to
  <2>4. Slice(E, i) = SubSeq(E, from + 1, to) /\ to - from <= C
    BY <1>4 DEF to
  <2>5. from \in Nat /\ C \in Nat
    BY <1>1, <1>2, CapacityAssumption
  <2>6. PICK f, t, c \in Int : f = from /\ t = to /\ c = C
    BY <2>2, <2>5
  <2>7. (IF f + 1 <= t THEN t - (f + 1) + 1 ELSE 0) <= c
    <3>1. t - f <= c /\ 0 <= c
      BY <2>4, <2>5, <2>6
    <3> QED BY <2>6, <3>1
  <2> QED BY <2>3, <2>4, <2>6, <2>7, Zenon DEF PageLists
<1>6. SubSeq(E, 1, from) \o SubSeq(E, from + 1, Upto(E, i)) = SubSeq(E, 1, Upto(E, i))
  <2>1. 1 \in 1 .. Len(E) + 1 /\ from \in 1 - 1 .. Len(E)
    BY <1>1, <1>2, <1>3
  <2> QED BY <1>4, <2>1, ConcatAdjacentSubSeq DEF PageLists
<1>7. Upto(E, i - 1) \in 0 .. Len(E) /\ Upto(E, i) \in Upto(E, i - 1) .. Len(E)
  BY <1>1, <1>2, <1>3, <1>4
<1>8. /\ Slice(E, i) = SubSeq(E, Upto(E, i - 1) + 1, Upto(E, i))
      /\ SubSeq(E, 1, Upto(E, i - 1)) \o Slice(E, i) = SubSeq(E, 1, Upto(E, i))
  BY <1>3, <1>4, <1>6
<1> QED BY <1>5, <1>7, <1>8

\* All its pages together hold it.
LEMMA SlicesAll ==
  ASSUME NEW E \in PageLists, NEW k \in Nat
  PROVE  /\ Len(E) <= k * FreeListCapacity => Upto(E, k) = Len(E) /\ SubSeq(E, 1, Upto(E, k)) = E
         /\ Upto(E, 0) = 0 /\ SubSeq(E, 1, 0) = <<>>
<1>1. FreeListCapacity \in Nat \ {0} /\ Len(E) \in Nat
  BY CapacityAssumption, LenProperties DEF PageLists
<1>2. 0 * FreeListCapacity = 0 /\ k * FreeListCapacity \in Nat
  BY <1>1
<1>3. SubSeq(E, 1, Len(E)) = E
  BY SubSeqFull DEF PageLists
<1>4. SubSeq(E, 1, 0) = <<>>
  BY SubSeqEmpty
<1>5. Upto(E, 0) = 0
  BY <1>1, <1>2 DEF Upto
<1>6. Len(E) <= k * FreeListCapacity => Upto(E, k) = Len(E)
  BY <1>1, <1>2 DEF Upto
<1> QED BY <1>3, <1>4, <1>5, <1>6

\* What FlattenSeq makes of a sequence of sequences, if g joins the first i of them.
LEMMA FlattenJoins ==
  ASSUME NEW seqs, Len(seqs) \in Nat \ {0}, NEW g,
         \A i \in 1 .. Len(seqs) : g[i] = IF i = 1 THEN seqs[i] ELSE g[i - 1] \o seqs[i]
  PROVE  FlattenSeq(seqs) = g[Len(seqs)]
<1> DEFINE n == Len(seqs)
           Joins(f) == f = [i \in 1 .. n |-> IF i = 1 THEN seqs[i] ELSE f[i - 1] \o seqs[i]]
           h == [i \in 1 .. n |-> g[i]]
           flat == CHOOSE f : Joins(f)
<1>1. FlattenSeq(seqs) = flat[n]
  BY DEF FlattenSeq
<1>2. Joins(h)
  <2>1. ASSUME NEW i \in 1 .. n PROVE h[i] = IF i = 1 THEN seqs[i] ELSE h[i - 1] \o seqs[i]
    <3>1. i # 1 => i - 1 \in 1 .. n
      OBVIOUS
    <3> QED BY <3>1
  <2> QED BY <2>1
<1>3. Joins(flat)
  <2> HIDE DEF Joins, h
  <2> QED BY <1>2
<1>4. \A i \in 1 .. n : flat[i] = IF i = 1 THEN seqs[i] ELSE flat[i - 1] \o seqs[i]
  <2> HIDE DEF flat
  <2> QED BY <1>3
<1> HIDE DEF flat, Joins, h
<1>5. \A i \in 1 .. n : flat[i] = g[i]
  <2> DEFINE wrong == {i \in 1 .. n : flat[i] # g[i]}
  <2>1. SUFFICES ASSUME wrong # {} PROVE FALSE
    OBVIOUS
  <2>2. wrong \subseteq Nat
    OBVIOUS
  <2>3. PICK m \in wrong : \A k \in wrong : m <= k
    <3> HIDE DEF wrong
    <3> QED BY <2>1, <2>2, LeastElement
  <2>4. m \in 1 .. n /\ flat[m] # g[m]
    OBVIOUS
  <2>5. m # 1
    BY <1>4, <2>4
  <2>6. m - 1 \in 1 .. n /\ m - 1 \notin wrong
    <3>1. m - 1 \in 1 .. n /\ ~ (m <= m - 1)
      BY <2>4, <2>5
    <3> HIDE DEF wrong
    <3> QED BY <2>3, <3>1
  <2>7. flat[m - 1] = g[m - 1]
    BY <2>6
  <2> QED BY <1>4, <2>4, <2>5, <2>7
<1> QED BY <1>1, <1>5

\* The slices of a list, on as many pages as it takes, are the list.
LEMMA FlattenSlices ==
  ASSUME NEW E \in PageLists, NEW n \in Nat, Len(E) <= n * FreeListCapacity,
         \A i \in 1 .. n : (i - 1) * FreeListCapacity <= Len(E)
  PROVE  FlattenSeq([i \in 1 .. n |-> Slice(E, i)]) = E
<1> DEFINE seqs == [i \in 1 .. n |-> Slice(E, i)]
           g == [i \in 1 .. n |-> SubSeq(E, 1, Upto(E, i))]
<1>1. ASSUME NEW i \in 1 .. n
      PROVE  /\ Slice(E, i) \in PageLists
             /\ SubSeq(E, 1, Upto(E, i - 1)) \o Slice(E, i) = SubSeq(E, 1, Upto(E, i))
             /\ i = 1 => Slice(E, i) = SubSeq(E, 1, Upto(E, i))
  <2>1. i \in Nat \ {0}
    OBVIOUS
  <2>2. /\ Slice(E, i) \in PageLists
        /\ Slice(E, i) = SubSeq(E, Upto(E, i - 1) + 1, Upto(E, i))
        /\ SubSeq(E, 1, Upto(E, i - 1)) \o Slice(E, i) = SubSeq(E, 1, Upto(E, i))
    BY <2>1, SlicesJoin
  <2>3. i = 1 => Upto(E, i - 1) + 1 = 1
    <3>1. Upto(E, 0) = 0
      BY SlicesAll
    <3> QED BY <3>1
  <2> QED BY <2>2, <2>3
<1>2. seqs \in Seq(PageLists) /\ Len(seqs) = n
  <2>1. \A i \in 1 .. n : Slice(E, i) \in PageLists
    BY <1>1
  <2> QED BY <2>1, SeqDef, LenProperties
<1>3. CASE n = 0
  <2>1. seqs = <<>>
    BY <1>2, <1>3, EmptySeq
  <2>2. E = <<>>
    <3>1. Len(E) \in Nat /\ n * FreeListCapacity = 0
      BY <1>3, CapacityAssumption, LenProperties DEF PageLists
    <3> QED BY <3>1, EmptySeq DEF PageLists
  <2>3. FlattenSeq(<<>>) = <<>>
    BY EmptySeq DEF FlattenSeq
  <2> QED BY <2>1, <2>2, <2>3
<1>4. CASE n # 0
  <2>1. ASSUME NEW i \in 1 .. n
        PROVE  g[i] = IF i = 1 THEN seqs[i] ELSE g[i - 1] \o seqs[i]
    <3>1. i # 1 => i - 1 \in 1 .. n
      OBVIOUS
    <3> QED BY <1>1, <3>1
  <2>2. FlattenSeq(seqs) = g[n]
    <3> HIDE DEF seqs, g
    <3>1. Len(seqs) \in Nat \ {0}
      BY <1>2, <1>4
    <3> QED BY <1>2, <2>1, <3>1, FlattenJoins
  <2>3. g[n] = SubSeq(E, 1, Upto(E, n))
    <3>1. n \in 1 .. n
      BY <1>4
    <3> QED BY <3>1
  <2> QED BY <2>2, <2>3, SlicesAll
<1> QED BY <1>3, <1>4

-----------------------------------------------------------------------------
(***************************************************************************)
(* Second part.  What the invariant says of a store that is open, and that *)
(* each call of a client, each step of a checkpoint, and the end of a      *)
(* process keeps it.                                                       *)
(***************************************************************************)

-----------------------------------------------------------------------------
(* The parts of the invariant that matter in each kind of state. *)

LEMMA DownAgain ==
  ASSUME NoStore("down"), DriveInv'
  PROVE  IInv'
<1>1. DownInv'
  BY DEF DownInv, NoStore
<1>2. WalkInv' /\ LoadInv' /\ ParentInv' /\ NeverPoisonedInCall' /\ NotRefused'
  BY DEF WalkInv, LoadInv, ParentInv, NeverPoisonedInCall, NotRefused, NoStore
<1>3. ~ Live' /\ pc' \notin CkPcs
  BY DEF Live, CkPcs, NoStore
<1>4. ListsInv' /\ BaseInv' /\ CleanInv' /\ TakeInv'
  BY <1>3 DEF ListsInv, BaseInv, CleanInv, TakeInv
<1>5. ListInv' /\ CommitInv'
  BY DEF ListInv, CommitInv, NoStore
<1> QED BY <1>1, <1>2, <1>4, <1>5 DEF IInv

LEMMA IdleAgain ==
  ASSUME pc' = "idle", DriveInv', ListsInv', BaseInv', CleanInv'
  PROVE  IInv'
<1>1. DownInv' /\ WalkInv' /\ LoadInv' /\ ParentInv' /\ NeverPoisonedInCall' /\ NotRefused'
  BY DEF DownInv, WalkInv, LoadInv, ParentInv, NeverPoisonedInCall, NotRefused
<1>2. TakeInv' /\ ListInv' /\ CommitInv'
  BY DEF TakeInv, CkPcs, ListInv, CommitInv
<1> QED BY <1>1, <1>2 DEF IInv

LEMMA CheckpointOn ==
  ASSUME pc' \in {"ckSync"} \cup CkPcs, poisoned' = FALSE, DriveInv', ListsInv', BaseInv',
         CleanInv', TakeInv', ListInv', CommitInv'
  PROVE  IInv'
<1>1. DownInv' /\ WalkInv' /\ LoadInv' /\ ParentInv' /\ NeverPoisonedInCall' /\ NotRefused'
  BY DEF CkPcs, DownInv, WalkInv, LoadInv, ParentInv, NeverPoisonedInCall, NotRefused
<1> QED BY <1>1 DEF IInv

-----------------------------------------------------------------------------
(* What the invariant says of a store that is open. *)

\* Every page up to the end of the file is in the file.
LEMMA PagesInFile ==
  ASSUME TypeOK, IInv, Live
  PROVE  /\ nextPage \in 1 .. MaxPages /\ filePages \in nextPage .. MaxPages
         /\ \A p \in PageIDs : p < filePages => cache[p] # None
         /\ filePages - 1 \in PageIDs
<1>1. nextPage # 0 /\ nextPage <= filePages /\ cache[filePages - 1] # None
  BY DEF IInv, ListsInv
<1>2. nextPage \in 0 .. MaxPages /\ filePages \in 0 .. MaxPages
  BY DEF TypeOK, MemType
<1>3. filePages - 1 \in PageIDs
  BY <1>1, <1>2
<1> QED BY <1>1, <1>2, <1>3 DEF IInv, DriveInv, FileInv

\* The client's pages are those in no list.
LEMMA HeldPages ==
  ASSUME TypeOK, IInv, Live
  PROVE  /\ \A p \in PageIDs : p \in held <=>
              /\ p # MetaPage /\ p < nextPage
              /\ p \notin Range(free) \cup Range(pending) \cup Range(listPage)
         /\ \A p \in PageIDs : owned(p) <=> p \in held
         /\ held \subseteq PageIDs
<1>1. held = OwnedPages /\ status = StatusOf(free, pending, listPage)
  BY DEF IInv, ListsInv
<1>2. \A p \in PageIDs : owned(p) <=> p \in held
  BY <1>1 DEF OwnedPages
<1>3. held \subseteq PageIDs
  BY DEF TypeOK, HistType
<1> QED BY <1>1, <1>2, <1>3, StatusTells DEF owned, inRange

\* What the pages in no list will be.
LEMMA OwnedAfter ==
  ASSUME NEW frees, NEW pends, NEW lists, status' = StatusOf(frees, pends, lists)
  PROVE  OwnedPages' = {p \in PageIDs : /\ p # MetaPage /\ p < nextPage'
                                        /\ p \notin Range(frees) \cup Range(pends) \cup Range(lists)}
<1>1. \A p \in PageIDs : status'[p] = "owned"
         <=> p \notin Range(frees) \cup Range(pends) \cup Range(lists)
  BY StatusTells
<1>2. OwnedPages' = {p \in PageIDs : (p # MetaPage /\ p < nextPage') /\ status'[p] = "owned"}
  BY DEF OwnedPages, owned, inRange
<1> QED BY <1>1, <1>2

\* An open store knows the checkpoint it started from.
LEMMA LastCheckpoint ==
  ASSUME TypeOK, IInv, Live, caller # "create"
  PROVE  \E E \in PageLists :
           /\ Backs(durable, saved, listPage, E) /\ Range(free) \subseteq Range(E)
           /\ saved # Blank /\ saved.checkpoint = durable.checkpoint
           /\ durable.next <= nextPage /\ durable.file <= filePages
           /\ \A p \in saved.held : /\ p # MetaPage /\ p < durable.next
                                    /\ p \notin Range(listPage) \cup Range(E)
           /\ ~ poisoned /\ pc # "ckMetaSync" => Stable(MetaPage, durable) /\ doubt = NoDoubt
<1>1. /\ \E E \in PageLists : Backs(durable, saved, listPage, E) /\ Range(free) \subseteq Range(E)
      /\ durable.next <= nextPage /\ durable.file <= filePages
      /\ ~ poisoned /\ pc # "ckMetaSync" => Stable(MetaPage, durable) /\ doubt = NoDoubt
  BY DEF IInv, BaseInv
<1>2. PICK E \in PageLists : Backs(durable, saved, listPage, E) /\ Range(free) \subseteq Range(E)
  BY <1>1
<1>3. /\ saved.checkpoint = durable.checkpoint /\ durable.checkpoint # 0
      /\ saved.held = Leftover(durable, listPage, E)
  BY <1>2 DEF Backs, Accounts
<1>4. saved # Blank
  BY <1>3 DEF Blank
<1> QED BY <1>1, <1>2, <1>3, <1>4 DEF Leftover

\* What an open store may write to, in any call but the last step of a checkpoint:
\* pages free since the last checkpoint, pages never handed out, and the client's
\* own where they are new or the client answers for them.
LEMMA WritesToOwn ==
  ASSUME TypeOK, IInv, Live, caller # "create", poisoned = FALSE, pc # "ckMetaSync",
         NEW W \in SUBSET (PageIDs \ {MetaPage}), Writes(W), Gapless(W),
         UNCHANGED <<saved, doubt>>,
         clobbered \subseteq clobbered', clobbered' \subseteq saved.held,
         \A p \in W : \/ p \in Range(free) \/ p >= nextPage
                      \/ p \in held \ (saved.held \ clobbered')
  PROVE  /\ DriveInv' /\ doubt' = NoDoubt
         /\ UNCHANGED <<durable, listPage>> =>
              /\ Stable(MetaPage, durable)'
              /\ \E E \in PageLists : Backs(durable, saved, listPage, E)' /\ Range(free) \subseteq Range(E)
<1>1. PICK E \in PageLists :
           /\ Backs(durable, saved, listPage, E) /\ Range(free) \subseteq Range(E)
           /\ durable.next <= nextPage
           /\ \A p \in saved.held : /\ p # MetaPage /\ p < durable.next
                                    /\ p \notin Range(listPage) \cup Range(E)
           /\ Stable(MetaPage, durable) /\ doubt = NoDoubt
  BY LastCheckpoint
<1>2. durable.next \in Nat /\ nextPage \in Nat
  BY PagesInFile DEF TypeOK, MemType, MetaRecord
<1>3. \A p \in Range(listPage) : p < nextPage /\ p \notin Range(free) /\ p \notin held
  <2>1. \A p \in Range(listPage) : p \in PageIDs
    BY RangeOfSeq DEF TypeOK, MemType
  <2> QED BY <2>1, HeldPages DEF IInv, ListsInv
<1>4. ASSUME NEW p \in W PROVE p \notin Range(listPage) /\ p \notin saved.held \ clobbered'
  <2>1. p \in Int /\ durable.next \in Int /\ nextPage \in Int
    BY <1>2
  <2>2. CASE p \in Range(free)
    BY <1>1, <1>3, <2>2
  <2>3. CASE p >= nextPage
    <3>1. ~ (p < nextPage) /\ ~ (p < durable.next)
      BY <1>1, <2>1, <2>3
    <3> QED BY <1>1, <1>3, <3>1
  <2>4. CASE p \in held \ (saved.held \ clobbered')
    BY <1>3, <2>4
  <2> QED BY <2>2, <2>3, <2>4
<1>5. W \cap Range(listPage) = {} /\ W \cap (saved.held \ clobbered') = {}
  BY <1>4
<1>6. PICK m : m = durable
  OBVIOUS
<1>7. PICK L \in PageLists : L = listPage
  BY DEF TypeOK, MemType, PageLists
<1>8. DriveInv' /\ Stable(MetaPage, m)' /\ Backs(m, saved, L, E)'
  BY <1>1, <1>5, <1>6, <1>7, WritesKeepDrive DEF IInv, TypeOK
<1>9. ASSUME UNCHANGED <<durable, listPage>>
      PROVE  Stable(MetaPage, durable)' /\ Backs(durable, saved, listPage, E)'
  <2>1. durable' = m /\ listPage' = L
    BY <1>6, <1>9, <1>7
  <2> QED BY <1>8, <2>1
<1> QED BY <1>1, <1>8, <1>9

\* The lists stay in order while no page is added to or taken from them, and the
\* file keeps its last page.
LEMMA ListsKept ==
  ASSUME TypeOK, IInv, Live, \A p \in PageIDs : cache[p] # None => cache'[p] # None,
         UNCHANGED <<nextPage, filePages, free, pending, listPage, status, held>>,
         root' = NoPage \/ root' \in held
  PROVE  ListsInv'
<1>1. cache'[filePages - 1] # None
  BY PagesInFile
<1>2. OwnedPages' = OwnedPages
  BY DEF OwnedPages, owned, inRange
<1> QED BY <1>1, <1>2 DEF IInv, ListsInv

\* So does what the store took over from the last checkpoint, in a step that writes
\* nothing.
LEMMA BaseKept ==
  ASSUME TypeOK, IInv, Live, caller # "create", Quiet,
         UNCHANGED <<durable, nextPage, filePages, free, listPage, saved>>, caller' # "create",
         ~ poisoned' /\ pc' # "ckMetaSync" =>
           ~ poisoned /\ pc # "ckMetaSync" /\ doubt' = doubt
  PROVE  BaseInv'
<1>1. PICK E \in PageLists :
           /\ Backs(durable, saved, listPage, E) /\ Range(free) \subseteq Range(E)
           /\ durable.next <= nextPage /\ durable.file <= filePages
           /\ ~ poisoned /\ pc # "ckMetaSync" => Stable(MetaPage, durable) /\ doubt = NoDoubt
  BY LastCheckpoint
<1>2. listPage \in PageLists
  BY DEF TypeOK, MemType, PageLists
<1>3. Backs(durable, saved, listPage, E)'
  BY <1>1, <1>2, QuietKeepsBacks
<1>4. Stable(MetaPage, durable) => Stable(MetaPage, durable)'
  BY QuietKeepsStable
<1>5. \E F \in PageLists : Backs(durable, saved, listPage, F)' /\ Range(free') \subseteq Range(F)
  BY <1>1, <1>3
<1>6. /\ durable'.next <= nextPage' /\ durable'.file <= filePages'
      /\ ~ poisoned' /\ pc' # "ckMetaSync" => Stable(MetaPage, durable)' /\ doubt' = NoDoubt
  BY <1>1, <1>4
<1> QED BY <1>5, <1>6 DEF BaseInv

\* A step without I/O.
LEMMA NoDiskStep ==
  ASSUME TypeOK, IInv, UNCHANGED diskVars
  PROVE  /\ Quiet
         /\ UNCHANGED <<saved, doubt, clobbered>> => DriveInv'
         /\ \A p \in PageIDs : cache[p] # None => cache'[p] # None
<1>1. Quiet /\ FileInv'
  BY QuietSteps DEF TypeOK, IInv, DriveInv
<1>2. UNCHANGED <<saved, doubt, clobbered>> => DriveInv'
  BY <1>1, QuietKeepsDrive DEF TypeOK, IInv
<1> QED BY <1>1, <1>2 DEF diskVars

-----------------------------------------------------------------------------
(* Client calls. *)

\* What is known when a client may call.
LEMMA UsableState ==
  ASSUME TypeOK, IInv, usable
  PROVE  /\ pc = "idle" /\ poisoned = FALSE /\ Live /\ caller # "create"
         /\ pc # "ckMetaSync" /\ doubt = NoDoubt
<1>1. pc = "idle" /\ poisoned = FALSE /\ Live
  BY DEF usable, Live, TypeOK, MemType
<1>2. caller # "create"
  BY <1>1 DEF IInv, BaseInv
<1> QED BY <1>1, <1>2, LastCheckpoint

LEMMA SetRootStep ==
  ASSUME TypeOK, IInv, NEW id \in PageIDs, SetRoot(id)
  PROVE  IInv'
<1>1. /\ usable /\ (id # NoPage => owned(id)) /\ root' = id
      /\ UNCHANGED <<diskVars, callVars, histVars, durable, nextPage, filePages, free,
                     pending, listPage, status, poisoned>>
  BY DEF SetRoot
<1>2. /\ pc = "idle" /\ poisoned = FALSE /\ Live /\ caller # "create"
  BY <1>1, UsableState
<1>3. pc' = "idle" /\ poisoned' = FALSE /\ caller' # "create"
  BY <1>1, <1>2 DEF callVars
<1>4. Quiet /\ DriveInv' /\ \A p \in PageIDs : cache[p] # None => cache'[p] # None
  BY <1>1, NoDiskStep DEF histVars
<1>5. ListsInv'
  BY <1>1, <1>2, <1>4, ListsKept, HeldPages DEF histVars
<1>6. BaseInv'
  BY <1>1, <1>2, <1>3, <1>4, BaseKept DEF histVars
<1>7. CleanInv'
  BY <1>1, <1>2, <1>3 DEF IInv, CleanInv, Live, diskVars, histVars
<1> QED BY <1>3, <1>4, <1>5, <1>6, <1>7, IdleAgain

LEMMA FreeStep ==
  ASSUME TypeOK, IInv, NEW id \in PageIDs, Free(id)
  PROVE  IInv'
<1>1. /\ usable /\ owned(id) /\ id # root
      /\ pending' = Append(pending, id)
      /\ status' = [status EXCEPT ![id] = "pending"]
      /\ held' = held \ {id}
      /\ UNCHANGED <<diskVars, callVars, durable, root, nextPage, filePages, free,
                     listPage, poisoned, saved, doubt, clobbered>>
  BY DEF Free
<1>2. /\ pc = "idle" /\ poisoned = FALSE /\ Live /\ caller # "create"
  BY <1>1, UsableState
<1>3. pc' = "idle" /\ poisoned' = FALSE /\ caller' # "create"
  BY <1>1, <1>2 DEF callVars
<1>4. Quiet /\ DriveInv' /\ \A p \in PageIDs : cache[p] # None => cache'[p] # None
  BY <1>1, NoDiskStep DEF histVars
<1>5. ListsInv'
  <2>1. /\ id # MetaPage /\ id < nextPage /\ id \in held
        /\ id \notin Range(free) \cup Range(pending) \cup Range(listPage)
    BY <1>1, <1>2, HeldPages
  <2>2. pending \in PageLists
    BY DEF TypeOK, MemType, PageLists
  <2>3. Range(pending') = Range(pending) \cup {id} /\ (Distinct(pending) => Distinct(pending'))
    BY <1>1, <2>1, <2>2, AppendPage
  <2>4. /\ Distinct(free) /\ Distinct(pending) /\ Distinct(listPage)
        /\ Range(free) \cap Range(pending) = {}
        /\ Range(free) \cap Range(listPage) = {}
        /\ Range(pending) \cap Range(listPage) = {}
        /\ \A p \in Range(free) \cup Range(pending) \cup Range(listPage) : p # MetaPage /\ p < nextPage
        /\ status = StatusOf(free, pending, listPage)
        /\ nextPage # 0 /\ nextPage <= filePages
        /\ held = OwnedPages
        /\ root = NoPage \/ root \in held
    BY <1>2 DEF IInv, ListsInv
  <2>5. status' = StatusOf(free, pending', listPage)
    BY <1>1, <2>1, <2>3, <2>4, StatusPending
  <2>6. held' = OwnedPages'
    <3>1. OwnedPages' = {p \in PageIDs : /\ p # MetaPage /\ p < nextPage
                                         /\ p \notin Range(free) \cup Range(pending') \cup Range(listPage)}
      BY <1>1, <2>5, OwnedAfter
    <3> QED BY <1>1, <1>2, <2>3, <3>1, HeldPages
  <2>7. cache'[filePages - 1] # None
    BY <1>2, <1>4, PagesInFile
  <2> QED BY <1>1, <2>1, <2>3, <2>4, <2>5, <2>6, <2>7 DEF ListsInv
<1>6. BaseInv'
  BY <1>1, <1>2, <1>3, <1>4, BaseKept
<1>7. CleanInv'
  BY <1>1, <1>2, <1>3 DEF IInv, CleanInv, Live, diskVars
<1> QED BY <1>3, <1>4, <1>5, <1>6, <1>7, IdleAgain

\* Pages that are written are on their way, so none is thought to have arrived.
LEMMA CleanKept ==
  ASSUME TypeOK, IInv, Live, poisoned = FALSE, NEW W \in SUBSET PageIDs, Writes(W),
         held' \subseteq held \cup W, clobbered \subseteq clobbered',
         filePages' = filePages \/ filePages' - 1 \in W
  PROVE  CleanInv'
<1>1. filePages - 1 \in PageIDs
  BY PagesInFile
<1>2. /\ \A p \in held \ clobbered : pend[p] = {} => drive[p] = cache[p]
      /\ pend[filePages - 1] = {} => drive[filePages - 1] # None
  BY DEF IInv, CleanInv
<1>3. ASSUME NEW p \in held' \ clobbered', pend'[p] = {} PROVE drive'[p] = cache'[p]
  <2>1. p \in PageIDs /\ p \notin W
    BY <1>3, HeldPages DEF Writes
  <2> QED BY <1>2, <1>3, <2>1 DEF Writes
<1>4. pend'[filePages' - 1] = {} => drive'[filePages' - 1] # None
  BY <1>1, <1>2 DEF Writes
<1> QED BY <1>3, <1>4 DEF CleanInv

\* A call that has written pages of its own, and perhaps taken some up.
LEMMA ClientWrites ==
  ASSUME TypeOK, IInv, usable,
         NEW W \in SUBSET (PageIDs \ {MetaPage}), Writes(W), Gapless(W),
         UNCHANGED <<callVars, durable, saved, doubt, listPage, poisoned>>,
         clobbered \subseteq clobbered', clobbered' \subseteq saved.held,
         \A p \in W : \/ p \in Range(free) \/ p >= nextPage
                      \/ p \in held \ (saved.held \ clobbered'),
         nextPage' \in Int, filePages' \in Int, nextPage <= nextPage', filePages <= filePages',
         held' \subseteq held \cup W, filePages' = filePages \/ filePages' - 1 \in W,
         Range(free') \subseteq Range(free), ListsInv'
  PROVE  IInv'
<1>1. /\ pc = "idle" /\ poisoned = FALSE /\ Live /\ caller # "create" /\ pc # "ckMetaSync"
  BY UsableState
<1>2. pc' = "idle" /\ poisoned' = FALSE /\ caller' # "create"
  BY <1>1 DEF callVars
<1>3. /\ DriveInv' /\ Stable(MetaPage, durable)' /\ doubt' = NoDoubt
      /\ \E E \in PageLists : Backs(durable, saved, listPage, E)' /\ Range(free) \subseteq Range(E)
  BY <1>1, WritesToOwn
<1>4. CleanInv'
  BY <1>1, CleanKept
<1>5. durable'.next <= nextPage' /\ durable'.file <= filePages'
  <2>1. durable.next <= nextPage /\ durable.file <= filePages
    BY <1>1, LastCheckpoint
  <2>2. durable.next \in Int /\ durable.file \in Int /\ nextPage \in Int /\ filePages \in Int
    BY DEF TypeOK, MemType, MetaRecord
  <2> QED BY <2>1, <2>2
<1>6. BaseInv'
  <2>1. \E E \in PageLists : Backs(durable, saved, listPage, E)' /\ Range(free') \subseteq Range(E)
    BY <1>3
  <2> QED BY <1>2, <1>3, <1>5, <2>1 DEF BaseInv
<1> QED BY <1>2, <1>3, <1>4, <1>6, IdleAgain

\* What the store writes is not the absence of a page.
LEMMA WrittenKinds ==
  /\ \A v : UserPage(v) # None
  /\ \A next, entries : FreeListPage(next, entries) # None
  /\ \A m \in MetaRecord : m # None
  /\ Zero # None /\ Torn # None
BY DEF UserPage, FreeListPage, MetaRecord, None, Zero, Torn

LEMMA WriteStep ==
  ASSUME TypeOK, IInv, NEW id \in PageIDs, NEW v \in Values, Write(id, v)
  PROVE  IInv'
<1>1. /\ usable /\ owned(id)
      /\ DiskWrite({}, {id}, UserPage(v)) \/ DiskWriteFails({}, id, UserPage(v))
      /\ clobbered' = clobbered \cup ({id} \cap saved.held)
      /\ UNCHANGED <<callVars, durable, root, nextPage, filePages, free, pending,
                     listPage, status, poisoned, held, saved, doubt>>
  BY DEF Write, Overwritten
<1>2. /\ pc = "idle" /\ poisoned = FALSE /\ Live
  BY <1>1, UsableState
<1>3. id \in held /\ id # MetaPage /\ id < nextPage
  BY <1>1, <1>2, HeldPages
<1>4. PICK W \in SUBSET {id} : Writes(W)
  BY <1>1, OnePageWrites, WrittenKinds
<1>5. Gapless(W) /\ \A p \in PageIDs : cache[p] # None => cache'[p] # None
  <2>1. cache[id] # None
    BY <1>2, <1>3, PagesInFile
  <2>2. W \in SUBSET PageIDs
    BY <1>4
  <2> QED BY <1>4, <2>1, <2>2, ExistingIsGapless DEF Writes, IInv, DriveInv
<1>6. ListsInv'
  <2>1. root' = NoPage \/ root' \in held
    BY <1>1, <1>2 DEF IInv, ListsInv
  <2> QED BY <1>1, <1>2, <1>5, <2>1, ListsKept
<1>7. nextPage \in Int /\ filePages \in Int
  BY DEF TypeOK, MemType
<1>8. clobbered \subseteq clobbered' /\ clobbered' \subseteq saved.held
  BY <1>1 DEF IInv, DriveInv, SnapshotInv
<1>9. W \in SUBSET (PageIDs \ {MetaPage}) /\ \A p \in W : p \in held \ (saved.held \ clobbered')
  BY <1>1, <1>3, <1>4
<1> QED BY <1>1, <1>4, <1>5, <1>6, <1>7, <1>8, <1>9, ClientWrites

LEMMA AllocateReusedStep ==
  ASSUME TypeOK, IInv, AllocateReused
  PROVE  IInv'
<1> DEFINE id == Last(free)
<1>1. /\ usable /\ free # <<>>
      /\ \/ /\ DiskWrite({}, {id}, UserPage(Fresh))
            /\ free' = Front(free)
            /\ status' = [status EXCEPT ![id] = "owned"]
            /\ held' = held \cup {id}
         \/ /\ DiskWriteFails({}, id, UserPage(Fresh))
            /\ UNCHANGED <<free, status, held>>
      /\ UNCHANGED <<callVars, durable, root, nextPage, filePages, pending, listPage,
                     poisoned, saved, doubt, clobbered>>
  BY DEF AllocateReused
<1>2. /\ pc = "idle" /\ poisoned = FALSE /\ Live
  BY <1>1, UsableState
<1>3. /\ Distinct(free) /\ Distinct(pending) /\ Distinct(listPage)
      /\ Range(free) \cap Range(pending) = {}
      /\ Range(free) \cap Range(listPage) = {}
      /\ Range(pending) \cap Range(listPage) = {}
      /\ \A p \in Range(free) \cup Range(pending) \cup Range(listPage) : p # MetaPage /\ p < nextPage
      /\ status = StatusOf(free, pending, listPage)
      /\ nextPage # 0 /\ nextPage <= filePages
      /\ held = OwnedPages
      /\ root = NoPage \/ root \in held
  BY <1>2 DEF IInv, ListsInv
<1>4. free \in PageLists
  BY DEF TypeOK, MemType, PageLists
<1>5. /\ id \in PageIDs /\ Distinct(Front(free)) /\ id \notin Range(Front(free))
      /\ Range(free) = Range(Front(free)) \cup {id}
  BY <1>1, <1>3, <1>4, FrontLast
<1>6. PICK W \in SUBSET {id} : Writes(W) /\ (free' # free => W = {id})
  BY <1>1, <1>5, OnePageWrites, WrittenKinds
<1>7. id # MetaPage /\ id < nextPage /\ id \notin Range(pending) \cup Range(listPage)
  BY <1>3, <1>5
<1>8. Gapless(W) /\ \A p \in PageIDs : cache[p] # None => cache'[p] # None
  <2>1. cache[id] # None
    BY <1>2, <1>5, <1>7, PagesInFile
  <2>2. W \in SUBSET PageIDs
    BY <1>5, <1>6
  <2> QED BY <1>6, <2>1, <2>2, ExistingIsGapless DEF Writes, IInv, DriveInv
<1>9. CASE UNCHANGED <<free, status, held>>
  <2>1. ListsInv'
    BY <1>1, <1>2, <1>3, <1>8, <1>9, ListsKept
  <2>2. nextPage \in Int /\ filePages \in Int
    BY DEF TypeOK, MemType
  <2>3. W \in SUBSET (PageIDs \ {MetaPage}) /\ \A p \in W : p \in Range(free)
    BY <1>5, <1>6, <1>7
  <2>4. clobbered' = clobbered /\ clobbered \subseteq saved.held
    BY <1>1 DEF IInv, DriveInv, SnapshotInv
  <2> QED BY <1>1, <1>6, <1>8, <1>9, <2>1, <2>2, <2>3, <2>4, ClientWrites
<1>10. CASE /\ free' = Front(free)
            /\ status' = [status EXCEPT ![id] = "owned"]
            /\ held' = held \cup {id}
  <2>1. status' = StatusOf(free', pending, listPage)
    <3>1. Range(free) = Range(free') \cup {id} /\ id \notin Range(free') \cup Range(pending) \cup Range(listPage)
      BY <1>5, <1>7, <1>10
    <3> HIDE DEF id
    <3>2. id \in PageIDs /\ status = StatusOf(free, pending, listPage)
          /\ status' = [status EXCEPT ![id] = "owned"]
      BY <1>3, <1>5, <1>10
    <3> QED BY <3>1, <3>2, StatusTaken
  <2>2. OwnedPages' = {p \in PageIDs : /\ p # MetaPage /\ p < nextPage'
                                       /\ p \notin Range(free') \cup Range(pending) \cup Range(listPage)}
    BY <2>1, OwnedAfter
  <2>3. held' = OwnedPages'
    BY <1>1, <1>2, <1>5, <1>7, <1>10, <2>2, HeldPages
  <2>4. cache'[filePages - 1] # None
    BY <1>2, <1>8, PagesInFile
  <2>5. ListsInv'
    BY <1>1, <1>3, <1>5, <1>10, <2>1, <2>3, <2>4 DEF ListsInv
  <2>6. nextPage \in Int /\ filePages \in Int
    BY DEF TypeOK, MemType
  <2>7. W \in SUBSET (PageIDs \ {MetaPage}) /\ \A p \in W : p \in Range(free)
    BY <1>5, <1>6, <1>7
  <2>8. clobbered' = clobbered /\ clobbered \subseteq saved.held
    BY <1>1 DEF IInv, DriveInv, SnapshotInv
  <2>9. W = {id}
    BY <1>5, <1>6, <1>10
  <2> QED BY <1>1, <1>5, <1>6, <1>8, <1>10, <2>5, <2>6, <2>7, <2>8, <2>9, ClientWrites
<1> QED BY <1>1, <1>9, <1>10

LEMMA GrowToFacts ==
  ASSUME NEW pages \in 0 .. MaxPages
  PROVE  growTo(pages) \in pages .. MaxPages
BY ChunkAssumption DEF growTo

LEMMA AllocateNewStep ==
  ASSUME TypeOK, IInv, AllocateNew
  PROVE  IInv'
<1> DEFINE size == IF nextPage >= filePages THEN growTo(filePages) ELSE filePages
           new  == NewPages(filePages, size)
<1>1. /\ usable /\ nextPage < MaxPages /\ size > nextPage
      /\ \/ /\ DiskWrite(new, {nextPage}, UserPage(Fresh))
            /\ nextPage' = nextPage + 1
            /\ filePages' = size
            /\ held' = held \cup {nextPage}
         \/ /\ \E some \in filePages .. size - 1 : DiskWrite(NewPages(filePages, some), {}, Zero)
            /\ UNCHANGED <<nextPage, filePages, held>>
         \/ /\ DiskWriteFails(new, nextPage, UserPage(Fresh))
            /\ UNCHANGED <<nextPage, filePages, held>>
      /\ UNCHANGED <<callVars, durable, root, free, pending, listPage, status,
                     poisoned, saved, doubt, clobbered>>
  BY DEF AllocateNew
<1>2. /\ pc = "idle" /\ poisoned = FALSE /\ Live
  BY <1>1, UsableState
<1>3. /\ nextPage \in 1 .. MaxPages /\ filePages \in nextPage .. MaxPages
      /\ cache[filePages - 1] # None /\ filePages - 1 \in PageIDs
      /\ \A p \in PageIDs : p < filePages => cache[p] # None
  BY <1>2, PagesInFile
<1>4. size \in filePages .. MaxPages /\ nextPage \in PageIDs
  BY <1>1, <1>3, GrowToFacts
<1>5. nextPage \in new \/ nextPage < filePages
  BY <1>1, <1>3, <1>4 DEF NewPages
<1>6. new \in SUBSET PageIDs /\ \A p \in new : p >= nextPage /\ p # MetaPage
  BY <1>3, <1>4 DEF NewPages
<1>7. clobbered' = clobbered /\ clobbered \subseteq saved.held
  BY <1>1 DEF IInv, DriveInv, SnapshotInv
<1>8. FileInv
  BY DEF IInv, DriveInv
<1> HIDE DEF size, new
<1>9. ASSUME NEW W \in SUBSET (new \cup {nextPage}), new \subseteq W, Writes(W)
      PROVE  /\ W \in SUBSET (PageIDs \ {MetaPage}) /\ Gapless(W)
             /\ \A p \in W : p >= nextPage
             /\ \A p \in PageIDs : cache[p] # None => cache'[p] # None
  <2>1. W \in SUBSET (PageIDs \ {MetaPage}) /\ \A p \in W : p >= nextPage
    BY <1>3, <1>4, <1>6
  <2>2. \A p \in W : p \in NewPages(filePages, size) \/ p < filePages
    BY <1>5 DEF new
  <2>3. Gapless(W)
    BY <1>3, <1>4, <1>8, <1>9, <2>1, <2>2, GrowthIsGapless DEF new
  <2> QED BY <1>9, <2>1, <2>3 DEF Writes
<1>10. CASE /\ DiskWrite(new, {nextPage}, UserPage(Fresh))
            /\ nextPage' = nextPage + 1
            /\ filePages' = size
            /\ held' = held \cup {nextPage}
  <2> DEFINE W == new \cup {nextPage}
  <2>1. Writes(W)
    BY <1>4, <1>6, <1>10, DiskWriteWrites, WrittenKinds
  <2>2. /\ W \in SUBSET (PageIDs \ {MetaPage}) /\ Gapless(W)
        /\ \A p \in W : p >= nextPage
        /\ \A p \in PageIDs : cache[p] # None => cache'[p] # None
    BY <1>9, <2>1
  <2>3. filePages' = filePages \/ filePages' - 1 \in new
    BY <1>3, <1>4, <1>10 DEF new, NewPages
  <2>4. /\ Distinct(free) /\ Distinct(pending) /\ Distinct(listPage)
        /\ Range(free) \cap Range(pending) = {}
        /\ Range(free) \cap Range(listPage) = {}
        /\ Range(pending) \cap Range(listPage) = {}
        /\ \A p \in Range(free) \cup Range(pending) \cup Range(listPage) : p # MetaPage /\ p < nextPage
        /\ status = StatusOf(free, pending, listPage)
        /\ root = NoPage \/ root \in held
    BY <1>2 DEF IInv, ListsInv
  <2>5. /\ free \in PageLists /\ pending \in PageLists /\ listPage \in PageLists
        /\ \A p \in Range(free) \cup Range(pending) \cup Range(listPage) : p \in PageIDs
    BY RangeOfSeq DEF TypeOK, MemType, PageLists
  <2>6. \A p \in Range(free) \cup Range(pending) \cup Range(listPage) :
          p # MetaPage /\ p < nextPage' /\ p # nextPage
    BY <1>3, <1>10, <2>4, <2>5
  <2>7. held' = OwnedPages'
    <3>1. OwnedPages' = {p \in PageIDs : /\ p # MetaPage /\ p < nextPage'
                                         /\ p \notin Range(free) \cup Range(pending) \cup Range(listPage)}
      BY <1>1, <2>4, OwnedAfter
    <3>2. \A p \in PageIDs : p < nextPage' <=> p < nextPage \/ p = nextPage
      BY <1>3, <1>10
    <3> QED BY <1>2, <1>3, <1>4, <1>10, <2>6, <3>1, <3>2, HeldPages
  <2>8. cache'[filePages' - 1] # None
    BY <1>3, <2>1, <2>2, <2>3 DEF Writes
  <2>9. nextPage' # 0 /\ nextPage' <= filePages'
    BY <1>1, <1>3, <1>4, <1>10
  <2>10. ListsInv'
    BY <1>1, <1>10, <2>4, <2>6, <2>7, <2>8, <2>9 DEF ListsInv
  <2>11. nextPage' \in Int /\ filePages' \in Int /\ nextPage <= nextPage' /\ filePages <= filePages'
    BY <1>3, <1>4, <1>10
  <2>12. held' \subseteq held \cup W /\ (filePages' = filePages \/ filePages' - 1 \in W)
    BY <1>10, <2>3
  <2> HIDE DEF W
  <2> QED BY <1>1, <1>7, <2>1, <2>2, <2>10, <2>11, <2>12, ClientWrites
<1>11. ASSUME UNCHANGED <<nextPage, filePages, held>>,
              NEW W \in SUBSET (PageIDs \ {MetaPage}), Gapless(W), Writes(W),
              \A p \in W : p >= nextPage
       PROVE  IInv'
  <2>1. \A p \in PageIDs : cache[p] # None => cache'[p] # None
    BY <1>11 DEF Writes
  <2>2. root = NoPage \/ root \in held
    BY <1>2 DEF IInv, ListsInv
  <2>3. ListsInv'
    BY <1>1, <1>2, <1>11, <2>1, <2>2, ListsKept
  <2> QED BY <1>1, <1>3, <1>7, <1>11, <2>3, ClientWrites
<1>12. CASE /\ \E some \in filePages .. size - 1 : DiskWrite(NewPages(filePages, some), {}, Zero)
            /\ UNCHANGED <<nextPage, filePages, held>>
  <2>1. PICK some \in filePages .. size - 1 : DiskWrite(NewPages(filePages, some), {}, Zero)
    BY <1>12
  <2> DEFINE W == NewPages(filePages, some)
  <2>2. W \in SUBSET (PageIDs \ {MetaPage}) /\ some \in 0 .. MaxPages /\ \A p \in W : p >= nextPage
    BY <1>3, <1>4 DEF NewPages
  <2>3. Writes(W)
    <3>1. W \cup {} = W /\ {} \in SUBSET PageIDs /\ W \in SUBSET PageIDs
      BY <2>2
    <3>2. Writes(W \cup {})
      BY <2>1, <3>1, DiskWriteWrites, WrittenKinds
    <3> QED BY <3>1, <3>2
  <2>4. Gapless(W)
    BY <1>3, <1>8, <2>2, GrowthIsGapless
  <2> QED BY <1>11, <1>12, <2>2, <2>3, <2>4
<1>13. CASE /\ DiskWriteFails(new, nextPage, UserPage(Fresh))
            /\ UNCHANGED <<nextPage, filePages, held>>
  <2>1. PICK W \in SUBSET (new \cup {nextPage}) : new \subseteq W /\ Writes(W)
    BY <1>4, <1>6, <1>13, DiskWriteFailsWrites, WrittenKinds
  <2> QED BY <1>9, <1>11, <1>13, <2>1
<1> QED BY <1>1, <1>10, <1>12, <1>13 DEF size, new

\* What a successful fsync does to the pages it finds written, and to the others.
LEMMA SyncedPages ==
  ASSUME DiskSync
  PROVE  /\ cache' = cache
         /\ \A p \in PageIDs :
              /\ pend'[p] = {}
              /\ pend[p] # {} /\ cache[p] # None => drive'[p] = cache[p]
              /\ pend[p] = {} /\ drive[p] # None => drive'[p] = drive[p]
<1> DEFINE image == [p \in PageIDs |-> IF pend[p] = {} THEN drive[p] ELSE cache[p]]
<1>1. drive' = FillHoles(image)
  BY DEF DiskSync
<1>2. \A p \in PageIDs : image[p] # None => drive'[p] = image[p]
  <2> HIDE DEF image
  <2> QED BY <1>1, FillHolesPages
<1> QED BY <1>2 DEF DiskSync

\* An fsync that fails changes nothing that is read.
LEMMA SyncReads ==
  ASSUME DiskSync \/ DiskSyncFails
  PROVE  cache' = cache
BY DEF DiskSync, DiskSyncFails

\* After it, all that is the client's and all the file is on the drive.
LEMMA SyncedClean ==
  ASSUME TypeOK, IInv, Live, poisoned = FALSE, DiskSync
  PROVE  /\ \A p \in held \ clobbered : drive'[p] = cache'[p]
         /\ drive'[filePages - 1] # None
<1>1. /\ \A p \in held \ clobbered : pend[p] = {} => drive[p] = cache[p]
      /\ pend[filePages - 1] = {} => drive[filePages - 1] # None
  BY DEF IInv, CleanInv
<1>2. filePages - 1 \in PageIDs /\ cache[filePages - 1] # None
  BY PagesInFile
<1>3. ASSUME NEW p \in held \ clobbered PROVE p \in PageIDs /\ cache[p] # None
  BY HeldPages, PagesInFile
<1> QED BY <1>1, <1>2, <1>3, SyncedPages

LEMMA SyncIsQuiet ==
  ASSUME TypeOK, IInv, DiskSync \/ DiskSyncFails \/ DiskPowerCut
  PROVE  Quiet /\ (UNCHANGED <<saved, doubt, clobbered>> => DriveInv')
<1>1. Quiet /\ FileInv'
  BY QuietSteps DEF TypeOK, IInv, DriveInv
<1> QED BY <1>1, QuietKeepsDrive DEF TypeOK, IInv

LEMMA SyncStep ==
  ASSUME TypeOK, IInv, Sync
  PROVE  IInv'
<1>1. /\ usable
      /\ \/ DiskSync /\ poisoned' = poisoned
         \/ DiskSyncFails /\ poisoned' = TRUE
      /\ UNCHANGED <<callVars, histVars, durable, root, nextPage, filePages, free,
                     pending, listPage, status>>
  BY DEF Sync
<1>2. /\ pc = "idle" /\ poisoned = FALSE /\ Live /\ caller # "create" /\ pc # "ckMetaSync"
  BY <1>1, UsableState
<1>3. Quiet /\ DriveInv' /\ cache' = cache
  BY <1>1, SyncIsQuiet, SyncReads DEF histVars
<1>4. ListsInv'
  <2>1. root = NoPage \/ root \in held
    BY <1>2 DEF IInv, ListsInv
  <2> QED BY <1>1, <1>2, <1>3, <2>1, ListsKept DEF histVars
<1>5. BaseInv'
  BY <1>1, <1>2, <1>3, BaseKept DEF histVars, callVars
<1>6. CleanInv'
  <2>1. CASE poisoned' = TRUE
    BY <2>1 DEF CleanInv
  <2>2. CASE poisoned' # TRUE
    BY <1>1, <1>2, <2>2, SyncedClean DEF CleanInv, histVars
  <2> QED BY <2>1, <2>2
<1> QED BY <1>1, <1>2, <1>3, <1>4, <1>5, <1>6, IdleAgain DEF callVars

-----------------------------------------------------------------------------
(* The end of a process, and the world. *)

LEMMA GiveUp ==
  ASSUME TypeOK, IInv, NoStore("down"), UNCHANGED <<saved, doubt, clobbered>>,
         UNCHANGED diskVars \/ DiskSync \/ DiskSyncFails \/ DiskPowerCut
  PROVE  IInv'
BY NoDiskStep, SyncIsQuiet, DownAgain

LEMMA EndStep ==
  ASSUME TypeOK, IInv, Discard \/ Kill \/ PowerCut
  PROVE  IInv'
BY GiveUp DEF Discard, Kill, PowerCut

\* A checkpoint begins with what an open store has.
LEMMA CheckpointBegins ==
  ASSUME TypeOK, IInv, usable, pc' = "ckSync", caller' \in {"client", "close"},
         UNCHANGED <<diskVars, memVars, histVars, ck>>
  PROVE  IInv'
<1>1. /\ pc = "idle" /\ poisoned = FALSE /\ Live /\ caller # "create" /\ pc # "ckMetaSync"
      /\ doubt = NoDoubt
  BY UsableState
<1>2. Quiet /\ DriveInv' /\ \A p \in PageIDs : cache[p] # None => cache'[p] # None
  BY NoDiskStep DEF histVars
<1>3. ListsInv'
  <2>1. root = NoPage \/ root \in held
    BY <1>1 DEF IInv, ListsInv
  <2> QED BY <1>1, <1>2, <2>1, ListsKept DEF memVars, histVars
<1>4. BaseInv'
  BY <1>1, <1>2, BaseKept DEF memVars, histVars
<1>5. CleanInv'
  BY <1>1 DEF IInv, CleanInv, Live, diskVars, memVars, histVars
<1>6. TakeInv' /\ ListInv' /\ CommitInv'
  BY DEF TakeInv, CkPcs, ListInv, CommitInv
<1> QED BY <1>1, <1>2, <1>3, <1>4, <1>5, <1>6, CheckpointOn DEF memVars

LEMMA CheckpointStep ==
  ASSUME TypeOK, IInv, Checkpoint
  PROVE  IInv'
BY CheckpointBegins DEF Checkpoint, StartCheckpoint

LEMMA CloseStep ==
  ASSUME TypeOK, IInv, Close
  PROVE  IInv'
<1>1. CASE ~ poisoned /\ dirty
  <2>1. usable
    BY <1>1 DEF Close, usable
  <2> QED BY <1>1, <2>1, CheckpointBegins DEF Close, StartCheckpoint, histVars
<1>2. CASE ~ (~ poisoned /\ dirty)
  BY <1>2, GiveUp DEF Close
<1> QED BY <1>1, <1>2

-----------------------------------------------------------------------------
(* Checkpoint. *)

\* A file that is being created has nothing in it yet.
LEMMA CreateState ==
  ASSUME TypeOK, IInv, Live, caller = "create"
  PROVE  /\ saved = Blank /\ durable = NoMeta /\ clobbered = {} /\ held = {} /\ root = NoPage
         /\ free = <<>> /\ pending = <<>> /\ listPage = <<>> /\ nextPage = 1
         /\ pc \in {"ckSync"} \cup CkPcs
         /\ pc \in CkPcs => ck.lists = <<>>
<1>1. /\ saved = Blank /\ durable = NoMeta
      /\ free = <<>> /\ pending = <<>> /\ listPage = <<>> /\ nextPage = 1
      /\ pc \notin {"parent", "idle"}
      /\ pc \in CkPcs => ck.lists = <<>>
  BY DEF IInv, BaseInv
<1>2. clobbered = {}
  BY <1>1 DEF IInv, DriveInv, BlankInv
<1>3. held = {}
  BY <1>1, HeldPages
<1>4. root = NoPage
  BY <1>3 DEF IInv, ListsInv
<1> QED BY <1>1, <1>2, <1>3, <1>4 DEF Live

LEMMA CheckpointBaseKept ==
  ASSUME TypeOK, IInv, Live, Quiet, pc' \in CkPcs \ {"ckMetaSync"},
         pc # "ckMetaSync", poisoned = FALSE, ck'.lists = <<>> \/ (ck'.lists = ck.lists /\ pc \in CkPcs),
         UNCHANGED <<durable, nextPage, filePages, free, pending, listPage, saved, doubt,
                     caller, poisoned>>
  PROVE  BaseInv'
<1>1. CASE caller = "create"
  <2>1. /\ saved = Blank /\ durable = NoMeta
        /\ free = <<>> /\ pending = <<>> /\ listPage = <<>> /\ nextPage = 1
        /\ pc \in CkPcs => ck.lists = <<>>
    BY <1>1, CreateState
  <2>2. ck'.lists = <<>>
    BY <2>1
  <2>3. pc' \notin {"parent", "idle"}
    BY DEF CkPcs
  <2> QED BY <1>1, <2>1, <2>2, <2>3 DEF BaseInv
<1>2. CASE caller # "create"
  BY <1>2, BaseKept
<1> QED BY <1>1, <1>2

\* A checkpoint that an fsync has ended.
LEMMA FsyncEnds ==
  ASSUME TypeOK, IInv, pc \in {"ckSync"} \cup CkPcs, DiskSyncFails, CheckpointFails(TRUE),
         UNCHANGED <<saved, doubt, clobbered>>
  PROVE  IInv'
<1>1. CASE caller = "client"
  <2>1. /\ pc' = "idle" /\ poisoned' = TRUE
        /\ UNCHANGED <<durable, root, nextPage, filePages, free, pending, listPage,
                       status, caller, held>>
    BY <1>1 DEF CheckpointFails
  <2>2. Live
    BY DEF Live
  <2>3. Quiet /\ DriveInv' /\ cache' = cache
    BY SyncIsQuiet, SyncReads
  <2>4. ListsInv'
    <3>1. root = NoPage \/ root \in held
      BY <2>2 DEF IInv, ListsInv
    <3> QED BY <2>1, <2>2, <2>3, <3>1, ListsKept
  <2>5. BaseInv'
    BY <1>1, <2>1, <2>2, <2>3, BaseKept
  <2>6. CleanInv'
    BY <2>1 DEF CleanInv
  <2> QED BY <2>1, <2>3, <2>4, <2>5, <2>6, IdleAgain
<1>2. CASE caller # "client"
  BY <1>2, GiveUp DEF CheckpointFails
<1> QED BY <1>1, <1>2

\* In a call the store is not poisoned.
LEMMA CallState ==
  ASSUME TypeOK, IInv, pc \in {"ckSync"} \cup CkPcs
  PROVE  Live /\ poisoned = FALSE
<1>1. poisoned \in BOOLEAN
  BY DEF TypeOK, MemType
<1>2. pc # "idle"
  BY DEF CkPcs
<1> QED BY <1>1, <1>2 DEF Live, IInv, NeverPoisonedInCall

LEMMA CkSyncStep ==
  ASSUME TypeOK, IInv, CkSync
  PROVE  IInv'
<1>1. Live /\ poisoned = FALSE /\ pc = "ckSync"
  BY CallState DEF CkSync
<1>2. CASE /\ DiskSync
           /\ pc' = "ckTake"
           /\ ck' = [free |-> free, next |-> nextPage, file |-> filePages,
                     lists |-> <<>>, at |-> 0]
           /\ UNCHANGED <<memVars, held, caller, walk, saved, doubt, clobbered>>
  <2>1. Quiet /\ DriveInv' /\ cache' = cache /\ \A p \in PageIDs : pend'[p] = {}
    BY <1>2, SyncIsQuiet, SyncReads, SyncedPages
  <2>2. ListsInv'
    <3>1. root = NoPage \/ root \in held
      BY <1>1 DEF IInv, ListsInv
    <3> QED BY <1>1, <1>2, <2>1, <3>1, ListsKept DEF memVars
  <2>3. BaseInv'
    <3>1. pc' \in CkPcs \ {"ckMetaSync"} /\ ck'.lists = <<>>
      BY <1>2 DEF CkPcs
    <3> QED BY <1>1, <1>2, <2>1, <3>1, CheckpointBaseKept DEF memVars
  <2>4. (\A p \in held \ clobbered : drive'[p] = cache'[p]) /\ drive'[filePages - 1] # None
    BY <1>1, <1>2, SyncedClean
  <2>5. CleanInv'
    BY <1>2, <2>4 DEF CleanInv, memVars
  <2>6. TakeInv'
    <3>1. /\ nextPage \in 1 .. MaxPages /\ filePages \in nextPage .. MaxPages
          /\ filePages - 1 \in PageIDs /\ cache[filePages - 1] # None
      BY <1>1, PagesInFile
    <3>2. nextPage .. nextPage - 1 = {}
      BY <3>1
    <3>3. Distinct(free) /\ held \subseteq PageIDs
      BY <1>1, HeldPages DEF IInv, ListsInv
    <3> QED BY <1>2, <2>1, <2>4, <3>1, <3>2, <3>3, EmptyList DEF TakeInv, memVars
  <2>7. ListInv' /\ CommitInv'
    BY <1>2 DEF ListInv, CommitInv
  <2>8. pc' \in {"ckSync"} \cup CkPcs /\ poisoned' = FALSE
    BY <1>1, <1>2 DEF CkPcs, memVars
  <2> QED BY <2>1, <2>2, <2>3, <2>5, <2>6, <2>7, <2>8, CheckpointOn
<1>3. CASE DiskSyncFails /\ CheckpointFails(TRUE) /\ UNCHANGED <<saved, doubt, clobbered>>
  BY <1>1, <1>3, FsyncEnds
<1> QED BY <1>2, <1>3 DEF CkSync

\* The pages a checkpoint has taken for its list, and what it may still take.
LEMMA TakenPages ==
  ASSUME TypeOK, IInv, pc \in CkPcs
  PROVE  /\ ck.free \in PageLists /\ ck.lists \in PageLists
         /\ Distinct(ck.free) /\ Distinct(ck.lists)
         /\ Range(ck.free) \cap Range(ck.lists) = {}
         /\ Range(ck.free) \subseteq Range(free)
         /\ Range(ck.free) \cup Range(ck.lists) = Range(free) \cup (nextPage .. ck.next - 1)
         /\ nextPage \in 1 .. MaxPages /\ nextPage <= ck.next /\ filePages <= ck.file
         /\ ck.next \in 1 .. MaxPages /\ ck.file \in ck.next .. MaxPages /\ ck.file - 1 \in PageIDs
         /\ \A p \in PageIDs : p < ck.file => cache[p] # None
         /\ \A p \in Range(free) : p \in PageIDs /\ p # MetaPage /\ p < nextPage
         /\ \A p \in Range(ck.lists) :
              /\ p \in PageIDs /\ p # MetaPage /\ p < ck.next
              /\ p \in Range(free) \/ p >= nextPage
<1>1. /\ ck.free \in PageLists /\ ck.lists \in PageLists
      /\ ck.next \in 0 .. MaxPages /\ ck.file \in 0 .. MaxPages
  BY DEF TypeOK, CallType, PageLists
<1>2. /\ Distinct(ck.free) /\ Distinct(ck.lists)
      /\ Range(ck.free) \cap Range(ck.lists) = {}
      /\ Range(ck.free) \subseteq Range(free)
      /\ Range(ck.free) \cup Range(ck.lists) = Range(free) \cup (nextPage .. ck.next - 1)
      /\ nextPage <= ck.next /\ ck.next <= ck.file /\ filePages <= ck.file
      /\ cache[ck.file - 1] # None
  BY DEF IInv, TakeInv
<1>3. Live /\ nextPage \in 1 .. MaxPages
  BY CallState, PagesInFile
<1>4. ck.next \in 1 .. MaxPages /\ ck.file \in ck.next .. MaxPages /\ ck.file - 1 \in PageIDs
  BY <1>1, <1>2, <1>3
<1>5. \A p \in PageIDs : p < ck.file => cache[p] # None
  BY <1>2, <1>4 DEF IInv, DriveInv, FileInv
<1>6. ASSUME NEW p \in Range(free) PROVE p \in PageIDs /\ p # MetaPage /\ p < nextPage
  <2>1. p \in PageIDs
    BY RangeOfSeq DEF TypeOK, MemType
  <2> QED BY <1>3, <2>1 DEF IInv, ListsInv
<1>7. ASSUME NEW p \in Range(ck.lists)
      PROVE  /\ p \in PageIDs /\ p # MetaPage /\ p < ck.next
             /\ p \in Range(free) \/ p >= nextPage
  <2>1. p \in Range(free) \/ p \in nextPage .. ck.next - 1
    BY <1>2
  <2>2. CASE p \in Range(free)
    BY <1>2, <1>3, <1>4, <1>6, <2>2
  <2>3. CASE p \in nextPage .. ck.next - 1
    BY <1>3, <1>4, <2>3
  <2> QED BY <2>1, <2>2, <2>3
<1> QED BY <1>1, <1>2, <1>3, <1>4, <1>5, <1>6, <1>7

\* A checkpoint ends although no fsync has failed: what it wrote is not the client's.
LEMMA CheckpointWriteFails ==
  ASSUME TypeOK, IInv, pc \in CkPcs \ {"ckMetaSync"}, caller # "create", CheckpointFails(FALSE),
         NEW W \in SUBSET (PageIDs \ {MetaPage}), Writes(W), Gapless(W),
         UNCHANGED <<saved, doubt, clobbered>>,
         \A p \in W : p \in Range(free) \/ p >= nextPage
  PROVE  IInv'
<1>1. Live /\ poisoned = FALSE
  BY CallState
<1>2. clobbered \subseteq clobbered' /\ clobbered' \subseteq saved.held
  BY DEF IInv, DriveInv, SnapshotInv
<1>3. /\ DriveInv' /\ doubt' = NoDoubt
      /\ UNCHANGED <<durable, listPage>> =>
           /\ Stable(MetaPage, durable)'
           /\ \E E \in PageLists : Backs(durable, saved, listPage, E)' /\ Range(free) \subseteq Range(E)
  BY <1>1, <1>2, WritesToOwn
<1>4. CASE caller = "client"
  <2>1. /\ pc' = "idle" /\ poisoned' = FALSE
        /\ UNCHANGED <<durable, root, nextPage, filePages, free, pending, listPage,
                       status, caller, held>>
    BY <1>4 DEF CheckpointFails
  <2>2. ListsInv'
    <3>1. root = NoPage \/ root \in held
      BY <1>1 DEF IInv, ListsInv
    <3>2. \A p \in PageIDs : cache[p] # None => cache'[p] # None
      BY DEF Writes
    <3> QED BY <1>1, <2>1, <3>1, <3>2, ListsKept
  <2>3. BaseInv'
    <3>1. durable.next <= nextPage /\ durable.file <= filePages
      BY <1>1, LastCheckpoint
    <3> QED BY <1>3, <1>4, <2>1, <3>1 DEF BaseInv
  <2>4. CleanInv'
    <3>1. W \in SUBSET PageIDs /\ held' \subseteq held \cup W
      BY <2>1
    <3> QED BY <1>1, <1>2, <2>1, <3>1, CleanKept
  <2> QED BY <1>3, <2>1, <2>2, <2>3, <2>4, IdleAgain
<1>5. CASE caller # "client"
  BY <1>3, <1>5, DownAgain DEF CheckpointFails
<1> QED BY <1>4, <1>5

\* A checkpoint goes on, having written pages that are not the client's.
LEMMA CheckpointWrites ==
  ASSUME TypeOK, IInv, pc \in CkPcs \ {"ckMetaSync"}, caller # "create",
         pc' \in CkPcs \ {"ckMetaSync"}, TakeInv', ListInv',
         NEW W \in SUBSET (PageIDs \ {MetaPage}), Writes(W), Gapless(W),
         UNCHANGED <<memVars, held, caller, saved, doubt, clobbered>>,
         \A p \in W : p \in Range(free) \/ p >= nextPage
  PROVE  IInv'
<1>1. Live /\ poisoned = FALSE
  BY CallState
<1>2. clobbered \subseteq clobbered' /\ clobbered' \subseteq saved.held
  BY DEF IInv, DriveInv, SnapshotInv
<1>3. UNCHANGED <<durable, nextPage, filePages, free, pending, listPage, status, root, poisoned>>
  BY DEF memVars
<1>4. /\ DriveInv' /\ doubt' = NoDoubt
      /\ Stable(MetaPage, durable)'
      /\ \E E \in PageLists : Backs(durable, saved, listPage, E)' /\ Range(free) \subseteq Range(E)
  BY <1>1, <1>2, <1>3, WritesToOwn
<1>5. ListsInv'
  <2>1. root = NoPage \/ root \in held
    BY <1>1 DEF IInv, ListsInv
  <2>2. \A p \in PageIDs : cache[p] # None => cache'[p] # None
    BY DEF Writes
  <2> QED BY <1>1, <1>3, <2>1, <2>2, ListsKept
<1>6. BaseInv'
  <2>1. durable.next <= nextPage /\ durable.file <= filePages
    BY <1>1, LastCheckpoint
  <2> QED BY <1>3, <1>4, <2>1 DEF BaseInv
<1>7. CleanInv'
  <2>1. W \in SUBSET PageIDs /\ held' \subseteq held \cup W
    OBVIOUS
  <2> QED BY <1>1, <1>2, <1>3, <2>1, CleanKept
<1>8. CommitInv' /\ pc' \in {"ckSync"} \cup CkPcs
  BY DEF CommitInv
<1> QED BY <1>1, <1>3, <1>4, <1>5, <1>6, <1>7, <1>8, CheckpointOn

\* Nothing is taken for the list of a file that is being created.
LEMMA NothingToTake ==
  ASSUME TypeOK, IInv, pc = "ckTake", caller = "create"
  PROVE  Count = 0 /\ ck.lists = <<>> /\ ~ (pagesFor(Count) > Len(ck.lists))
<1>1. pc \in CkPcs /\ Live
  BY CallState DEF CkPcs
<1>2. free = <<>> /\ pending = <<>> /\ listPage = <<>> /\ ck.lists = <<>>
  BY <1>1, CreateState
<1>3. ck.free = <<>>
  BY <1>1, <1>2, TakenPages, EmptyList
<1>4. Count = 0
  BY <1>2, <1>3, EmptyList DEF Count
<1>5. 0 * FreeListCapacity = 0
  BY CapacityAssumption
<1> QED BY <1>2, <1>4, <1>5, EmptyList, PagesForBounds

\* A page from the free list: no I/O.
LEMMA CkTakeFree ==
  ASSUME TypeOK, IInv, pc = "ckTake", caller # "create", ck.free # <<>>,
         ck' = [ck EXCEPT !.free = Front(@), !.lists = Append(@, Last(ck.free))],
         UNCHANGED <<diskVars, memVars, held, pc, caller, walk, saved, doubt, clobbered>>
  PROVE  IInv'
<1>1. pc \in CkPcs
  BY DEF CkPcs
<1>2. /\ ck.free \in PageLists /\ ck.lists \in PageLists
      /\ Distinct(ck.free) /\ Distinct(ck.lists)
      /\ Range(ck.free) \cap Range(ck.lists) = {}
      /\ Range(ck.free) \subseteq Range(free)
      /\ Range(ck.free) \cup Range(ck.lists) = Range(free) \cup (nextPage .. ck.next - 1)
  BY <1>1, TakenPages
<1>3. /\ ck'.free = Front(ck.free) /\ ck'.lists = Append(ck.lists, Last(ck.free))
      /\ ck'.next = ck.next /\ ck'.file = ck.file
  BY DEF TypeOK, CallType
<1>4. /\ Last(ck.free) \in PageIDs
      /\ Distinct(ck'.free) /\ Last(ck.free) \notin Range(ck'.free)
      /\ Range(ck.free) = Range(ck'.free) \cup {Last(ck.free)}
  BY <1>2, <1>3, FrontLast
<1>5. /\ Distinct(ck'.lists) /\ ck'.lists # <<>>
      /\ Range(ck'.lists) = Range(ck.lists) \cup {Last(ck.free)}
  BY <1>2, <1>3, <1>4, AppendPage
<1>6. TakeInv'
  <2>1. /\ Range(ck'.free) \cap Range(ck'.lists) = {}
        /\ Range(ck'.free) \cup Range(ck'.lists) = Range(free) \cup (nextPage .. ck.next - 1)
        /\ Range(ck'.free) \subseteq Range(free)
    BY <1>2, <1>4, <1>5
  <2>2. /\ nextPage <= ck.next /\ ck.next <= ck.file /\ filePages <= ck.file
        /\ cache[ck.file - 1] # None
        /\ \A p \in held : pend[p] = {}
        /\ pend[ck.file - 1] = {} => drive[ck.file - 1] # None
    BY <1>1 DEF IInv, TakeInv
  <2>3. UNCHANGED <<free, nextPage, filePages, held, cache, drive, pend>>
    BY DEF memVars, diskVars
  <2> QED BY <1>3, <1>4, <1>5, <2>1, <2>2, <2>3 DEF TakeInv
<1>7. ListInv'
  BY DEF IInv, ListInv, TypeOK, CallType
<1>8. Writes({}) /\ Gapless({})
  BY DEF diskVars, Writes, Gapless
<1>9. \A p \in {} : p \in Range(free) \/ p >= nextPage
  OBVIOUS
<1>10. {} \in SUBSET (PageIDs \ {MetaPage})
  OBVIOUS
<1> QED BY <1>1, <1>6, <1>7, <1>8, <1>9, <1>10, CheckpointWrites

\* A page never handed out, the file growing first when it is full.
LEMMA CkTakeNew ==
  ASSUME TypeOK, IInv, pc = "ckTake", caller # "create", ck.free = <<>>,
         ck.next < MaxPages, CkSize > ck.next,
         DiskWrite(NewPages(ck.file, CkSize), {}, Zero),
         ck' = [ck EXCEPT !.next = @ + 1, !.file = CkSize, !.lists = Append(@, ck.next)],
         UNCHANGED <<memVars, held, pc, caller, walk, saved, doubt, clobbered>>
  PROVE  IInv'
<1> DEFINE W == NewPages(ck.file, CkSize)
<1>1. pc \in CkPcs
  BY DEF CkPcs
<1>2. /\ ck.free \in PageLists /\ ck.lists \in PageLists
      /\ Distinct(ck.free) /\ Distinct(ck.lists)
      /\ Range(ck.free) \cap Range(ck.lists) = {}
      /\ Range(ck.free) \subseteq Range(free)
      /\ Range(ck.free) \cup Range(ck.lists) = Range(free) \cup (nextPage .. ck.next - 1)
      /\ nextPage \in 1 .. MaxPages /\ nextPage <= ck.next /\ filePages <= ck.file
      /\ ck.next \in 1 .. MaxPages /\ ck.file \in ck.next .. MaxPages /\ ck.file - 1 \in PageIDs
      /\ \A p \in PageIDs : p < ck.file => cache[p] # None
      /\ \A p \in Range(ck.lists) : p \in PageIDs /\ p < ck.next
  BY <1>1, TakenPages
<1>3. /\ ck'.free = ck.free /\ ck'.lists = Append(ck.lists, ck.next)
      /\ ck'.next = ck.next + 1 /\ ck'.file = CkSize
  BY DEF TypeOK, CallType
<1>4. CkSize \in ck.file .. MaxPages /\ ck.next \in PageIDs
  <2>1. ck.file \in 0 .. MaxPages
    BY <1>2
  <2> QED BY <1>2, <2>1, GrowToFacts DEF CkSize
<1>5. W \in SUBSET (PageIDs \ {MetaPage}) /\ \A p \in W : p >= nextPage /\ p >= ck.file
  BY <1>2, <1>4 DEF NewPages
<1>6. Writes(W)
  <2>1. W \cup {} = W /\ {} \in SUBSET PageIDs /\ W \in SUBSET PageIDs
    BY <1>5
  <2>2. Writes(W \cup {})
    BY <2>1, DiskWriteWrites, WrittenKinds
  <2> QED BY <2>1, <2>2
<1>7. Gapless(W)
  <2>1. FileInv /\ ck.file \in 0 .. MaxPages /\ CkSize \in 0 .. MaxPages
        /\ (ck.file > 0 => cache[ck.file - 1] # None)
    BY <1>2, <1>4 DEF IInv, DriveInv
  <2> QED BY <1>5, <2>1, GrowthIsGapless
<1>8. /\ Distinct(ck'.lists) /\ ck'.lists # <<>>
      /\ Range(ck'.lists) = Range(ck.lists) \cup {ck.next}
  <2>1. ck.next \notin Range(ck.lists)
    BY <1>2, <1>4
  <2>2. ck.lists \in PageLists /\ Distinct(ck.lists) /\ ck.next \in PageIDs
    BY <1>2, <1>4
  <2>3. ck'.lists = Append(ck.lists, ck.next)
    BY <1>3
  <2> QED BY <2>1, <2>2, <2>3, AppendPage
<1>9. TakeInv'
  <2>1. nextPage .. ck'.next - 1 = (nextPage .. ck.next - 1) \cup {ck.next}
    BY <1>2, <1>3
  <2>2. Range(ck'.free) = {}
    BY <1>3, EmptyList
  <2>3. /\ Range(ck'.free) \cap Range(ck'.lists) = {}
        /\ Range(ck'.free) \cup Range(ck'.lists) = Range(free) \cup (nextPage .. ck'.next - 1)
        /\ Range(ck'.free) \subseteq Range(free)
    BY <1>2, <1>3, <1>8, <2>1, <2>2
  <2>4. nextPage <= ck'.next /\ ck'.next <= ck'.file /\ filePages <= ck'.file
    <3>1. filePages \in 0 .. MaxPages
      BY DEF TypeOK, MemType
    <3> QED BY <1>2, <1>3, <1>4, <3>1
  <2>5. CkSize = ck.file \/ CkSize - 1 \in W
    BY <1>2, <1>4 DEF NewPages
  <2>6. cache'[ck'.file - 1] # None
    BY <1>2, <1>3, <1>4, <1>6, <2>5 DEF Writes
  <2>7. pend'[ck'.file - 1] = {} => drive'[ck'.file - 1] # None
    <3>1. pend[ck.file - 1] = {} => drive[ck.file - 1] # None
      BY <1>1 DEF IInv, TakeInv
    <3>2. ck.file - 1 \in PageIDs /\ CkSize - 1 \in PageIDs /\ ck'.file = CkSize
      BY <1>2, <1>3, <1>4
    <3>3. CASE CkSize - 1 \in W
      <4>1. pend'[CkSize - 1] # {}
        BY <1>6, <3>2, <3>3 DEF Writes
      <4> QED BY <3>2, <4>1
    <3>4. CASE CkSize = ck.file
      <4>1. drive' = drive /\ pend[ck.file - 1] \subseteq pend'[ck.file - 1]
        BY <1>6, <3>2 DEF Writes
      <4> QED BY <3>1, <3>2, <3>4, <4>1
    <3> QED BY <2>5, <3>3, <3>4
  <2>8. ASSUME NEW p \in held PROVE pend'[p] = {}
    <3>1. pend[p] = {}
      BY <1>1 DEF IInv, TakeInv
    <3>2. p \in PageIDs /\ p < nextPage
      BY <1>1, CallState, HeldPages
    <3>3. p \notin W
      BY <1>2, <1>5, <3>2
    <3> QED BY <1>6, <3>1, <3>2, <3>3 DEF Writes
  <2>9. UNCHANGED <<free, nextPage, filePages, held>>
    BY DEF memVars
  <2>10. Distinct(ck'.free)
    BY <1>2, <1>3
  <2> HIDE DEF W
  <2> QED BY <1>8, <2>3, <2>4, <2>6, <2>7, <2>8, <2>9, <2>10 DEF TakeInv
<1>10. ListInv'
  BY DEF IInv, ListInv, TypeOK, CallType
<1> HIDE DEF W
<1> QED BY <1>1, <1>5, <1>6, <1>7, <1>9, <1>10, CheckpointWrites

LEMMA CkTakeStep ==
  ASSUME TypeOK, IInv, CkTake
  PROVE  IInv'
<1>1. pc = "ckTake" /\ pc \in CkPcs \ {"ckMetaSync"} /\ UNCHANGED <<saved, doubt, clobbered>>
  BY DEF CkTake, CkPcs
<1>2. caller # "create"
  BY <1>1, NothingToTake DEF CkTake
<1>3. CASE ck.free # <<>>
  BY <1>1, <1>2, <1>3, CkTakeFree DEF CkTake
<1>4. CASE CheckpointFails(FALSE) /\ UNCHANGED diskVars
  <2>1. Writes({}) /\ Gapless({})
    BY <1>4 DEF diskVars, Writes, Gapless
  <2>2. (\A p \in {} : p \in Range(free) \/ p >= nextPage) /\ {} \in SUBSET (PageIDs \ {MetaPage})
    OBVIOUS
  <2> QED BY <1>1, <1>2, <1>4, <2>1, <2>2, CheckpointWriteFails
<1>5. CASE ck.free = <<>> /\ ~ (ck.next >= MaxPages \/ CkSize <= ck.next)
  <2>1. /\ ck.next \in 1 .. MaxPages /\ ck.file \in ck.next .. MaxPages
        /\ nextPage \in 1 .. MaxPages /\ nextPage <= ck.next
        /\ \A p \in PageIDs : p < ck.file => cache[p] # None
    BY <1>1, TakenPages
  <2>2. CkSize \in ck.file .. MaxPages
    BY <2>1, GrowToFacts DEF CkSize
  <2>3. ck.next < MaxPages /\ CkSize > ck.next
    BY <1>5, <2>1, <2>2
  <2>4. CASE /\ DiskWrite(NewPages(ck.file, CkSize), {}, Zero)
             /\ ck' = [ck EXCEPT !.next = @ + 1, !.file = CkSize, !.lists = Append(@, ck.next)]
             /\ UNCHANGED <<memVars, held, pc, caller, walk>>
    BY <1>1, <1>2, <1>5, <2>3, <2>4, CkTakeNew
  <2>5. CASE /\ \E some \in ck.file .. CkSize - 1 : DiskWrite(NewPages(ck.file, some), {}, Zero)
             /\ CheckpointFails(FALSE)
    <3>1. PICK some \in ck.file .. CkSize - 1 : DiskWrite(NewPages(ck.file, some), {}, Zero)
      BY <2>5
    <3> DEFINE W == NewPages(ck.file, some)
    <3>2. W \in SUBSET (PageIDs \ {MetaPage}) /\ some \in 0 .. MaxPages /\ \A p \in W : p >= nextPage
      BY <2>1, <2>2 DEF NewPages
    <3>3. Writes(W)
      <4>1. W \cup {} = W /\ {} \in SUBSET PageIDs /\ W \in SUBSET PageIDs
        BY <3>2
      <4>2. Writes(W \cup {})
        BY <3>1, <4>1, DiskWriteWrites, WrittenKinds
      <4> QED BY <4>1, <4>2
    <3>4. Gapless(W)
      <4>1. FileInv /\ ck.file \in 0 .. MaxPages /\ (ck.file > 0 => cache[ck.file - 1] # None)
        BY <2>1 DEF IInv, DriveInv
      <4> QED BY <3>2, <4>1, GrowthIsGapless
    <3> HIDE DEF W
    <3> QED BY <1>1, <1>2, <2>5, <3>2, <3>3, <3>4, CheckpointWriteFails
  <2> QED BY <1>1, <1>5, <2>4, <2>5 DEF CkTake
<1> QED BY <1>3, <1>4, <1>5 DEF CkTake

\* Once there are pages enough for the list, the meta record accounts for each page of
\* the file: on the list, holding the list, or the client's.
LEMMA NextAccounts ==
  ASSUME TypeOK, IInv, pc \in CkPcs, Filled, Enough
  PROVE  /\ Accounts(NextMeta, ck.lists, Entries)
         /\ held = Leftover(NextMeta, ck.lists, Entries)
         /\ ck.lists \in PageLists /\ Entries \in PageLists
<1>1. Live
  BY CallState
<1>2. /\ ck.free \in PageLists /\ ck.lists \in PageLists
      /\ Distinct(ck.free) /\ Distinct(ck.lists)
      /\ Range(ck.free) \cap Range(ck.lists) = {}
      /\ Range(ck.free) \subseteq Range(free)
      /\ Range(ck.free) \cup Range(ck.lists) = Range(free) \cup (nextPage .. ck.next - 1)
      /\ nextPage \in 1 .. MaxPages /\ nextPage <= ck.next
      /\ ck.next \in 1 .. MaxPages /\ ck.file \in ck.next .. MaxPages
      /\ \A p \in Range(free) : p \in PageIDs /\ p # MetaPage /\ p < nextPage
      /\ \A p \in Range(ck.lists) :
           /\ p \in PageIDs /\ p # MetaPage /\ p < ck.next
           /\ p \in Range(free) \/ p >= nextPage
  BY TakenPages
<1>3. /\ Distinct(free) /\ Distinct(pending) /\ Distinct(listPage)
      /\ Range(free) \cap Range(pending) = {}
      /\ Range(free) \cap Range(listPage) = {}
      /\ Range(pending) \cap Range(listPage) = {}
      /\ \A p \in Range(free) \cup Range(pending) \cup Range(listPage) : p # MetaPage /\ p < nextPage
      /\ root = NoPage \/ root \in held
  BY <1>1 DEF IInv, ListsInv
<1>4. \A p \in PageIDs : p \in held <=>
         /\ p # MetaPage /\ p < nextPage
         /\ p \notin Range(free) \cup Range(pending) \cup Range(listPage)
  BY <1>1, HeldPages
<1>5. listPage \in PageLists /\ pending \in PageLists /\ root \in PageIDs /\ held \subseteq PageIDs
  BY <1>1, HeldPages DEF TypeOK, MemType, PageLists
<1>6. /\ Entries \in PageLists /\ Distinct(Entries)
      /\ Range(Entries) = Range(listPage) \cup Range(ck.free) \cup Range(pending)
  <2> DEFINE front == listPage \o ck.free
  <2>1. Range(listPage) \cap Range(ck.free) = {}
    BY <1>2, <1>3
  <2>2. /\ front \in PageLists /\ Distinct(front)
        /\ Range(front) = Range(listPage) \cup Range(ck.free)
    BY <1>2, <1>3, <1>5, <2>1, ConcatPages
  <2> HIDE DEF front
  <2>3. Range(front) \cap Range(pending) = {}
    BY <1>2, <1>3, <2>2
  <2>4. /\ front \o pending \in PageLists /\ Distinct(front \o pending)
        /\ Range(front \o pending) = Range(front) \cup Range(pending)
    BY <1>3, <1>5, <2>2, <2>3, ConcatPages
  <2> QED BY <2>2, <2>4 DEF Entries, front
<1>7. /\ NextMeta.checkpoint # 0 /\ NextMeta.next = ck.next /\ NextMeta.file = ck.file
      /\ NextMeta.root = root /\ NextMeta.count = Len(Entries)
      /\ NextMeta.head = NextInList(ck.lists, 0)
  <2>1. durable.checkpoint \in Nat
    BY DEF TypeOK, MemType, MetaRecord
  <2>2. (IF ck.lists = <<>> THEN NoPage ELSE Head(ck.lists)) = NextInList(ck.lists, 0)
    <3>1. ck.lists = <<>> <=> ~ (0 < Len(ck.lists))
      BY <1>2, EmptySeq, LenProperties DEF PageLists
    <3> QED BY <3>1 DEF NextInList
  <2> QED BY <2>1, <2>2 DEF NextMeta, Meta
<1>8. Range(ck.lists) \cap Range(Entries) = {}
  <2>1. ASSUME NEW p \in Range(ck.lists), p \in Range(listPage) \cup Range(pending) PROVE FALSE
    <3>1. p \in PageIDs /\ p < nextPage /\ p \notin Range(free)
      BY <1>2, <1>3, <2>1
    <3> QED BY <1>2, <2>1, <3>1
  <2> QED BY <1>2, <1>6, <2>1
<1>9. ASSUME NEW p \in Range(ck.lists) \cup Range(Entries)
      PROVE  p \in PageIDs /\ p # MetaPage /\ p < ck.next /\ p # root
  <2>1. CASE p \in Range(Entries)
    <3>1. p \in PageIDs
      BY <2>1, <1>6, RangeOfSeq DEF PageLists
    <3>2. p \in Range(free) \cup Range(pending) \cup Range(listPage)
      BY <1>2, <1>6, <2>1
    <3>3. p # MetaPage /\ p < nextPage /\ p \notin held
      BY <1>3, <1>4, <3>1, <3>2
    <3> QED BY <1>2, <1>3, <3>1, <3>3
  <2>2. CASE p \in Range(ck.lists)
    <3>1. p \in PageIDs /\ p # MetaPage /\ p < ck.next /\ (p \in Range(free) \/ p >= nextPage)
      BY <1>2, <2>2
    <3>2. p \notin held
      BY <1>2, <1>4, <3>1
    <3> QED BY <1>3, <3>1, <3>2
  <2> QED BY <2>1, <2>2
<1>10. /\ Len(Entries) <= Len(ck.lists) * FreeListCapacity
       /\ \A i \in DOMAIN ck.lists : (i - 1) * FreeListCapacity <= Len(Entries)
  <2>1. Len(Entries) = Count /\ Count \in Nat
    BY EntriesType, CountType DEF TypeOK
  <2>2. DOMAIN ck.lists = 1 .. Len(ck.lists) /\ Len(ck.lists) \in Nat
    BY <1>2, LenProperties DEF PageLists
  <2>3. ASSUME NEW i \in 1 .. Len(ck.lists) PROVE (i - 1) * FreeListCapacity <= Count
    <3>1. (i - 1) * FreeListCapacity <= (Len(ck.lists) - 1) * FreeListCapacity
      <4>1. i - 1 \in Int /\ Len(ck.lists) - 1 \in Int /\ i - 1 <= Len(ck.lists) - 1
        BY <2>2
      <4>2. FreeListCapacity \in Nat
        BY CapacityAssumption
      <4> QED BY <4>1, <4>2, MultiplyMonotonic
    <3>2. (i - 1) * FreeListCapacity \in Int /\ (Len(ck.lists) - 1) * FreeListCapacity \in Int
      BY <2>2, CapacityAssumption
    <3> QED BY <2>1, <2>2, <3>1, <3>2 DEF Filled
  <2> QED BY <2>1, <2>2, <2>3 DEF Enough
<1>11. root < ck.next
  BY <1>2, <1>3, <1>4, <1>5
<1>12. NextMeta \in MetaRecord /\ NextMeta.next # 0 /\ NextMeta.next <= NextMeta.file
  BY <1>2, <1>7, NextMetaType DEF TypeOK
<1>13. Accounts(NextMeta, ck.lists, Entries)
  BY <1>2, <1>6, <1>7, <1>8, <1>9, <1>10, <1>11, <1>12 DEF Accounts
<1>14. held = Leftover(NextMeta, ck.lists, Entries)
  <2>1. ASSUME NEW p \in PageIDs
        PROVE  p \in held <=> /\ p # MetaPage /\ p < ck.next
                              /\ p \notin Range(ck.lists) \cup Range(Entries)
    <3>1. p \in nextPage .. ck.next - 1 <=> p >= nextPage /\ p < ck.next
      BY <1>2
    <3>2. p < nextPage <=> p < ck.next /\ ~ (p >= nextPage)
      BY <1>2
    <3> QED BY <1>2, <1>4, <1>6, <3>1, <3>2
  <2>2. Leftover(NextMeta, ck.lists, Entries)
          = {p \in PageIDs : /\ p # MetaPage /\ p < ck.next
                             /\ p \notin Range(ck.lists) \cup Range(Entries)}
    BY <1>7 DEF Leftover
  <2> QED BY <1>5, <2>1, <2>2
<1> QED BY <1>2, <1>6, <1>13, <1>14

\* The record and the list that a checkpoint will write, in a step that leaves what
\* they are made of alone.
LEMMA NextKept ==
  ASSUME UNCHANGED <<memVars, ck, held>>
  PROVE  /\ NextMeta' = NextMeta /\ Entries' = Entries /\ ck'.lists = ck.lists /\ ck'.at = ck.at
         /\ \A number : Snapshot(number)'.checkpoint = Snapshot(number).checkpoint
                        /\ Snapshot(number)'.root = Snapshot(number).root
                        /\ Snapshot(number)'.held = Snapshot(number).held
         /\ durable'.checkpoint = durable.checkpoint
BY DEF memVars, NextMeta, Entries, Snapshot

\* A new checkpoint is backed once its list is written and synced.
LEMMA NextBacked ==
  ASSUME TypeOK, IInv, pc \in CkPcs, Filled, Enough,
         UNCHANGED <<memVars, ck, held>>,
         Chained(ck.lists, Entries)', drive'[ck.file - 1] # None
  PROVE  Backs(NextMeta, Snapshot(durable.checkpoint + 1), ck.lists, Entries)'
<1>1. /\ NextMeta' = NextMeta /\ Entries' = Entries /\ ck'.lists = ck.lists
      /\ durable'.checkpoint = durable.checkpoint
  BY NextKept
<1>2. Accounts(NextMeta, ck.lists, Entries) /\ held = Leftover(NextMeta, ck.lists, Entries)
  BY NextAccounts
<1>3. PICK m : m = NextMeta
  OBVIOUS
<1>4. PICK L : L = ck.lists
  OBVIOUS
<1>5. PICK E : E = Entries
  OBVIOUS
<1>6. Accounts(m, L, E) /\ held = Leftover(m, L, E)
  BY <1>2, <1>3, <1>4, <1>5
<1>7. Chained(L, E)' /\ drive'[m.file - 1] # None
  <2>1. m.file = ck.file
    BY <1>3 DEF NextMeta, Meta
  <2> QED BY <1>1, <1>4, <1>5, <2>1
<1>8. PICK s : s = Snapshot(durable.checkpoint + 1)'
  OBVIOUS
<1>9. s.checkpoint = m.checkpoint /\ s.root = m.root /\ s.held = held
  BY <1>1, <1>3, <1>8 DEF Snapshot, NextMeta, Meta, memVars
<1>10. Accounts(m, L, E)' /\ Leftover(m, L, E)' = Leftover(m, L, E)
  BY <1>6 DEF Accounts, Leftover
<1>11. Backs(m, s, L, E)'
  BY <1>6, <1>7, <1>9, <1>10 DEF Backs
<1> QED BY <1>1, <1>3, <1>4, <1>5, <1>8, <1>11

LEMMA CkTakenStep ==
  ASSUME TypeOK, IInv, ListPagesInv', CkTaken
  PROVE  IInv'
<1>1. /\ pc = "ckTake" /\ pc \in CkPcs
      /\ pc' = IF ck.lists = <<>> THEN "ckMeta" ELSE "ckList"
      /\ UNCHANGED <<diskVars, memVars, histVars, caller, ck>>
  BY DEF CkTaken, CkPcs
<1>2. Live /\ poisoned = FALSE
  BY <1>1, CallState
<1>3. Quiet /\ DriveInv' /\ \A p \in PageIDs : cache[p] # None => cache'[p] # None
  BY <1>1, NoDiskStep DEF histVars
<1>4. ListsInv'
  <2>1. root = NoPage \/ root \in held
    BY <1>2 DEF IInv, ListsInv
  <2> QED BY <1>1, <1>2, <1>3, <2>1, ListsKept DEF memVars, histVars
<1>5. BaseInv'
  <2>1. pc' \in CkPcs \ {"ckMetaSync"}
    BY <1>1 DEF CkPcs
  <2> QED BY <1>1, <1>2, <1>3, <2>1, CheckpointBaseKept DEF memVars, histVars
<1>6. CleanInv' /\ TakeInv'
  <2>1. UNCHANGED <<drive, cache, pend, free, nextPage, filePages, poisoned, held, clobbered>>
    BY <1>1 DEF diskVars, memVars, histVars
  <2> QED BY <1>1, <1>2, <2>1 DEF IInv, CleanInv, TakeInv
<1>7. ListInv'
  <2>1. CASE ck.lists = <<>>
    <3>1. (Filled /\ Enough)'
      BY <1>1, <2>1 DEF ListPagesInv
    <3>2. Filled /\ Enough
      BY <1>1, <3>1 DEF Filled, Enough, Count, memVars
    <3>3. Chained(ck.lists, Entries)'
      BY <1>1, <2>1, EmptySeq DEF Chained
    <3>4. drive'[ck.file - 1] # None
      BY <1>1, <2>1 DEF IInv, TakeInv, diskVars
    <3>5. Backs(NextMeta, Snapshot(durable.checkpoint + 1), ck.lists, Entries)'
      BY <1>1, <3>2, <3>3, <3>4, NextBacked DEF histVars
    <3> QED BY <1>1, <2>1, <3>5 DEF ListInv
  <2>2. CASE ck.lists # <<>>
    <3>1. Len(ck.lists) > 0
      BY <2>2, EmptySeq, LenProperties DEF TypeOK, CallType
    <3>2. ck.at = 0
      BY <1>1 DEF IInv, ListInv
    <3> QED BY <1>1, <2>2, <3>1, <3>2 DEF ListInv
  <2> QED BY <2>1, <2>2
<1>8. CommitInv' /\ pc' \in {"ckSync"} \cup CkPcs
  BY <1>1 DEF CommitInv, CkPcs
<1> QED BY <1>1, <1>2, <1>3, <1>4, <1>5, <1>6, <1>7, <1>8, CheckpointOn DEF memVars

\* The next list page is written: one that the store may write.
LEMMA ListPageToWrite ==
  ASSUME TypeOK, IInv, pc = "ckList"
  PROVE  LET id == ck.lists[ck.at + 1] IN
         /\ ck.at \in Nat /\ ck.at + 1 \in DOMAIN ck.lists
         /\ id \in PageIDs /\ id # MetaPage /\ id \notin held
         /\ id \in Range(free) \/ id >= nextPage
         /\ cache[id] # None /\ ck.lists # <<>>
         /\ \A i \in 1 .. ck.at : /\ i \in DOMAIN ck.lists
                                  /\ ck.lists[i] \in PageIDs /\ ck.lists[i] # id
<1>1. pc \in CkPcs
  BY DEF CkPcs
<1>2. /\ ck.lists \in PageLists /\ Distinct(ck.lists)
      /\ ck.next \in 1 .. MaxPages /\ ck.file \in ck.next .. MaxPages
      /\ \A p \in PageIDs : p < ck.file => cache[p] # None
      /\ \A p \in Range(ck.lists) :
           /\ p \in PageIDs /\ p # MetaPage /\ p < ck.next
           /\ p \in Range(free) \/ p >= nextPage
      /\ nextPage \in 1 .. MaxPages
  BY <1>1, TakenPages
<1>3. /\ DOMAIN ck.lists = 1 .. Len(ck.lists) /\ Len(ck.lists) \in Nat
      /\ ck.at \in Nat /\ ck.at < Len(ck.lists)
  BY <1>2, LenProperties DEF PageLists, TypeOK, CallType, IInv, ListInv
<1>4. ck.at + 1 \in DOMAIN ck.lists /\ \A i \in 1 .. ck.at : i \in DOMAIN ck.lists /\ i # ck.at + 1
  BY <1>3
<1>5. \A i \in DOMAIN ck.lists : ck.lists[i] \in Range(ck.lists)
  BY DEF Range
<1> DEFINE id == ck.lists[ck.at + 1]
<1>6. id \in PageIDs /\ id # MetaPage /\ id < ck.next /\ (id \in Range(free) \/ id >= nextPage)
  BY <1>2, <1>4, <1>5
<1>7. \A i \in 1 .. ck.at : ck.lists[i] \in PageIDs /\ ck.lists[i] # id
  BY <1>2, <1>4, <1>5 DEF Distinct
<1> HIDE DEF id
<1>8. id \notin held
  BY <1>1, <1>2, <1>6, CallState, HeldPages
<1>9. cache[id] # None
  BY <1>2, <1>6
<1>10. ck.lists # <<>>
  BY <1>3, EmptySeq
<1> QED BY <1>3, <1>4, <1>6, <1>7, <1>8, <1>9, <1>10 DEF id

LEMMA CkListWritten ==
  ASSUME TypeOK, IInv, pc = "ckList", caller # "create",
         DiskWrite({}, {ck.lists[ck.at + 1]}, ListPageOf(ck.lists, Entries, ck.at + 1)),
         ck' = [ck EXCEPT !.at = @ + 1],
         pc' = AfterListPage,
         UNCHANGED <<memVars, held, caller, walk, saved, doubt, clobbered>>
  PROVE  IInv'
<1> DEFINE id == ck.lists[ck.at + 1]
           page == ListPageOf(ck.lists, Entries, ck.at + 1)
<1>1. /\ ck.at \in Nat /\ ck.at + 1 \in DOMAIN ck.lists
      /\ id \in PageIDs /\ id # MetaPage /\ id \notin held
      /\ id \in Range(free) \/ id >= nextPage
      /\ cache[id] # None /\ ck.lists # <<>>
      /\ \A i \in 1 .. ck.at : ck.lists[i] \in PageIDs /\ ck.lists[i] # id
  BY ListPageToWrite
<1>2. DiskWrite({}, {id}, page) /\ page # None
  BY WrittenKinds DEF ListPageOf
<1> HIDE DEF id, page
<1>3. Writes({id}) /\ cache'[id] = page /\ pend'[id] # {}
  <2>1. Writes({id})
    BY <1>1, <1>2, OnePageWrites
  <2>2. cache'[id] = page
    BY <1>1, <1>2 DEF DiskWrite
  <2> QED BY <1>1, <2>1, <2>2 DEF Writes
<1>4. Gapless({id}) /\ {id} \in SUBSET (PageIDs \ {MetaPage})
  BY <1>1, ExistingIsGapless DEF IInv, DriveInv
<1>5. /\ ck'.free = ck.free /\ ck'.lists = ck.lists /\ ck'.next = ck.next /\ ck'.file = ck.file
      /\ ck'.at = ck.at + 1
  BY DEF TypeOK, CallType
<1>6. UNCHANGED <<free, pending, listPage, nextPage, filePages, poisoned>>
  BY DEF memVars
<1>7. pc \in CkPcs \ {"ckMetaSync"} /\ pc' \in CkPcs \ {"ckMetaSync"}
  BY DEF CkPcs, AfterListPage
<1>8. TakeInv'
  <2>1. /\ Distinct(ck.free) /\ Distinct(ck.lists)
        /\ Range(ck.free) \cap Range(ck.lists) = {}
        /\ Range(ck.free) \subseteq Range(free)
        /\ Range(ck.free) \cup Range(ck.lists) = Range(free) \cup (nextPage .. ck.next - 1)
        /\ nextPage <= ck.next /\ ck.next <= ck.file /\ filePages <= ck.file
        /\ cache[ck.file - 1] # None
        /\ \A p \in held : pend[p] = {}
        /\ pend[ck.file - 1] = {} => drive[ck.file - 1] # None
    BY <1>7 DEF IInv, TakeInv
  <2>2. ck.file - 1 \in PageIDs
    BY <1>7, TakenPages
  <2>3. cache'[ck.file - 1] # None /\ (pend'[ck.file - 1] = {} => drive'[ck.file - 1] # None)
    BY <1>3, <2>1, <2>2 DEF Writes
  <2>4. \A p \in held : pend'[p] = {}
    <3>1. held \subseteq PageIDs
      BY DEF TypeOK, HistType
    <3> QED BY <1>1, <1>3, <2>1, <3>1 DEF Writes
  <2> QED BY <1>1, <1>5, <1>6, <2>1, <2>3, <2>4 DEF TakeInv
<1>9. ListInv'
  <2>1. Entries' = Entries
    BY <1>5, <1>6 DEF Entries
  <2>2. ASSUME NEW i \in 1 .. ck.at + 1
        PROVE  cache'[ck.lists[i]] = ListPageOf(ck.lists, Entries, i) /\ pend'[ck.lists[i]] # {}
    <3>1. CASE i = ck.at + 1
      BY <1>3, <3>1 DEF id, page
    <3>2. CASE i # ck.at + 1
      <4>1. i \in 1 .. ck.at
        BY <1>1, <3>2
      <4>2. cache[ck.lists[i]] = ListPageOf(ck.lists, Entries, i) /\ pend[ck.lists[i]] # {}
        BY <4>1 DEF IInv, ListInv
      <4> QED BY <1>1, <1>3, <4>1, <4>2 DEF Writes
    <3> QED BY <3>1, <3>2
  <2>3. /\ pc' = "ckList" => ck.at + 1 < Len(ck.lists)
        /\ pc' = "ckListSync" => ck.at + 1 = Len(ck.lists)
    <3>1. ck.at + 1 \in 1 .. Len(ck.lists) /\ Len(ck.lists) \in Nat
      BY <1>1, LenProperties DEF TypeOK, CallType
    <3> QED BY <3>1 DEF AfterListPage
  <2>4. \A i \in 1 .. ck'.at : /\ cache'[ck'.lists[i]] = ListPageOf(ck'.lists, Entries', i)
                               /\ pend'[ck'.lists[i]] # {}
    BY <1>5, <2>1, <2>2
  <2>5. pc' \notin {"ckTake", "ckMeta", "ckMetaSync"}
    BY DEF AfterListPage
  <2> QED BY <1>5, <2>3, <2>4, <2>5 DEF ListInv
<1>10. \A p \in {id} : p \in Range(free) \/ p >= nextPage
  BY <1>1
<1> QED BY <1>3, <1>4, <1>7, <1>8, <1>9, <1>10, CheckpointWrites

LEMMA CkListStep ==
  ASSUME TypeOK, IInv, CkList
  PROVE  IInv'
<1> DEFINE id == ck.lists[ck.at + 1]
           next == IF ck.at + 1 < Len(ck.lists) THEN ck.lists[ck.at + 2] ELSE NoPage
           page == FreeListPage(next, SubSeq(Entries, lo(ck.at) + 1, hi(ck.at)))
<1>1. /\ ck.at \in Nat /\ ck.at + 1 \in DOMAIN ck.lists
      /\ id \in PageIDs /\ id # MetaPage /\ id \notin held
      /\ id \in Range(free) \/ id >= nextPage
      /\ cache[id] # None /\ ck.lists # <<>>
      /\ pc = "ckList" /\ pc \in CkPcs \ {"ckMetaSync"}
  BY ListPageToWrite DEF CkList, CkPcs
<1>2. caller # "create"
  <2>1. Live
    BY <1>1, CallState
  <2> QED BY <1>1, <2>1, CreateState
<1>3. page = ListPageOf(ck.lists, Entries, ck.at + 1)
  <2>1. next = NextInList(ck.lists, ck.at + 1)
    <3>1. ck.at + 1 + 1 = ck.at + 2
      BY <1>1
    <3> QED BY <3>1 DEF NextInList
  <2>2. SubSeq(Entries, lo(ck.at) + 1, hi(ck.at)) = Slice(Entries, ck.at + 1)
    <3>1. (ck.at + 1) - 1 = ck.at
      BY <1>1
    <3> QED BY <3>1 DEF Slice, lo, hi
  <2> HIDE DEF next
  <2> QED BY <2>1, <2>2 DEF ListPageOf
<1>4. /\ \/ /\ DiskWrite({}, {id}, page)
            /\ ck' = [ck EXCEPT !.at = @ + 1]
            /\ pc' = AfterListPage
            /\ UNCHANGED <<memVars, held, caller, walk, trouble>>
         \/ DiskWriteFails({}, id, page) /\ CheckpointFails(FALSE)
      /\ UNCHANGED <<saved, doubt, clobbered>>
  BY DEF CkList
<1>5. page # None
  BY WrittenKinds
<1> HIDE DEF page
<1>6. CASE /\ DiskWrite({}, {id}, page)
           /\ ck' = [ck EXCEPT !.at = @ + 1]
           /\ pc' = AfterListPage
           /\ UNCHANGED <<memVars, held, caller, walk, trouble>>
  BY <1>1, <1>2, <1>3, <1>4, <1>6, CkListWritten
<1> HIDE DEF id
<1>7. CASE DiskWriteFails({}, id, page) /\ CheckpointFails(FALSE)
  <2>1. PICK W \in SUBSET {id} : Writes(W)
    BY <1>1, <1>5, <1>7, OnePageWrites
  <2>2. Gapless(W) /\ W \in SUBSET (PageIDs \ {MetaPage})
    BY <1>1, <2>1, ExistingIsGapless DEF IInv, DriveInv
  <2>3. \A p \in W : p \in Range(free) \/ p >= nextPage
    BY <1>1, <2>1
  <2> QED BY <1>1, <1>2, <1>4, <1>7, <2>1, <2>2, <2>3, CheckpointWriteFails
<1> QED BY <1>4, <1>6, <1>7

LEMMA CkListSyncStep ==
  ASSUME TypeOK, IInv, ListPagesInv, CkListSync
  PROVE  IInv'
<1>1. pc = "ckListSync" /\ pc \in CkPcs /\ pc # "ckMetaSync" /\ Live /\ poisoned = FALSE
  BY CallState DEF CkListSync, CkPcs
<1>2. CASE /\ DiskSync
           /\ pc' = "ckMeta"
           /\ UNCHANGED <<memVars, held, caller, ck, walk, saved, doubt, clobbered>>
  <2>1. Quiet /\ DriveInv' /\ cache' = cache /\ \A p \in PageIDs : pend'[p] = {}
    BY <1>2, SyncIsQuiet, SyncReads, SyncedPages
  <2>2. ListsInv'
    <3>1. root = NoPage \/ root \in held
      BY <1>1 DEF IInv, ListsInv
    <3> QED BY <1>1, <1>2, <2>1, <3>1, ListsKept DEF memVars
  <2>3. BaseInv'
    <3>1. pc' \in CkPcs \ {"ckMetaSync"}
      BY <1>2 DEF CkPcs
    <3> QED BY <1>1, <1>2, <2>1, <3>1, CheckpointBaseKept DEF memVars
  <2>4. (\A p \in held \ clobbered : drive'[p] = cache'[p]) /\ drive'[filePages - 1] # None
    BY <1>1, <1>2, SyncedClean
  <2>5. CleanInv'
    BY <1>2, <2>4 DEF CleanInv, memVars
  <2>6. ck.file - 1 \in PageIDs /\ drive'[ck.file - 1] # None
    <3>1. ck.file - 1 \in PageIDs /\ cache[ck.file - 1] # None
      BY <1>1, TakenPages DEF IInv, TakeInv
    <3>2. pend[ck.file - 1] = {} => drive[ck.file - 1] # None
      BY <1>1 DEF IInv, TakeInv
    <3> QED BY <1>2, <3>1, <3>2, SyncedPages
  <2>7. TakeInv'
    <3>1. held \subseteq PageIDs
      BY <1>1, HeldPages
    <3> QED BY <1>1, <1>2, <2>1, <2>6, <3>1 DEF IInv, TakeInv, memVars
  <2>8. ListInv'
    <3>1. /\ ck.lists \in PageLists
          /\ \A p \in Range(ck.lists) : p \in PageIDs
      BY <1>1, TakenPages
    <3>2. ASSUME NEW i \in DOMAIN ck.lists
          PROVE  Stable(ck.lists[i], ListPageOf(ck.lists, Entries, i))'
      <4>1. i \in 1 .. ck.at
        BY <1>1, <3>1, LenProperties DEF IInv, ListInv, PageLists
      <4>2. cache[ck.lists[i]] = ListPageOf(ck.lists, Entries, i) /\ pend[ck.lists[i]] # {}
        BY <1>1, <4>1 DEF IInv, ListInv
      <4>3. ck.lists[i] \in PageIDs
        BY <3>1 DEF Range
      <4>4. ListPageOf(ck.lists, Entries, i) # None
        BY WrittenKinds DEF ListPageOf
      <4>5. Entries' = Entries /\ ck' = ck
        BY <1>2, NextKept
      <4>6. /\ cache'[ck.lists[i]] = ListPageOf(ck.lists, Entries, i)
            /\ drive'[ck.lists[i]] = ListPageOf(ck.lists, Entries, i)
            /\ pend'[ck.lists[i]] = {}
        BY <1>2, <4>2, <4>3, <4>4, SyncedPages
      <4> QED BY <4>4, <4>5, <4>6 DEF Stable
    <3>3. Chained(ck.lists, Entries)'
      BY <1>2, <3>2 DEF Chained
    <3>4. Filled /\ Enough
      BY <1>1 DEF ListPagesInv
    <3>5. Backs(NextMeta, Snapshot(durable.checkpoint + 1), ck.lists, Entries)'
      BY <1>1, <1>2, <2>6, <3>3, <3>4, NextBacked
    <3> QED BY <1>2, <3>5 DEF ListInv
  <2>9. CommitInv' /\ pc' \in {"ckSync"} \cup CkPcs
    BY <1>2 DEF CommitInv, CkPcs
  <2> QED BY <1>1, <1>2, <2>1, <2>2, <2>3, <2>5, <2>7, <2>8, <2>9, CheckpointOn DEF memVars
<1>3. CASE DiskSyncFails /\ CheckpointFails(TRUE) /\ UNCHANGED <<saved, doubt, clobbered>>
  BY <1>1, <1>3, FsyncEnds
<1> QED BY <1>2, <1>3 DEF CkListSync

\* The meta page is written, or some of it is: a crash leaves the last checkpoint or
\* the one being made.
LEMMA MetaWritten ==
  ASSUME TypeOK, IInv, pc = "ckMeta", NEW W \in SUBSET {MetaPage}, DiskWrite({}, W, NextMeta),
         doubt' = Snapshot(durable.checkpoint + 1), UNCHANGED <<saved, clobbered>>
  PROVE  /\ DriveInv' /\ Writes(W)
         /\ caller # "create" /\ UNCHANGED <<durable, listPage>> =>
              \E E \in PageLists : Backs(durable, saved, listPage, E)' /\ Range(free) \subseteq Range(E)
         /\ UNCHANGED <<memVars, held, ck>> =>
              Backs(NextMeta, Snapshot(durable.checkpoint + 1), ck.lists, Entries)'
<1>1. pc \in CkPcs /\ pc # "ckMetaSync" /\ Live /\ poisoned = FALSE
  BY CallState DEF CkPcs
<1>2. NextMeta \in MetaRecord /\ NextMeta # None
  BY NextMetaType, WrittenKinds DEF TypeOK
<1>3. Writes(W) /\ W \in SUBSET PageIDs
  <2>1. {} \in SUBSET PageIDs /\ W \in SUBSET PageIDs /\ {} \cup W = W
    OBVIOUS
  <2>2. Writes({} \cup W)
    BY <1>2, <2>1, DiskWriteWrites
  <2> QED BY <2>1, <2>2
<1>4. FileInv'
  <2>1. Gapless(W)
    BY DEF Gapless
  <2> QED BY <1>3, <2>1, WritesKeepFile DEF IInv, DriveInv
<1>5. /\ \A p \in PageIDs \ {MetaPage} : UNCHANGED <<cache[p], drive[p], pend[p]>>
      /\ Metas' \subseteq Metas \cup {NextMeta}
  BY DEF DiskWrite, Metas
<1>6. caller # "create" =>
        \E E \in PageLists :
           /\ Backs(durable, saved, listPage, E) /\ Range(free) \subseteq Range(E)
           /\ saved # Blank /\ saved.checkpoint = durable.checkpoint
           /\ \A p \in saved.held : p # MetaPage
           /\ Stable(MetaPage, durable)
  BY <1>1, LastCheckpoint
<1>7. caller = "create" =>
        /\ saved = Blank /\ durable = NoMeta /\ clobbered = {} /\ held = {} /\ root = NoPage
  BY <1>1, CreateState
<1>8. PICK L \in PageLists : L = listPage /\ MetaPage \notin Range(L)
  BY <1>1 DEF TypeOK, MemType, PageLists, IInv, ListsInv
<1>9. ASSUME NEW s, NEW m, NEW E \in PageLists, Backs(m, s, L, E) PROVE Backs(m, s, L, E)'
  <2>1. W \cap Range(L) = {}
    BY <1>8
  <2> QED BY <1>3, <1>9, <2>1, WritesKeepBacks
<1>10. Backs(NextMeta, Snapshot(durable.checkpoint + 1), ck.lists, Entries)
  BY DEF IInv, ListInv
<1>11. PICK m : m = NextMeta
  OBVIOUS
<1>12. PICK N \in PageLists : N = ck.lists
  BY DEF TypeOK, CallType, PageLists
<1>13. PICK F \in PageLists : F = Entries
  BY EntriesType DEF TypeOK, PageLists
<1>14. PICK s : s = Snapshot(durable.checkpoint + 1)
  OBVIOUS
<1>15. Backs(m, s, N, F)'
  <2>1. Backs(m, s, N, F)
    BY <1>10, <1>11, <1>12, <1>13, <1>14
  <2>2. W \cap Range(N) = {}
    BY <1>1, <1>12, TakenPages
  <2> QED BY <1>3, <2>1, <2>2, WritesKeepBacks
<1>16. BlankInv'
  <2>1. SUFFICES ASSUME saved = Blank
        PROVE  /\ clobbered' = {}
               /\ doubt' \in {NoDoubt, FirstSnapshot}
               /\ \A p \in PageIDs \ {MetaPage} :
                    /\ {cache'[p], drive'[p]} \cup pend'[p] \subseteq {None, Zero}
                    /\ p >= ChunkPages => cache'[p] = None
    BY DEF BlankInv
  <2>2. durable = NoMeta /\ held = {} /\ root = NoPage
    BY <1>6, <1>7, <2>1
  <2>3. doubt' = FirstSnapshot
    <3>1. durable.checkpoint + 1 = 1
      BY <2>2 DEF NoMeta, Meta
    <3>2. [p \in held |-> cache[p]] = [p \in {} |-> Zero]
      BY <2>2
    <3>3. doubt' = [checkpoint |-> 1, root |-> NoPage, held |-> {}, data |-> [p \in {} |-> Zero]]
      <4>1. doubt' = [checkpoint |-> durable.checkpoint + 1, root |-> root, held |-> held,
                      data |-> [p \in held |-> cache[p]]]
        BY DEF Snapshot
      <4> QED BY <2>2, <3>1, <3>2, <4>1, Zenon
    <3>4. FirstSnapshot
            = [checkpoint |-> 1, root |-> NoPage, held |-> {}, data |-> [p \in {} |-> Zero]]
      <4>1. ASSUME NEW f PROVE [[checkpoint |-> 0, root |-> NoPage, held |-> {}, data |-> f]
                                  EXCEPT !.checkpoint = 1]
                                = [checkpoint |-> 1, root |-> NoPage, held |-> {}, data |-> f]
        OBVIOUS
      <4> QED BY <4>1 DEF FirstSnapshot, Blank
    <3> QED BY <3>3, <3>4
  <2> QED BY <1>5, <2>1, <2>3 DEF IInv, DriveInv, BlankInv
<1>17. saved.checkpoint = durable.checkpoint /\ durable.checkpoint \in Nat
  BY <1>6, <1>7 DEF Blank, NoMeta, Meta, TypeOK, MemType, MetaRecord
<1>18. SnapshotInv'
  <2>1. MetaPage \notin held /\ doubt'.held = held
    BY <1>1, HeldPages DEF Snapshot
  <2> QED BY <1>17, <2>1 DEF IInv, DriveInv, SnapshotInv, Snapshot
<1>19. MetaInv'
  <2>1. SUFFICES ASSUME NEW r \in Metas'
        PROVE  \/ r \in {None, Zero} /\ saved' = Blank
               \/ Backed(r, saved)' \/ Backed(r, doubt)'
    BY DEF MetaInv
  <2>2. CASE r = NextMeta
    <3>1. doubt' = s
      BY <1>14
    <3>2. Backs(m, doubt, N, F)'
      BY <1>15, <3>1
    <3> QED BY <1>11, <2>2, <3>2 DEF Backed
  <2>3. CASE r \in Metas /\ caller # "create"
    <3>1. PICK E \in PageLists : Backs(durable, saved, listPage, E) /\ Stable(MetaPage, durable)
      BY <1>6, <2>3
    <3>2. r = durable
      BY <2>3, <3>1 DEF Metas, Stable
    <3>3. Backs(r, saved, L, E)
      BY <1>8, <3>1, <3>2
    <3>4. Backs(r, saved, L, E)'
      BY <1>9, <3>3
    <3> QED BY <3>4 DEF Backed
  <2>4. CASE r \in Metas /\ caller = "create" /\ r \notin {None, Zero}
    <3>1. Backed(r, saved) \/ Backed(r, doubt)
      BY <2>4, MetasKnown DEF IInv
    <3>2. ASSUME NEW t, Backed(r, t) PROVE t.checkpoint \in Nat \ {0}
      BY <3>2, ListPagesInFile DEF Backed, Backs, Accounts, MetaRecord
    <3>3. ~ Backed(r, saved) /\ Backed(r, doubt)
      BY <1>7, <2>4, <3>1, <3>2 DEF Blank
    <3>4. doubt \in {NoDoubt, FirstSnapshot} /\ doubt # NoDoubt
      BY <1>7, <2>4, <3>2, <3>3 DEF IInv, DriveInv, BlankInv, NoDoubt, Blank
    <3>5. doubt' = FirstSnapshot
      <4>1. saved' = Blank
        BY <1>7, <2>4
      <4>2. doubt' # NoDoubt
        BY <1>17 DEF NoDoubt, Blank, Snapshot
      <4> QED BY <1>16, <4>1, <4>2 DEF BlankInv
    <3>6. PICK K, E \in PageLists : Backs(r, doubt, K, E)
      BY <3>3 DEF Backed
    <3>7. W \cap Range(K) = {}
      BY <3>6 DEF Backs, Accounts
    <3>8. PICK d : d = doubt /\ d = doubt'
      BY <3>4, <3>5
    <3>9. Backs(r, d, K, E)'
      BY <1>3, <3>6, <3>7, <3>8, WritesKeepBacks
    <3>10. Backs(r, doubt, K, E)'
      BY <3>8, <3>9
    <3> QED BY <3>10 DEF Backed
  <2>5. CASE r \in Metas /\ caller = "create" /\ r \in {None, Zero}
    BY <1>7, <2>5
  <2> QED BY <1>5, <2>2, <2>3, <2>4, <2>5
<1>20. IntactInv'
  <2>1. ASSUME NEW p \in saved.held \ clobbered PROVE Stable(p, saved.data[p])'
    <3>1. p \in PageIDs \ {MetaPage}
      BY <1>6, <1>7, <2>1 DEF TypeOK, HistType, Blank
    <3>2. Stable(p, saved.data[p])
      BY <2>1 DEF IInv, DriveInv, IntactInv
    <3>3. p \notin W
      BY <3>1
    <3> QED BY <1>3, <3>1, <3>2, <3>3, WritesKeepStable
  <2>2. ASSUME NEW p \in held \ clobbered PROVE Stable(p, cache[p])'
    <3>1. p \in PageIDs /\ p # MetaPage /\ cache[p] # None
      BY <1>1, <2>2, HeldPages, PagesInFile
    <3>2. pend[p] = {} /\ drive[p] = cache[p]
      BY <1>1, <2>2 DEF IInv, TakeInv, CleanInv
    <3>3. PICK c : c = cache[p]
      OBVIOUS
    <3>4. cache'[p] = c /\ drive'[p] = c /\ pend'[p] = {} /\ c # None
      BY <1>5, <3>1, <3>2, <3>3
    <3>5. cache[p]' = cache'[p]
      OBVIOUS
    <3> QED BY <3>4, <3>5 DEF Stable
  <2>3. doubt'.held = held /\ \A p \in held : doubt'.data[p] = cache[p]
    BY DEF Snapshot
  <2>4. ASSUME NEW p \in doubt'.held \ clobbered' PROVE Stable(p, doubt.data[p])'
    <3>1. p \in held \ clobbered /\ doubt'.data[p] = cache[p]
      BY <2>3, <2>4
    <3>2. p \in PageIDs \ {MetaPage}
      BY <1>1, <3>1, HeldPages
    <3>3. cache'[p] = cache[p]
      BY <1>5, <3>2
    <3>4. Stable(p, cache[p])'
      BY <2>2, <3>1
    <3> QED BY <3>1, <3>3, <3>4 DEF Stable
  <2> QED BY <2>1, <2>4 DEF IntactInv
<1>21. DriveInv'
  BY <1>4, <1>16, <1>18, <1>19, <1>20 DEF DriveInv
<1>22. ASSUME caller # "create", UNCHANGED <<durable, listPage>>
       PROVE  \E E \in PageLists : Backs(durable, saved, listPage, E)' /\ Range(free) \subseteq Range(E)
  <2>1. PICK E \in PageLists : Backs(durable, saved, listPage, E) /\ Range(free) \subseteq Range(E)
    BY <1>6, <1>22
  <2>2. PICK d : d = durable
    OBVIOUS
  <2>3. Backs(d, saved, L, E)
    BY <1>8, <2>1, <2>2
  <2>4. Backs(d, saved, L, E)'
    BY <1>9, <2>3
  <2>5. durable' = d /\ listPage' = L
    BY <1>8, <1>22, <2>2
  <2>6. Backs(durable, saved, listPage, E)'
    BY <2>4, <2>5
  <2> QED BY <2>1, <2>6
<1>23. ASSUME UNCHANGED <<memVars, held, ck>>
       PROVE  Backs(NextMeta, Snapshot(durable.checkpoint + 1), ck.lists, Entries)'
  <2>1. /\ NextMeta' = m /\ Entries' = F /\ ck'.lists = N
        /\ durable' = durable /\ root' = root /\ held' = held
    BY <1>11, <1>12, <1>13, <1>23, NextKept DEF memVars
  <2>2. PICK t : t = Snapshot(durable.checkpoint + 1)'
    OBVIOUS
  <2>3. t.checkpoint = s.checkpoint /\ t.root = s.root /\ t.held = s.held
    BY <1>14, <2>1, <2>2 DEF Snapshot
  <2>4. Backs(m, t, N, F)'
    BY <1>15, <2>3 DEF Backs
  <2> QED BY <2>1, <2>2, <2>4
<1> QED BY <1>3, <1>21, <1>22, <1>23

LEMMA CkMetaStep ==
  ASSUME TypeOK, IInv, CkMeta
  PROVE  IInv'
<1>1. pc = "ckMeta" /\ pc \in CkPcs /\ pc # "ckMetaSync" /\ Live /\ poisoned = FALSE
  BY CallState DEF CkMeta, CkPcs
<1>2. doubt' = Snapshot(durable.checkpoint + 1) /\ UNCHANGED <<saved, clobbered>>
  BY DEF CkMeta
<1>3. root = NoPage \/ root \in held
  BY <1>1 DEF IInv, ListsInv
<1>4. CASE /\ DiskWrite({}, {MetaPage}, NextMeta)
           /\ pc' = "ckMetaSync"
           /\ UNCHANGED <<memVars, held, caller, ck, walk>>
  <2> DEFINE W == {MetaPage}
  <2>1. DiskWrite({}, W, NextMeta) /\ W \in SUBSET {MetaPage} /\ W \in SUBSET PageIDs
    BY <1>4
  <2>2. /\ DriveInv' /\ Writes(W)
        /\ caller # "create" /\ UNCHANGED <<durable, listPage>> =>
             \E E \in PageLists : Backs(durable, saved, listPage, E)' /\ Range(free) \subseteq Range(E)
        /\ UNCHANGED <<memVars, held, ck>> =>
             Backs(NextMeta, Snapshot(durable.checkpoint + 1), ck.lists, Entries)'
    BY <1>1, <1>2, <2>1, MetaWritten
  <2>3. /\ cache'[MetaPage] = NextMeta /\ pend'[MetaPage] # {}
        /\ \A p \in PageIDs \ {MetaPage} : UNCHANGED <<cache[p], drive[p], pend[p]>>
    BY <1>4 DEF DiskWrite
  <2> HIDE DEF W
  <2>4. \A p \in PageIDs : cache[p] # None => cache'[p] # None
    BY <2>2 DEF Writes
  <2>5. ListsInv'
    BY <1>1, <1>3, <1>4, <2>4, ListsKept DEF memVars
  <2>6. BaseInv'
    <3>1. CASE caller = "create"
      <4>1. /\ saved = Blank /\ durable = NoMeta
            /\ free = <<>> /\ pending = <<>> /\ listPage = <<>> /\ nextPage = 1
            /\ ck.lists = <<>>
        BY <1>1, <3>1, CreateState
      <4> QED BY <1>2, <1>4, <3>1, <4>1 DEF BaseInv, memVars
    <3>2. CASE caller # "create"
      <4>1. \E E \in PageLists : Backs(durable, saved, listPage, E)' /\ Range(free') \subseteq Range(E)
        BY <1>4, <2>2, <3>2 DEF memVars
      <4>2. durable'.next <= nextPage' /\ durable'.file <= filePages'
        BY <1>1, <1>4, <3>2, LastCheckpoint DEF memVars
      <4> QED BY <1>4, <3>2, <4>1, <4>2 DEF BaseInv
    <3> QED BY <3>1, <3>2
  <2>7. CleanInv'
    <3>1. held' \subseteq held \cup W /\ clobbered \subseteq clobbered' /\ filePages' = filePages
      BY <1>2, <1>4 DEF memVars
    <3> QED BY <1>1, <2>1, <2>2, <3>1, CleanKept
  <2>8. TakeInv'
    <3>1. /\ Distinct(ck.free) /\ Distinct(ck.lists)
          /\ Range(ck.free) \cap Range(ck.lists) = {}
          /\ Range(ck.free) \subseteq Range(free)
          /\ Range(ck.free) \cup Range(ck.lists) = Range(free) \cup (nextPage .. ck.next - 1)
          /\ nextPage <= ck.next /\ ck.next <= ck.file /\ filePages <= ck.file
          /\ cache[ck.file - 1] # None
          /\ \A p \in held : pend[p] = {}
          /\ pend[ck.file - 1] = {} => drive[ck.file - 1] # None
      BY <1>1 DEF IInv, TakeInv
    <3>2. ck.file - 1 \in PageIDs
      BY <1>1, TakenPages
    <3>3. cache'[ck.file - 1] # None /\ (pend'[ck.file - 1] = {} => drive'[ck.file - 1] # None)
      BY <2>2, <3>1, <3>2 DEF Writes
    <3>4. \A p \in held : pend'[p] = {}
      <4>1. \A p \in held : p \in PageIDs \ {MetaPage}
        BY <1>1, HeldPages
      <4> QED BY <2>3, <3>1, <4>1
    <3> QED BY <1>4, <3>1, <3>3, <3>4 DEF TakeInv, memVars
  <2>9. ListInv'
    BY <1>4, <2>2 DEF ListInv
  <2>10. CommitInv'
    <3>1. NextMeta' = NextMeta /\ UNCHANGED <<durable, root, held>>
      BY <1>4, NextKept DEF memVars
    <3>2. /\ doubt'.checkpoint = durable.checkpoint + 1 /\ doubt'.root = root /\ doubt'.held = held
          /\ \A p \in held : doubt'.data[p] = cache[p]
      BY <1>2 DEF Snapshot
    <3>3. ASSUME NEW p \in held PROVE doubt'.data[p] # None /\ cache'[p] = doubt'.data[p]
      <4>1. p \in PageIDs \ {MetaPage} /\ cache[p] # None
        BY <1>1, HeldPages, PagesInFile
      <4> QED BY <2>3, <3>2, <4>1
    <3> QED BY <2>3, <3>1, <3>2, <3>3 DEF CommitInv
  <2>11. pc' \in {"ckSync"} \cup CkPcs /\ poisoned' = FALSE
    BY <1>1, <1>4 DEF CkPcs, memVars
  <2> QED BY <2>2, <2>5, <2>6, <2>7, <2>8, <2>9, <2>10, <2>11, CheckpointOn
<1>5. CASE DiskWriteFails({}, MetaPage, NextMeta) /\ CheckpointFails(TRUE)
  <2>1. PICK W \in SUBSET {MetaPage} : DiskWrite({}, W, NextMeta)
    BY <1>5 DEF DiskWriteFails
  <2>2. /\ DriveInv' /\ Writes(W)
        /\ caller # "create" /\ UNCHANGED <<durable, listPage>> =>
             \E E \in PageLists : Backs(durable, saved, listPage, E)' /\ Range(free) \subseteq Range(E)
    BY <1>1, <1>2, <2>1, MetaWritten
  <2>3. CASE caller = "client"
    <3>1. /\ pc' = "idle" /\ poisoned' = TRUE
          /\ UNCHANGED <<durable, root, nextPage, filePages, free, pending, listPage,
                         status, caller, held>>
      BY <1>5, <2>3 DEF CheckpointFails
    <3>2. \A p \in PageIDs : cache[p] # None => cache'[p] # None
      BY <2>2 DEF Writes
    <3>3. ListsInv'
      BY <1>1, <1>3, <3>1, <3>2, ListsKept
    <3>4. BaseInv'
      <4>1. \E E \in PageLists : Backs(durable, saved, listPage, E)' /\ Range(free') \subseteq Range(E)
        BY <2>2, <2>3, <3>1
      <4>2. durable'.next <= nextPage' /\ durable'.file <= filePages'
        BY <1>1, <2>3, <3>1, LastCheckpoint
      <4> QED BY <2>3, <3>1, <4>1, <4>2 DEF BaseInv
    <3>5. CleanInv'
      BY <3>1 DEF CleanInv
    <3> QED BY <2>2, <3>1, <3>3, <3>4, <3>5, IdleAgain
  <2>4. CASE caller # "client"
    BY <1>5, <2>2, <2>4, DownAgain DEF CheckpointFails
  <2> QED BY <2>3, <2>4
<1> QED BY <1>4, <1>5 DEF CkMeta

\* The fsync after the meta page makes the checkpoint s, that it is the record of, the
\* one a file reopened from now on shows.
LEMMA MetaSettles ==
  ASSUME TypeOK, IInv, DiskSync, NEW m, NEW s,
         NEW L \in PageLists, NEW E \in PageLists, Backs(m, s, L, E),
         cache[MetaPage] = m, pend[MetaPage] # {},
         saved'.checkpoint = s.checkpoint, saved'.root = s.root, saved'.held = s.held,
         doubt' = NoDoubt, clobbered' \subseteq saved'.held,
         \A p \in saved'.held \ clobbered' : Stable(p, saved.data[p])'
  PROVE  DriveInv' /\ Backs(m, saved, L, E)' /\ Stable(MetaPage, m)'
<1>1. Quiet /\ FileInv'
  BY QuietSteps DEF TypeOK, IInv, DriveInv
<1>2. m \in MetaRecord /\ m # None /\ m.checkpoint # 0
  BY ListPagesInFile DEF Backs, Accounts
<1>3. cache'[MetaPage] = m /\ drive'[MetaPage] = m /\ pend'[MetaPage] = {}
  BY <1>2, SyncedPages
<1>4. Stable(MetaPage, m)'
  BY <1>2, <1>3 DEF Stable
<1>5. Backs(m, s, L, E)'
  BY <1>1, QuietKeepsBacks
<1>6. Backs(m, saved, L, E)'
  BY <1>5 DEF Backs
<1>7. BlankInv' /\ SnapshotInv'
  <2>1. saved'.checkpoint = m.checkpoint
    BY DEF Backs
  <2>2. saved'.checkpoint \in Nat \ {0}
    BY <1>2, <2>1 DEF MetaRecord
  <2>3. saved' # Blank
    BY <2>2 DEF Blank
  <2>4. MetaPage \notin saved'.held \cup doubt'.held
    BY DEF Backs, Leftover, NoDoubt, Blank
  <2> QED BY <2>2, <2>3, <2>4 DEF BlankInv, SnapshotInv
<1>8. MetaInv'
  <2>1. Metas' = {m}
    BY <1>3 DEF Metas
  <2> QED BY <1>6, <2>1 DEF MetaInv, Backed
<1>9. IntactInv'
  <2>1. doubt'.held = {}
    BY DEF NoDoubt, Blank
  <2> QED BY <2>1 DEF IntactInv
<1> QED BY <1>1, <1>4, <1>6, <1>7, <1>8, <1>9 DEF DriveInv

\* A store whose lists are those of the last checkpoint is one that a client may have.
LEMMA StoreOpens ==
  ASSUME TypeOK', DriveInv', Backs(durable, saved, listPage, free)', Stable(MetaPage, durable)',
         doubt' = NoDoubt, pending' = <<>>, status' = StatusOf(free', <<>>, listPage'),
         root' = durable'.root, nextPage' = durable'.next, filePages' = durable'.file,
         held' = saved'.held, caller' = "client", poisoned' = FALSE, pc' \in {"parent", "idle"}
  PROVE  IInv'
<1>1. /\ listPage' \in PageLists /\ free' \in PageLists
      /\ nextPage' \in 0 .. MaxPages /\ filePages' \in 0 .. MaxPages /\ root' \in PageIDs
  BY DEF TypeOK, MemType, PageLists
<1>2. /\ durable'.next # 0 /\ durable'.next <= durable'.file /\ durable'.root < durable'.next
      /\ Distinct(listPage') /\ Distinct(free')
      /\ Range(listPage') \cap Range(free') = {}
      /\ \A p \in Range(listPage') \cup Range(free') :
           p # MetaPage /\ p < durable'.next /\ p # durable'.root
  BY DEF Backs, Accounts
<1>3. /\ drive'[filePages' - 1] # None
      /\ saved'.root = root'
      /\ held' = {p \in PageIDs : /\ p # MetaPage /\ p < nextPage'
                                  /\ p \notin Range(listPage') \cup Range(free')}
  BY DEF Backs, Leftover
<1>4. Range(pending') = {} /\ Distinct(pending') /\ status' = StatusOf(free', pending', listPage')
  BY EmptyList
<1>5. held' = OwnedPages'
  <2>1. OwnedPages' = {p \in PageIDs : /\ p # MetaPage /\ p < nextPage'
                                       /\ p \notin Range(free') \cup Range(pending') \cup Range(listPage')}
    BY <1>4, OwnedAfter
  <2> QED BY <1>3, <1>4, <2>1
<1>6. root' = NoPage \/ root' \in held'
  BY <1>1, <1>2, <1>3
<1>7. filePages' - 1 \in PageIDs
  BY <1>1, <1>2
<1>8. cache'[filePages' - 1] # None
  BY <1>3, <1>7 DEF DriveInv, FileInv
<1>9. ListsInv'
  BY <1>2, <1>4, <1>5, <1>6, <1>8 DEF ListsInv
<1>10. BaseInv'
  <2>1. \E E \in PageLists : Backs(durable, saved, listPage, E)' /\ Range(free') \subseteq Range(E)
    BY <1>1
  <2>2. durable'.next <= nextPage' /\ durable'.file <= filePages'
    BY <1>1
  <2> QED BY <2>1, <2>2 DEF BaseInv
<1>11. CleanInv'
  <2>1. \A p \in held' \ clobbered' : drive'[p] = cache'[p]
    BY DEF DriveInv, IntactInv, Stable
  <2> QED BY <1>3, <2>1 DEF CleanInv
<1>12. ParentInv' /\ TakeInv' /\ ListInv' /\ CommitInv'
  BY <1>3 DEF ParentInv, TakeInv, CkPcs, ListInv, CommitInv
<1>13. DownInv' /\ WalkInv' /\ LoadInv' /\ NeverPoisonedInCall' /\ NotRefused'
  BY DEF DownInv, WalkInv, LoadInv, NeverPoisonedInCall, NotRefused
<1> QED BY <1>9, <1>10, <1>11, <1>12, <1>13 DEF IInv

\* The pages of the checkpoint whose meta page is on its way are on the drive, but
\* for those the client has written over and the drive does not yet have.
LEMMA CommittedPages ==
  ASSUME TypeOK, IInv, pc = "ckMetaSync", DiskSync, NEW p \in held,
         ~ (p \in clobbered /\ drive'[p] # doubt.data[p])
  PROVE  /\ doubt.data[p] # None
         /\ cache'[p] = doubt.data[p] /\ drive'[p] = doubt.data[p] /\ pend'[p] = {}
<1>1. pc \in CkPcs /\ Live /\ p \in PageIDs
  BY CallState, HeldPages DEF CkPcs
<1>2. /\ doubt.held = held /\ doubt.data[p] # None
      /\ drive[p] = doubt.data[p] => cache[p] = doubt.data[p]
  BY DEF IInv, CommitInv
<1>3. pend[p] = {} /\ pend'[p] = {} /\ cache' = cache
  BY <1>1, SyncedPages DEF IInv, TakeInv
<1>4. cache'[p] = doubt.data[p] /\ drive'[p] = doubt.data[p]
  <2>1. CASE p \notin clobbered
    <3>1. Stable(p, doubt.data[p])
      BY <1>2, <2>1 DEF IInv, DriveInv, IntactInv
    <3> QED BY <1>1, <1>2, <1>3, <3>1, SyncedPages DEF Stable
  <2>2. CASE p \in clobbered
    <3>1. drive'[p] = doubt.data[p]
      BY <2>2
    <3>2. drive[p] # None
      <4>1. caller # "create"
        BY <1>1, <2>2, CreateState
      <4>2. PICK E \in PageLists :
                 /\ Backs(durable, saved, listPage, E)
                 /\ \A q \in saved.held : q # MetaPage /\ q < durable.next
        BY <1>1, <4>1, LastCheckpoint
      <4>3. p < durable.next
        BY <2>2, <4>2 DEF IInv, DriveInv, SnapshotInv
      <4>4. durable.next \in 1 .. MaxPages /\ durable.file \in 1 .. MaxPages
            /\ durable.next <= durable.file /\ drive[durable.file - 1] # None
            /\ durable.file - 1 \in PageIDs
        <5>1. listPage \in PageLists
          BY DEF TypeOK, MemType, PageLists
        <5> QED BY <4>2, <5>1, ListPagesInFile DEF Backs
      <4>5. p <= durable.file - 1
        BY <1>1, <4>3, <4>4
      <4>6. p = durable.file - 1 \/ p < durable.file - 1
        BY <1>1, <4>4, <4>5
      <4> QED BY <1>1, <4>4, <4>6 DEF IInv, DriveInv, FileInv
    <3>3. drive'[p] = drive[p]
      BY <1>1, <1>3, <3>2, SyncedPages
    <3> QED BY <1>2, <1>3, <3>1, <3>3
  <2> QED BY <2>1, <2>2
<1> QED BY <1>2, <1>3, <1>4

LEMMA CkMetaSyncStep ==
  ASSUME TypeOK, TypeOK', IInv, CkMetaSync
  PROVE  IInv'
<1>1. pc = "ckMetaSync" /\ pc \in CkPcs /\ Live /\ poisoned = FALSE
  BY CallState DEF CkMetaSync, CkPcs
<1>2. CASE /\ DiskSync
           /\ IF caller = "close" THEN NoStore("down") ELSE Adopt
           /\ saved' = doubt
           /\ doubt' = NoDoubt
           /\ StillClobbered
  <2>1. /\ cache[MetaPage] = NextMeta /\ pend[MetaPage] # {}
        /\ doubt.checkpoint = durable.checkpoint + 1 /\ doubt.root = root /\ doubt.held = held
    BY <1>1 DEF IInv, CommitInv
  <2>2. PICK m : m = NextMeta
    OBVIOUS
  <2>3. PICK L \in PageLists : L = ck.lists
    BY DEF TypeOK, CallType, PageLists
  <2>4. PICK E \in PageLists : E = Entries
    BY EntriesType DEF TypeOK, PageLists
  <2>5. Backs(m, doubt, L, E)
    <3>1. Backs(m, Snapshot(durable.checkpoint + 1), L, E)
      BY <1>1, <2>2, <2>3, <2>4 DEF IInv, ListInv
    <3>2. /\ Snapshot(durable.checkpoint + 1).checkpoint = durable.checkpoint + 1
          /\ Snapshot(durable.checkpoint + 1).root = root
          /\ Snapshot(durable.checkpoint + 1).held = held
      BY DEF Snapshot
    <3> QED BY <2>1, <3>1, <3>2 DEF Backs
  <2>6. clobbered' = {p \in clobbered \cap held : drive'[p] # doubt.data[p]}
    BY <1>2, <2>1 DEF StillClobbered
  <2>7. ASSUME NEW p \in saved'.held \ clobbered' PROVE Stable(p, saved.data[p])'
    <3>1. p \in held /\ ~ (p \in clobbered /\ drive'[p] # doubt.data[p])
      BY <1>2, <2>1, <2>6, <2>7
    <3>2. /\ doubt.data[p] # None
          /\ cache'[p] = doubt.data[p] /\ drive'[p] = doubt.data[p] /\ pend'[p] = {}
      BY <1>1, <1>2, <3>1, CommittedPages
    <3> QED BY <1>2, <3>2 DEF Stable
  <2>8. clobbered' \subseteq saved'.held
    BY <1>2, <2>1, <2>6
  <2>9. DriveInv' /\ Backs(m, saved, L, E)' /\ Stable(MetaPage, m)'
    BY <1>2, <2>1, <2>2, <2>5, <2>7, <2>8, MetaSettles
  <2>10. CASE caller = "close"
    BY <1>2, <2>9, <2>10, DownAgain
  <2>11. CASE caller # "close"
    <3>1. Adopt
      BY <1>2, <2>11
    <3>2. /\ durable' = m /\ free' = E /\ listPage' = L /\ pending' = <<>>
          /\ status' = StatusOf(free', <<>>, listPage')
          /\ caller' = "client" /\ poisoned' = FALSE /\ pc' \in {"parent", "idle"}
          /\ root' = root /\ nextPage' = ck.next /\ filePages' = ck.file /\ held' = held
      BY <1>1, <2>2, <2>3, <2>4, <3>1 DEF Adopt
    <3>3. m.root = root /\ m.next = ck.next /\ m.file = ck.file
      BY <2>2 DEF NextMeta, Meta
    <3>4. Backs(durable, saved, listPage, free)' /\ Stable(MetaPage, durable)'
      BY <2>9, <3>2
    <3>5. held' = saved'.held
      BY <1>2, <2>1, <3>2
    <3>6. root' = durable'.root /\ nextPage' = durable'.next /\ filePages' = durable'.file
      BY <3>2, <3>3
    <3> QED BY <1>2, <2>9, <3>2, <3>4, <3>5, <3>6, StoreOpens
  <2> QED BY <2>10, <2>11
<1>3. CASE DiskSyncFails /\ CheckpointFails(TRUE) /\ UNCHANGED <<saved, doubt, clobbered>>
  BY <1>1, <1>3, FsyncEnds
<1> QED BY <1>2, <1>3 DEF CkMetaSync

-----------------------------------------------------------------------------
(***************************************************************************)
(* Third part.  Opening keeps the invariant, and so do evictions; it holds *)
(* of the page store; what follows from it; and that the page store        *)
(* implements the abstract store of DurableStore: its first state is one of*)
(* the abstract store's, and every step is a step of the abstract store or *)
(* one that it does not see.                                               *)
(***************************************************************************)

-----------------------------------------------------------------------------
(* Open, on a blank file. *)

\* A file of zeros in which a new one is begun, as far as the writes came.
LEMMA BlankWritten ==
  ASSUME TypeOK, IInv, isBlank, NEW some \in 0 .. ChunkPages,
         DiskWrite(NewPages(0, some), {}, Zero), UNCHANGED <<saved, doubt, clobbered>>
  PROVE  /\ DriveInv' /\ saved = Blank
         /\ \A p \in NewPages(0, some) : cache'[p] # None /\ pend'[p] # {}
<1> DEFINE W == NewPages(0, some)
<1>1. ChunkPages \in 1 .. MaxPages
  BY ChunkAssumption
<1>2. W \in SUBSET PageIDs /\ some \in 0 .. MaxPages /\ \A p \in W : p < ChunkPages
  BY <1>1 DEF NewPages
<1>3. \A p \in PageIDs : cache[p] \in {None, Zero}
  BY DEF isBlank
<1>4. saved = Blank
  <2>1. cache[MetaPage] \in Metas /\ cache[MetaPage] \in {None, Zero}
    BY <1>3 DEF Metas
  <2> QED BY <2>1, MetasKnown DEF IInv
<1>5. Writes(W)
  <2>1. W \cup {} = W /\ {} \in SUBSET PageIDs /\ W \in SUBSET PageIDs
    BY <1>2
  <2>2. Writes(W \cup {})
    BY <2>1, DiskWriteWrites, WrittenKinds
  <2> QED BY <2>1, <2>2
<1>6. FileInv'
  <2>1. Gapless(W)
    <3>1. 0 \in 0 .. MaxPages /\ FileInv
      BY DEF IInv, DriveInv
    <3> QED BY <1>2, <3>1, GrowthIsGapless
  <2> QED BY <1>2, <1>5, <2>1, WritesKeepFile DEF IInv, DriveInv
<1>7. /\ clobbered = {} /\ doubt \in {NoDoubt, FirstSnapshot}
      /\ \A p \in PageIDs \ {MetaPage} :
           /\ {cache[p], drive[p]} \cup pend[p] \subseteq {None, Zero}
           /\ p >= ChunkPages => cache[p] = None
  BY <1>4 DEF IInv, DriveInv, BlankInv
<1>8. \A p \in PageIDs : /\ p \in W => cache'[p] = Zero
                         /\ p \notin W => cache'[p] = cache[p]
                         /\ drive'[p] = drive[p] /\ pend'[p] \subseteq pend[p] \cup {Zero}
  BY DEF DiskWrite
<1>9. BlankInv'
  <2>1. ASSUME NEW p \in PageIDs \ {MetaPage}
        PROVE  /\ {cache'[p], drive'[p]} \cup pend'[p] \subseteq {None, Zero}
               /\ p >= ChunkPages => cache'[p] = None
    <3>1. p >= ChunkPages => p \notin W
      BY <1>1, <1>2
    <3> HIDE DEF W
    <3> QED BY <1>7, <1>8, <3>1
  <2> QED BY <1>7, <2>1 DEF BlankInv
<1>10. SnapshotInv'
  BY DEF IInv, DriveInv, SnapshotInv
<1>11. MetaInv'
  <2>1. SUFFICES ASSUME NEW m \in Metas'
        PROVE  \/ m \in {None, Zero} /\ saved' = Blank
               \/ Backed(m, saved)' \/ Backed(m, doubt)'
    BY DEF MetaInv
  <2>2. m \in Metas \/ m = Zero
    <3>1. /\ cache'[MetaPage] \in {cache[MetaPage], Zero} /\ drive'[MetaPage] = drive[MetaPage]
          /\ pend'[MetaPage] \subseteq pend[MetaPage] \cup {Zero}
      BY <1>8
    <3> QED BY <3>1 DEF Metas
  <2>3. CASE m \in {None, Zero}
    BY <1>4, <2>3
  <2>4. CASE m \in Metas /\ m \notin {None, Zero}
    <3>1. PICK s \in {saved, doubt} : Backed(m, s)
      BY <2>4, MetasKnown DEF IInv
    <3>2. PICK L, E \in PageLists : Backs(m, s, L, E)
      BY <3>1 DEF Backed
    <3>3. DOMAIN L = {}
      <4>1. ASSUME NEW i \in DOMAIN L PROVE FALSE
        <5>1. cache[L[i]] = ListPageOf(L, E, i)
          BY <3>2 DEF Backs, Chained, Stable
        <5>2. L[i] \in PageIDs
          BY <3>2, ListPagesInFile DEF Backs
        <5>3. ListPageOf(L, E, i) \notin {None, Zero}
          BY DEF ListPageOf, FreeListPage, None, Zero
        <5> QED BY <1>3, <5>1, <5>2, <5>3
      <4> QED BY <4>1
    <3>4. W \cap Range(L) = {}
      BY <3>3 DEF Range
    <3>5. Backs(m, s, L, E)'
      BY <1>5, <3>2, <3>4, WritesKeepBacks
    <3>6. saved' = s \/ doubt' = s
      BY <3>1
    <3>7. Backs(m, saved, L, E)' \/ Backs(m, doubt, L, E)'
      BY <3>5, <3>6
    <3> QED BY <3>7 DEF Backed
  <2> QED BY <2>2, <2>3, <2>4
<1>12. IntactInv'
  <2>1. saved'.held = {} /\ doubt'.held = {}
    BY <1>4, <1>7 DEF NoDoubt, FirstSnapshot, Blank
  <2> QED BY <2>1 DEF IntactInv
<1>13. \A p \in W : cache'[p] # None /\ pend'[p] # {}
  BY <1>2, <1>5 DEF Writes
<1> QED BY <1>4, <1>6, <1>9, <1>10, <1>11, <1>12, <1>13 DEF DriveInv

LEMMA OpenBlankStep ==
  ASSUME TypeOK, IInv, OpenBlank
  PROVE  IInv'
<1>1. /\ pc = "down" /\ isBlank /\ UNCHANGED <<saved, doubt, clobbered>>
      /\ ChunkPages \in 1 .. MaxPages
  BY ChunkAssumption DEF OpenBlank, IInv, NotRefused
<1>2. CASE /\ DiskWrite(NewPages(0, ChunkPages), {}, Zero)
           /\ root' = NoPage /\ nextPage' = 1 /\ filePages' = ChunkPages
           /\ StartCheckpoint("create")
           /\ UNCHANGED <<durable, free, pending, listPage, status, dirty, poisoned,
                          ck, walk, held>>
  <2>1. ChunkPages \in 0 .. ChunkPages
    BY <1>1
  <2>2. /\ DriveInv' /\ saved = Blank
        /\ \A p \in NewPages(0, ChunkPages) : cache'[p] # None /\ pend'[p] # {}
    BY <1>1, <1>2, <2>1, BlankWritten
  <2>3. /\ free = <<>> /\ pending = <<>> /\ listPage = <<>>
        /\ status = StatusOf(<<>>, <<>>, <<>>)
        /\ poisoned = FALSE /\ held = {} /\ durable = NoMeta
    BY <1>1 DEF IInv, DownInv
  <2>4. pc' = "ckSync" /\ caller' = "create"
    BY <1>2 DEF StartCheckpoint
  <2>5. cache'[filePages' - 1] # None /\ pend'[filePages' - 1] # {}
    <3>1. ChunkPages - 1 \in NewPages(0, ChunkPages)
      BY <1>1 DEF NewPages
    <3> QED BY <1>2, <2>2, <3>1
  <2>6. ListsInv'
    <3>1. OwnedPages' = {p \in PageIDs : /\ p # MetaPage /\ p < 1
                                         /\ p \notin Range(<<>>) \cup Range(<<>>) \cup Range(<<>>)}
      BY <1>2, <2>3, OwnedAfter
    <3>2. held' = OwnedPages'
      BY <1>2, <2>3, <3>1
    <3>3. 1 <= ChunkPages
      BY <1>1
    <3> QED BY <1>2, <2>3, <2>5, <3>2, <3>3, EmptyList DEF ListsInv
  <2>7. BaseInv'
    BY <1>1, <1>2, <2>2, <2>3, <2>4 DEF BaseInv, CkPcs
  <2>8. CleanInv'
    BY <1>2, <2>3, <2>5 DEF CleanInv
  <2>9. TakeInv' /\ ListInv' /\ CommitInv'
    BY <2>4 DEF TakeInv, CkPcs, ListInv, CommitInv
  <2> QED BY <1>2, <2>2, <2>3, <2>4, <2>6, <2>7, <2>8, <2>9, CheckpointOn
<1>3. CASE /\ \E some \in 0 .. ChunkPages - 1 : DiskWrite(NewPages(0, some), {}, Zero)
           /\ NoStore("down")
  <2>1. PICK some \in 0 .. ChunkPages - 1 : DiskWrite(NewPages(0, some), {}, Zero)
    BY <1>3
  <2>2. some \in 0 .. ChunkPages
    BY <1>1
  <2>3. DriveInv'
    BY <1>1, <2>1, <2>2, BlankWritten
  <2> QED BY <1>3, <2>3, DownAgain
<1> QED BY <1>2, <1>3 DEF OpenBlank

-----------------------------------------------------------------------------
(* Open, on a file that a store has written. *)

\* A step of Open's reading: nothing of the store is in memory yet.
LEMMA ReadsOn ==
  ASSUME pc' = "walk", DriveInv', WalkInv',
         free' = <<>>, pending' = <<>>, listPage' = <<>>,
         status' = StatusOf(<<>>, <<>>, <<>>),
         dirty' = FALSE, poisoned' = FALSE, caller' = "client", held' = {}, root' = NoPage
  PROVE  IInv'
<1>1. DownInv' /\ LoadInv' /\ ParentInv' /\ NeverPoisonedInCall' /\ NotRefused'
  BY DEF DownInv, LoadInv, ParentInv, NeverPoisonedInCall, NotRefused
<1>2. ~ Live' /\ pc' \notin CkPcs
  BY DEF Live, CkPcs
<1>3. ListsInv' /\ BaseInv' /\ CleanInv' /\ TakeInv'
  BY <1>2 DEF ListsInv, BaseInv, CleanInv, TakeInv
<1>4. ListInv' /\ CommitInv'
  BY DEF ListInv, CommitInv
<1> QED BY <1>1, <1>3, <1>4 DEF IInv

\* A file that is not blank has the meta page of a checkpoint.
LEMMA MetaFound ==
  ASSUME TypeOK, IInv, ~ isBlank
  PROVE  \E s \in {saved, doubt} : \E L, E \in PageLists : Backs(cache[MetaPage], s, L, E)
<1>1. cache[MetaPage] \in Metas
  BY DEF Metas
<1>2. cache[MetaPage] \notin {None, Zero}
  <2>1. SUFFICES ASSUME cache[MetaPage] \in {None, Zero} PROVE isBlank
    OBVIOUS
  <2>2. saved = Blank
    BY <1>1, <2>1, MetasKnown DEF IInv
  <2>3. \A p \in PageIDs \ {MetaPage} :
          /\ cache[p] \in {None, Zero}
          /\ p >= ChunkPages => cache[p] = None
    BY <2>2 DEF IInv, DriveInv, BlankInv
  <2>4. ChunkPages \in 1 .. MaxPages
    BY ChunkAssumption
  <2>5. \A p \in PageIDs : p >= ChunkPages => cache[p] = None
    BY <2>3, <2>4
  <2>6. PageCount <= ChunkPages
    BY <2>4, <2>5, PageCountBounds
  <2> QED BY <2>1, <2>3, <2>6 DEF isBlank
<1>3. Backed(cache[MetaPage], saved) \/ Backed(cache[MetaPage], doubt)
  BY <1>1, <1>2, MetasKnown DEF IInv
<1> QED BY <1>3 DEF Backed

\* Such a meta page passes the checks of Open.
LEMMA MetaPasses ==
  ASSUME FileInv, NEW m, NEW s, NEW L \in PageLists, NEW E \in PageLists, Backs(m, s, L, E)
  PROVE  checkMeta(m)
<1>1. /\ m \in MetaRecord /\ m.next # 0 /\ m.next <= m.file /\ m.root < m.next
      /\ drive[m.file - 1] # None
  BY DEF Backs, Accounts
<1>2. m.file \in 1 .. MaxPages /\ m.file - 1 \in PageIDs
  BY ListPagesInFile DEF Backs
<1>3. cache[m.file - 1] # None
  BY <1>1, <1>2 DEF FileInv
<1>4. PageCount \in Nat /\ PageCount > m.file - 1
  <2>1. 0 \in 0 .. MaxPages
    OBVIOUS
  <2> QED BY <1>2, <1>3, <2>1, PageCountBounds
<1>5. PageCount >= m.file
  BY <1>2, <1>4
<1> QED BY <1>1, <1>5 DEF checkMeta, MetaRecord

LEMMA OpenLoadStep ==
  ASSUME TypeOK, IInv, OpenLoad
  PROVE  IInv'
<1>1. /\ pc = "down" /\ ~ isBlank
      /\ UNCHANGED <<diskVars, root, free, pending, listPage, status, dirty, poisoned,
                     caller, histVars>>
  BY DEF OpenLoad, IInv, NotRefused
<1>2. PICK s \in {saved, doubt} : \E L, E \in PageLists : Backs(cache[MetaPage], s, L, E)
  BY <1>1, MetaFound
<1>3. PICK L, E \in PageLists : Backs(cache[MetaPage], s, L, E)
  BY <1>2
<1>4. checkMeta(cache[MetaPage])
  BY <1>3, MetaPasses DEF IInv, DriveInv
<1>5. /\ pc' = "walk" /\ durable' = cache[MetaPage]
      /\ walk'.at = cache[MetaPage].head /\ walk'.lists = <<>> /\ walk'.entries = <<>>
  BY <1>1, <1>4 DEF OpenLoad, NoWalk
<1>6. Quiet /\ DriveInv'
  BY <1>1, NoDiskStep DEF histVars
<1>7. WalkInv'
  <2>1. PICK m : m = cache[MetaPage]
    OBVIOUS
  <2>2. Backs(m, s, L, E)'
    BY <1>3, <1>6, <2>1, QuietKeepsBacks
  <2>3. durable' = m /\ (s = saved' \/ s = doubt')
    BY <1>1, <1>5, <2>1 DEF histVars
  <2>4. Backs(durable, s, L, E)'
    BY <2>2, <2>3
  <2>5. Len(walk'.lists) = 0 /\ 0 <= Len(L)
    BY <1>5, EmptyList, LenProperties DEF PageLists
  <2>6. walk'.lists = SubSeq(L, 1, 0) /\ walk'.entries = SubSeq(E, 1, Upto(E, 0))
    <3>1. /\ Upto(L, 0) = 0 /\ SubSeq(L, 1, 0) = <<>>
          /\ Upto(E, 0) = 0 /\ SubSeq(E, 1, 0) = <<>>
      BY SlicesAll
    <3> QED BY <1>5, <3>1
  <2>7. walk'.at = NextInList(L, 0)
    BY <1>3, <1>5 DEF Backs, Accounts
  <2>8. Upto(E, Len(walk'.lists)) = Upto(E, 0) /\ NextInList(L, Len(walk'.lists)) = NextInList(L, 0)
    BY <2>5
  <2>9. \E t \in {saved', doubt'} : \E K, F \in PageLists :
          /\ Backs(durable, t, K, F)'
          /\ Len(walk'.lists) <= Len(K)
          /\ walk'.lists = SubSeq(K, 1, Len(walk'.lists))
          /\ walk'.entries = SubSeq(F, 1, Upto(F, Len(walk'.lists)))
          /\ walk'.at = NextInList(K, Len(walk'.lists))
    BY <2>3, <2>4, <2>5, <2>6, <2>7, <2>8
  <2> QED BY <1>5, <2>9 DEF WalkInv, Upto, NextInList
<1>8. /\ free = <<>> /\ pending = <<>> /\ listPage = <<>>
      /\ status = StatusOf(<<>>, <<>>, <<>>)
      /\ dirty = FALSE /\ poisoned = FALSE /\ caller = "client" /\ held = {} /\ root = NoPage
  BY <1>1 DEF IInv, DownInv
<1> QED BY <1>1, <1>5, <1>6, <1>7, <1>8, ReadsOn DEF histVars

\* Where the walk stands, and the free list it is following.
LEMMA WalkState ==
  ASSUME TypeOK, IInv, pc = "walk"
  PROVE  \E s \in {saved, doubt} : \E L, E \in PageLists :
           /\ Backs(durable, s, L, E)
           /\ Len(walk.lists) \in 0 .. Len(L)
           /\ walk.lists = SubSeq(L, 1, Len(walk.lists))
           /\ walk.entries = SubSeq(E, 1, Upto(E, Len(walk.lists)))
           /\ walk.at = NextInList(L, Len(walk.lists))
           /\ walk.at # NoPage <=> Len(walk.lists) < Len(L)
<1>1. PICK s \in {saved, doubt} : \E L, E \in PageLists :
        /\ Backs(durable, s, L, E)
        /\ Len(walk.lists) <= Len(L)
        /\ walk.lists = SubSeq(L, 1, Len(walk.lists))
        /\ walk.entries = SubSeq(E, 1, Upto(E, Len(walk.lists)))
        /\ walk.at = NextInList(L, Len(walk.lists))
  BY DEF IInv, WalkInv
<1>2. PICK L, E \in PageLists :
        /\ Backs(durable, s, L, E)
        /\ Len(walk.lists) <= Len(L)
        /\ walk.lists = SubSeq(L, 1, Len(walk.lists))
        /\ walk.entries = SubSeq(E, 1, Upto(E, Len(walk.lists)))
        /\ walk.at = NextInList(L, Len(walk.lists))
  BY <1>1
<1>3. Len(walk.lists) \in Nat /\ Len(L) \in Nat /\ DOMAIN L = 1 .. Len(L)
  BY LenProperties DEF TypeOK, CallType, PageLists
<1>4. \A i \in DOMAIN L : L[i] # MetaPage
  BY <1>2, ListPagesInFile DEF Backs
<1>5. walk.at # NoPage <=> Len(walk.lists) < Len(L)
  BY <1>2, <1>3, <1>4 DEF NextInList
<1>6. Len(walk.lists) \in 0 .. Len(L)
  BY <1>2, <1>3
<1> QED BY <1>1, <1>2, <1>5, <1>6

\* After k pages of the list L the next is in the file, has not been read, and holds
\* the next of the entries E.
NextToRead(m, L, E, k) ==
  /\ NextInList(L, k) = L[k + 1] /\ L[k + 1] \in PageIDs
  /\ L[k + 1] < m.next
  /\ L[k + 1] \notin Range(SubSeq(L, 1, k))
  /\ cache[L[k + 1]] = ListPageOf(L, E, k + 1)
  /\ SubSeq(L, 1, k + 1) = Append(SubSeq(L, 1, k), L[k + 1])
  /\ Len(SubSeq(L, 1, k + 1)) = k + 1
  /\ Len(Slice(E, k + 1)) <= FreeListCapacity
  /\ SubSeq(E, 1, Upto(E, k)) \o Slice(E, k + 1) = SubSeq(E, 1, Upto(E, k + 1))

\* The page the walk is at is the next of the list.
LEMMA WalkReads ==
  ASSUME NEW m, NEW s, NEW L \in PageLists, NEW E \in PageLists, Backs(m, s, L, E),
         NEW k \in Nat, k < Len(L)
  PROVE  NextToRead(m, L, E, k)
<1>1. Len(L) \in Nat /\ DOMAIN L = 1 .. Len(L) /\ k + 1 \in DOMAIN L
  BY LenProperties DEF PageLists
<1>2. /\ \A i \in DOMAIN L : L[i] \in Range(L) /\ L[i] \in PageIDs
      /\ m.next \in 1 .. MaxPages
  BY ListPagesInFile DEF Backs
<1>3. L[k + 1] < m.next /\ Distinct(L) /\ k * FreeListCapacity <= Len(E)
  <2>1. (k + 1) - 1 = k
    OBVIOUS
  <2> QED BY <1>1, <1>2, <2>1 DEF Backs, Accounts
<1>4. cache[L[k + 1]] = ListPageOf(L, E, k + 1)
  BY <1>1 DEF Backs, Chained, Stable
<1>5. /\ SubSeq(L, 1, k) \in Seq(PageIDs) /\ Len(SubSeq(L, 1, k)) = k
      /\ \A i \in 1 .. k : SubSeq(L, 1, k)[i] = L[i]
  <2>1. \A i \in 1 .. k : L[i] \in PageIDs
    BY <1>1, <1>2
  <2>2. /\ Len(SubSeq(L, 1, k)) = (IF 1 <= k THEN k - 1 + 1 ELSE 0)
        /\ SubSeq(L, 1, k) \in Seq(PageIDs)
        /\ \A i \in 1 .. k - 1 + 1 : SubSeq(L, 1, k)[i] = L[1 + i - 1]
    BY <2>1, SubSeqProperties
  <2> QED BY <2>2
<1>6. L[k + 1] \notin Range(SubSeq(L, 1, k))
  <2>1. DOMAIN SubSeq(L, 1, k) = 1 .. k
    BY <1>5, LenProperties
  <2>2. \A i \in 1 .. k : i \in DOMAIN L /\ i # k + 1
    BY <1>1
  <2> QED BY <1>1, <1>3, <1>5, <2>1, <2>2 DEF Range, Distinct
<1>7. /\ SubSeq(L, 1, k + 1) = Append(SubSeq(L, 1, k), L[k + 1])
      /\ Len(SubSeq(L, 1, k + 1)) = k + 1
  <2>1. \A i \in 1 .. k + 1 : L[i] \in PageIDs
    BY <1>1, <1>2
  <2>2. /\ SubSeq(L, 1, k + 1) \in Seq(PageIDs) /\ Len(SubSeq(L, 1, k + 1)) = k + 1
        /\ \A i \in 1 .. k + 1 : SubSeq(L, 1, k + 1)[i] = L[i]
    <3>1. /\ Len(SubSeq(L, 1, k + 1)) = IF 1 <= k + 1 THEN (k + 1) - 1 + 1 ELSE 0
          /\ SubSeq(L, 1, k + 1) \in Seq(PageIDs)
          /\ \A i \in 1 .. (k + 1) - 1 + 1 : SubSeq(L, 1, k + 1)[i] = L[1 + i - 1]
      BY <2>1, SubSeqProperties
    <3> QED BY <3>1
  <2> DEFINE t == Append(SubSeq(L, 1, k), L[k + 1])
  <2>3. /\ t \in Seq(PageIDs) /\ Len(t) = k + 1
        /\ \A i \in 1 .. k : t[i] = SubSeq(L, 1, k)[i]
        /\ t[k + 1] = L[k + 1]
    <3>1. L[k + 1] \in PageIDs
      BY <1>1, <1>2
    <3> QED BY <1>5, <3>1, AppendProperties
  <2> HIDE DEF t
  <2>4. \A i \in 1 .. k + 1 : t[i] = SubSeq(L, 1, k + 1)[i]
    BY <1>5, <2>2, <2>3
  <2>5. t = SubSeq(L, 1, k + 1)
    BY <2>2, <2>3, <2>4, SeqEqual
  <2> QED BY <2>2, <2>5 DEF t
<1>8. /\ Len(Slice(E, k + 1)) <= FreeListCapacity
      /\ SubSeq(E, 1, Upto(E, k)) \o Slice(E, k + 1) = SubSeq(E, 1, Upto(E, k + 1))
  <2>1. k + 1 \in Nat \ {0} /\ (k + 1) - 1 = k
    OBVIOUS
  <2> QED BY <1>3, <2>1, SlicesJoin
<1>9. NextInList(L, k) = L[k + 1]
  BY DEF NextInList
<1> QED BY <1>1, <1>2, <1>3, <1>4, <1>6, <1>7, <1>8, <1>9 DEF NextToRead

LEMMA WalkPageStep ==
  ASSUME TypeOK, IInv, WalkPage
  PROVE  IInv'
<1>1. pc = "walk" /\ walk.at # NoPage /\ UNCHANGED <<diskVars, saved, doubt, clobbered>>
  BY DEF WalkPage
<1> DEFINE k == Len(walk.lists)
<1>2. PICK s \in {saved, doubt} : \E L, E \in PageLists :
        /\ Backs(durable, s, L, E)
        /\ k \in 0 .. Len(L)
        /\ walk.lists = SubSeq(L, 1, k)
        /\ walk.entries = SubSeq(E, 1, Upto(E, k))
        /\ walk.at = NextInList(L, k)
        /\ walk.at # NoPage <=> k < Len(L)
  BY <1>1, WalkState
<1>3. PICK L, E \in PageLists :
        /\ Backs(durable, s, L, E)
        /\ k \in 0 .. Len(L)
        /\ walk.lists = SubSeq(L, 1, k)
        /\ walk.entries = SubSeq(E, 1, Upto(E, k))
        /\ walk.at = NextInList(L, k)
        /\ walk.at # NoPage <=> k < Len(L)
  BY <1>2
<1> HIDE DEF k
<1>4. k \in Nat /\ k < Len(L) /\ Len(L) \in Nat
  BY <1>1, <1>3, LenProperties DEF PageLists
<1>5. /\ NextInList(L, k) = L[k + 1] /\ L[k + 1] \in PageIDs
      /\ L[k + 1] < durable.next
      /\ L[k + 1] \notin Range(SubSeq(L, 1, k))
      /\ cache[L[k + 1]] = ListPageOf(L, E, k + 1)
      /\ SubSeq(L, 1, k + 1) = Append(SubSeq(L, 1, k), L[k + 1])
      /\ Len(SubSeq(L, 1, k + 1)) = k + 1
      /\ Len(Slice(E, k + 1)) <= FreeListCapacity
      /\ SubSeq(E, 1, Upto(E, k)) \o Slice(E, k + 1) = SubSeq(E, 1, Upto(E, k + 1))
  <2>1. PICK m : m = durable
    OBVIOUS
  <2>2. Backs(m, s, L, E)
    BY <1>3, <2>1
  <2>3. NextToRead(m, L, E, k)
    BY <1>4, <2>2, WalkReads
  <2> QED BY <2>1, <2>3 DEF NextToRead
<1>6. /\ cache[walk.at].kind = "freelist"
      /\ cache[walk.at].next = NextInList(L, k + 1)
      /\ cache[walk.at].entries = Slice(E, k + 1)
  BY <1>3, <1>5 DEF ListPageOf, FreeListPage
<1>7. ChainPageOK(walk.at, walk.lists, durable.next)
  BY <1>3, <1>5, <1>6 DEF ChainPageOK
<1>8. /\ walk'.at = NextInList(L, k + 1)
      /\ walk'.entries = SubSeq(E, 1, Upto(E, k + 1))
      /\ walk'.lists = SubSeq(L, 1, k + 1)
      /\ UNCHANGED <<memVars, held, pc, caller, ck>>
  <2>1. /\ walk'.at = cache[walk.at].next
        /\ walk'.entries = walk.entries \o cache[walk.at].entries
        /\ walk'.lists = Append(walk.lists, walk.at)
        /\ UNCHANGED <<memVars, held, pc, caller, ck>>
    <3>1. walk' = [at |-> cache[walk.at].next,
                   entries |-> walk.entries \o cache[walk.at].entries,
                   lists |-> Append(walk.lists, walk.at)]
      BY <1>7, Zenon DEF WalkPage
    <3>2. UNCHANGED <<memVars, held, pc, caller, ck>>
      BY <1>7, Zenon DEF WalkPage
    <3> QED BY <3>1, <3>2
  <2>2. walk.at = L[k + 1]
    BY <1>3, <1>5
  <2> QED BY <1>3, <1>5, <1>6, <2>1, <2>2
<1>9. Quiet /\ DriveInv'
  BY <1>1, NoDiskStep
<1>10. WalkInv'
  <2>1. PICK m : m = durable
    OBVIOUS
  <2>2. Backs(m, s, L, E)'
    BY <1>3, <1>9, <2>1, QuietKeepsBacks
  <2>3. Backs(durable, s, L, E)'
    BY <1>8, <2>1, <2>2 DEF memVars
  <2>4. Len(walk'.lists) = k + 1
    BY <1>5, <1>8
  <2>5. /\ Len(walk'.lists) <= Len(L)
        /\ walk'.lists = SubSeq(L, 1, Len(walk'.lists))
        /\ walk'.entries = SubSeq(E, 1, Upto(E, Len(walk'.lists)))
        /\ walk'.at = NextInList(L, Len(walk'.lists))
    <3>1. k + 1 <= Len(L)
      BY <1>4
    <3> QED BY <1>8, <2>4, <3>1
  <2>6. s \in {saved', doubt'}
    BY <1>1
  <2> QED BY <2>3, <2>5, <2>6 DEF WalkInv, Upto, NextInList
<1>11. /\ free = <<>> /\ pending = <<>> /\ listPage = <<>>
       /\ status = StatusOf(<<>>, <<>>, <<>>)
       /\ dirty = FALSE /\ poisoned = FALSE /\ caller = "client" /\ held = {} /\ root = NoPage
  BY <1>1 DEF IInv, DownInv
<1> QED BY <1>1, <1>8, <1>9, <1>10, <1>11, ReadsOn DEF memVars

\* The free list of a checkpoint passes the checks of Open.
LEMMA FreeSetPasses ==
  ASSUME NEW m, NEW L \in PageLists, NEW E \in PageLists, Accounts(m, L, E)
  PROVE  checkFreeSet(m, E, L)
<1>1. /\ Distinct(E) /\ Range(L) \cap Range(E) = {}
      /\ \A p \in Range(L) \cup Range(E) : p # MetaPage /\ p < m.next /\ p # m.root
  BY DEF Accounts
<1>2. \A i \in DOMAIN E : E[i] \in Range(E)
  BY DEF Range
<1>3. DOMAIN E = 1 .. Len(E) /\ Len(E) \in Nat
  BY LenProperties DEF PageLists
<1>4. ASSUME NEW i \in DOMAIN E, NEW j \in 1 .. i - 1 PROVE E[j] # E[i]
  <2>1. j \in DOMAIN E /\ j # i
    BY <1>3
  <2> QED BY <1>1, <2>1 DEF Distinct
<1> QED BY <1>1, <1>2, <1>4 DEF checkFreeSet

LEMMA WalkDoneStep ==
  ASSUME TypeOK, IInv, WalkDone
  PROVE  IInv'
<1>1. pc = "walk" /\ walk.at = NoPage /\ UNCHANGED <<diskVars, saved, doubt, clobbered>>
  BY DEF WalkDone
<1> DEFINE k == Len(walk.lists)
<1>2. PICK s \in {saved, doubt} : \E L, E \in PageLists :
        /\ Backs(durable, s, L, E)
        /\ k \in 0 .. Len(L)
        /\ walk.lists = SubSeq(L, 1, k)
        /\ walk.entries = SubSeq(E, 1, Upto(E, k))
        /\ walk.at = NextInList(L, k)
        /\ walk.at # NoPage <=> k < Len(L)
  BY <1>1, WalkState
<1>3. PICK L, E \in PageLists :
        /\ Backs(durable, s, L, E)
        /\ k \in 0 .. Len(L)
        /\ walk.lists = SubSeq(L, 1, k)
        /\ walk.entries = SubSeq(E, 1, Upto(E, k))
        /\ walk.at = NextInList(L, k)
        /\ walk.at # NoPage <=> k < Len(L)
  BY <1>2
<1> HIDE DEF k
<1>4. Len(L) \in Nat /\ k = Len(L)
  BY <1>1, <1>3, LenProperties DEF PageLists
<1>5. walk.lists = L /\ walk.entries = E
  <2>1. Len(E) <= Len(L) * FreeListCapacity
    BY <1>3 DEF Backs, Accounts
  <2>2. SubSeq(E, 1, Upto(E, k)) = E
    BY <1>4, <2>1, SlicesAll
  <2>3. SubSeq(L, 1, Len(L)) = L
    BY SubSeqFull DEF PageLists
  <2> QED BY <1>3, <1>4, <2>2, <2>3
<1>6. Len(walk.entries) = durable.count /\ checkFreeSet(durable, walk.entries, walk.lists)
  BY <1>3, <1>5, FreeSetPasses DEF Backs, Accounts
<1>7. /\ pc' = "ldMeta" /\ root' = durable.root /\ nextPage' = durable.next
      /\ filePages' = durable.file /\ free' = E /\ listPage' = L
      /\ status' = StatusOf(E, <<>>, L)
      /\ UNCHANGED <<durable, pending, dirty, poisoned, caller, ck, held>>
  BY <1>1, <1>5, <1>6 DEF WalkDone
<1>8. Quiet /\ DriveInv'
  BY <1>1, NoDiskStep
<1>9. pending = <<>> /\ poisoned = FALSE /\ caller = "client"
  BY <1>1 DEF IInv, DownInv
<1>10. LoadInv'
  <2>1. PICK m : m = durable
    OBVIOUS
  <2>2. Backs(m, s, L, E)'
    BY <1>3, <1>8, <2>1, QuietKeepsBacks
  <2>3. Backs(durable, s, listPage, free)'
    BY <1>7, <2>1, <2>2
  <2>4. s \in {saved', doubt'}
    BY <1>1
  <2>5. \E t \in {saved', doubt'} : Backs(durable, t, listPage, free)'
    BY <2>3, <2>4
  <2> QED BY <1>7, <1>9, <2>5 DEF LoadInv
<1>11. DownInv' /\ WalkInv' /\ ParentInv' /\ NeverPoisonedInCall' /\ NotRefused'
  BY <1>7, <1>9 DEF DownInv, WalkInv, ParentInv, NeverPoisonedInCall, NotRefused
<1>12. ~ Live' /\ pc' \notin CkPcs
  BY <1>7 DEF Live, CkPcs
<1>13. ListsInv' /\ BaseInv' /\ CleanInv' /\ TakeInv'
  BY <1>12 DEF ListsInv, BaseInv, CleanInv, TakeInv
<1>14. ListInv' /\ CommitInv'
  BY <1>7 DEF ListInv, CommitInv
<1> QED BY <1>8, <1>10, <1>11, <1>13, <1>14 DEF IInv

\* The meta page that was read is written again, or is not for want of luck.
LEMMA MetaRewritten ==
  ASSUME TypeOK, IInv, NEW m, NEW s \in {saved, doubt},
         NEW L \in PageLists, NEW E \in PageLists, Backs(m, s, L, E),
         NEW W \in SUBSET {MetaPage}, DiskWrite({}, W, m), UNCHANGED <<saved, doubt, clobbered>>
  PROVE  DriveInv' /\ Writes(W) /\ Backs(m, s, L, E)'
<1>1. m \in MetaRecord /\ m # None
  BY ListPagesInFile DEF Backs
<1>2. Writes(W) /\ W \in SUBSET PageIDs
  <2>1. {} \in SUBSET PageIDs /\ W \in SUBSET PageIDs /\ {} \cup W = W
    OBVIOUS
  <2>2. Writes({} \cup W)
    BY <1>1, <2>1, DiskWriteWrites
  <2> QED BY <2>1, <2>2
<1>3. FileInv'
  <2>1. Gapless(W)
    BY DEF Gapless
  <2> QED BY <1>2, <2>1, WritesKeepFile DEF IInv, DriveInv
<1>4. /\ \A p \in PageIDs \ {MetaPage} : UNCHANGED <<cache[p], drive[p], pend[p]>>
      /\ Metas' \subseteq Metas \cup {m}
  BY DEF DiskWrite, Metas
<1>5. ASSUME NEW r, NEW t, NEW K \in PageLists, NEW F \in PageLists, Backs(r, t, K, F)
      PROVE  Backs(r, t, K, F)'
  <2>1. W \cap Range(K) = {}
    BY <1>5 DEF Backs, Accounts
  <2> QED BY <1>2, <1>5, <2>1, WritesKeepBacks
<1>6. BlankInv'
  BY <1>4 DEF IInv, DriveInv, BlankInv
<1>7. SnapshotInv'
  BY DEF IInv, DriveInv, SnapshotInv
<1>8. MetaInv'
  <2>1. SUFFICES ASSUME NEW r \in Metas'
        PROVE  \/ r \in {None, Zero} /\ saved' = Blank
               \/ Backed(r, saved)' \/ Backed(r, doubt)'
    BY DEF MetaInv
  <2>2. CASE r \in {None, Zero} /\ r \in Metas
    BY <2>2, MetasKnown DEF IInv
  <2>3. CASE r = m \/ (r \in Metas /\ r \notin {None, Zero})
    <3>1. \E t \in {saved, doubt} : \E K, F \in PageLists : Backs(r, t, K, F)
      <4>1. r \in Metas /\ r \notin {None, Zero} => Backed(r, saved) \/ Backed(r, doubt)
        BY MetasKnown DEF IInv
      <4> QED BY <2>3, <4>1 DEF Backed
    <3>2. PICK t \in {saved, doubt} : \E K, F \in PageLists : Backs(r, t, K, F)
      BY <3>1
    <3>3. PICK K, F \in PageLists : Backs(r, t, K, F)
      BY <3>2
    <3>4. Backs(r, t, K, F)'
      BY <1>5, <3>3
    <3>5. saved' = t \/ doubt' = t
      BY <3>2
    <3>6. Backs(r, saved, K, F)' \/ Backs(r, doubt, K, F)'
      BY <3>4, <3>5
    <3> QED BY <3>6 DEF Backed
  <2> QED BY <1>4, <2>1, <2>2, <2>3
<1>9. IntactInv'
  <2>1. ASSUME NEW t \in {saved, doubt}, NEW p \in t.held \ clobbered, Stable(p, t.data[p])
        PROVE  Stable(p, t.data[p])'
    <3>1. p \in PageIDs \ {MetaPage} /\ p \notin W
      BY <2>1 DEF TypeOK, HistType, IInv, DriveInv, SnapshotInv
    <3> QED BY <1>2, <2>1, <3>1, WritesKeepStable
  <2>2. ASSUME NEW p \in saved.held \ clobbered PROVE Stable(p, saved.data[p])'
    <3>1. PICK t \in {saved, doubt} : t = saved
      OBVIOUS
    <3>2. Stable(p, t.data[p])
      BY <2>2, <3>1 DEF IInv, DriveInv, IntactInv
    <3>3. Stable(p, t.data[p])'
      BY <2>1, <2>2, <3>1, <3>2
    <3> QED BY <3>1, <3>3
  <2>3. ASSUME NEW p \in doubt.held \ clobbered PROVE Stable(p, doubt.data[p])'
    <3>1. PICK t \in {saved, doubt} : t = doubt
      OBVIOUS
    <3>2. Stable(p, t.data[p])
      BY <2>3, <3>1 DEF IInv, DriveInv, IntactInv
    <3>3. Stable(p, t.data[p])'
      BY <2>1, <2>3, <3>1, <3>2
    <3> QED BY <3>1, <3>3
  <2> QED BY <2>2, <2>3 DEF IntactInv
<1> QED BY <1>2, <1>3, <1>5, <1>6, <1>7, <1>8, <1>9 DEF DriveInv

\* What Open has read, before it writes the meta page again and syncs it.
LEMMA LoadState ==
  ASSUME TypeOK, IInv, pc \in {"ldMeta", "ldSync"}
  PROVE  \E m, s, L, E :
           /\ m = durable /\ s \in {saved, doubt} /\ L = listPage /\ E = free
           /\ L \in PageLists /\ E \in PageLists /\ Backs(m, s, L, E)
<1>1. listPage \in PageLists /\ free \in PageLists
  BY DEF TypeOK, MemType, PageLists
<1>2. PICK s \in {saved, doubt} : Backs(durable, s, listPage, free)
  BY DEF IInv, LoadInv
<1> QED BY <1>1, <1>2

LEMMA LdMetaStep ==
  ASSUME TypeOK, IInv, LdMeta
  PROVE  IInv'
<1>1. pc = "ldMeta" /\ UNCHANGED <<saved, doubt, clobbered>>
  BY DEF LdMeta
<1>2. PICK m, s, L, E :
        /\ m = durable /\ s \in {saved, doubt} /\ L = listPage /\ E = free
        /\ L \in PageLists /\ E \in PageLists /\ Backs(m, s, L, E)
  BY <1>1, LoadState
<1>3. CASE /\ DiskWrite({}, {MetaPage}, durable) /\ pc' = "ldSync"
           /\ UNCHANGED <<memVars, caller, ck, walk, held>>
  <2>1. DiskWrite({}, {MetaPage}, m) /\ {MetaPage} \in SUBSET {MetaPage}
    BY <1>2, <1>3
  <2>2. DriveInv' /\ Writes({MetaPage}) /\ Backs(m, s, L, E)'
    BY <1>1, <1>2, <2>1, MetaRewritten
  <2>3. /\ durable' = m /\ listPage' = L /\ free' = E
        /\ UNCHANGED <<durable, root, nextPage, filePages, free, pending, listPage,
                       status, poisoned, caller>>
    BY <1>2, <1>3 DEF memVars
  <2>4. LoadInv'
    <3>1. Backs(durable, s, listPage, free)'
      BY <2>2, <2>3
    <3>2. s \in {saved', doubt'}
      BY <1>1, <1>2
    <3>3. cache'[MetaPage] = durable' /\ pend'[MetaPage] # {}
      BY <1>2, <2>1, <2>2, <2>3 DEF DiskWrite
    <3> QED BY <1>1, <2>3, <3>1, <3>2, <3>3 DEF IInv, LoadInv
  <2>5. DownInv' /\ WalkInv' /\ ParentInv' /\ NotRefused'
    BY <1>3 DEF DownInv, WalkInv, ParentInv, NotRefused
  <2>6. NeverPoisonedInCall'
    BY <1>1, <2>3 DEF IInv, NeverPoisonedInCall
  <2>7. ~ Live' /\ pc' \notin CkPcs
    BY <1>3 DEF Live, CkPcs
  <2>8. ListsInv' /\ BaseInv' /\ CleanInv' /\ TakeInv'
    BY <2>7 DEF ListsInv, BaseInv, CleanInv, TakeInv
  <2>9. ListInv' /\ CommitInv'
    BY <1>3 DEF ListInv, CommitInv
  <2> QED BY <2>2, <2>4, <2>5, <2>6, <2>8, <2>9 DEF IInv
<1>4. CASE DiskWriteFails({}, MetaPage, durable) /\ NoStore("down")
  <2>1. PICK W \in SUBSET {MetaPage} : DiskWrite({}, W, m)
    BY <1>2, <1>4 DEF DiskWriteFails
  <2>2. DriveInv'
    BY <1>1, <1>2, <2>1, MetaRewritten
  <2> QED BY <1>4, <2>2, DownAgain
<1> QED BY <1>3, <1>4 DEF LdMeta

\* A page of the checkpoint that was found is on the drive once that is synced, or
\* is still the client's to answer for.
LEMMA FoundPages ==
  ASSUME TypeOK, IInv, DiskSync, NEW m, NEW s \in {saved, doubt},
         NEW L \in PageLists, NEW E \in PageLists, Backs(m, s, L, E),
         NEW p \in s.held, p \notin clobbered \/ drive'[p] = cache[p]
  PROVE  cache[p] # None /\ Stable(p, cache[p])'
<1>1. /\ m.file - 1 \in PageIDs /\ drive[m.file - 1] # None /\ m.next <= m.file
      /\ m.next \in 1 .. MaxPages /\ m.file \in 1 .. MaxPages
  BY ListPagesInFile DEF Backs
<1>2. p \in PageIDs /\ p < m.next
  BY DEF Backs, Leftover
<1>3. cache[p] # None
  <2>1. cache[m.file - 1] # None
    BY <1>1 DEF IInv, DriveInv, FileInv
  <2>2. p = m.file - 1 \/ p < m.file - 1
    BY <1>1, <1>2
  <2> QED BY <1>1, <1>2, <2>1, <2>2 DEF IInv, DriveInv, FileInv
<1>4. cache' = cache /\ pend'[p] = {}
  BY <1>2, SyncedPages
<1>5. drive'[p] = cache[p]
  <2>1. CASE p \notin clobbered
    <3>1. Stable(p, s.data[p])
      BY <2>1 DEF IInv, DriveInv, IntactInv
    <3> QED BY <1>2, <1>3, <3>1, SyncedPages DEF Stable
  <2> QED BY <2>1
<1> QED BY <1>3, <1>4, <1>5 DEF Stable

\* The snapshot that Open takes the file for is the one that backs it.
LEMMA RecoveredIs ==
  ASSUME TypeOK, IInv, NEW s \in {saved, doubt},
         NEW L \in PageLists, NEW E \in PageLists, NEW m, m = durable, Backs(m, s, L, E)
  PROVE  Recovered = s
<1>1. s.checkpoint = durable.checkpoint /\ durable.checkpoint # 0 /\ durable.checkpoint \in Nat
  BY DEF Backs, Accounts, MetaRecord
<1>2. saved.checkpoint \in Nat /\ (doubt = NoDoubt \/ doubt.checkpoint = saved.checkpoint + 1)
  BY DEF IInv, DriveInv, SnapshotInv
<1>3. NoDoubt.checkpoint = -1
  BY DEF NoDoubt, Blank
<1>4. CASE s = doubt
  BY <1>1, <1>4 DEF Recovered
<1>5. CASE s = saved
  <2>1. doubt.checkpoint # saved.checkpoint
    BY <1>2, <1>3
  <2> QED BY <1>1, <1>5, <2>1 DEF Recovered
<1> QED BY <1>4, <1>5

LEMMA LdSyncStep ==
  ASSUME TypeOK, TypeOK', IInv, LdSync
  PROVE  IInv'
<1>1. pc = "ldSync"
  BY DEF LdSync
<1>2. PICK m, s, L, E :
        /\ m = durable /\ s \in {saved, doubt} /\ L = listPage /\ E = free
        /\ L \in PageLists /\ E \in PageLists /\ Backs(m, s, L, E)
  BY <1>1, LoadState
<1>3. CASE /\ DiskSync /\ pc' = "parent" /\ held' = Recovered.held
           /\ saved' = [checkpoint |-> Recovered.checkpoint, root |-> Recovered.root,
                        held |-> Recovered.held,
                        data |-> [p \in Recovered.held |-> cache[p]]]
           /\ doubt' = NoDoubt /\ StillClobbered
           /\ UNCHANGED <<memVars, caller, ck, walk>>
  <2>1. Recovered = s
    BY <1>2, RecoveredIs
  <2>2. /\ held' = s.held /\ saved'.checkpoint = s.checkpoint /\ saved'.root = s.root
        /\ saved'.held = s.held /\ \A p \in s.held : saved'.data[p] = cache[p]
    BY <1>3, <2>1
  <2>3. clobbered' = {p \in clobbered \cap s.held : drive'[p] # saved'.data[p]}
    BY <1>3, <2>2 DEF StillClobbered
  <2>4. ASSUME NEW p \in saved'.held \ clobbered' PROVE Stable(p, saved.data[p])'
    <3>1. p \in s.held /\ (p \notin clobbered \/ drive'[p] = cache[p])
      BY <2>2, <2>3
    <3>2. cache[p] # None /\ Stable(p, cache[p])'
      BY <1>2, <1>3, <3>1, FoundPages
    <3>3. saved'.data[p] = cache[p] /\ cache' = cache
      BY <1>3, <2>2, <3>1, SyncReads
    <3> QED BY <3>2, <3>3 DEF Stable
  <2>5. clobbered' \subseteq saved'.held
    BY <2>2, <2>3
  <2>6. cache[MetaPage] = m /\ pend[MetaPage] # {}
    BY <1>1, <1>2 DEF IInv, LoadInv
  <2>7. DriveInv' /\ Backs(m, saved, L, E)' /\ Stable(MetaPage, m)'
    BY <1>2, <1>3, <2>2, <2>4, <2>5, <2>6, MetaSettles
  <2>8. /\ pending = <<>> /\ status = StatusOf(free, <<>>, listPage)
        /\ root = durable.root /\ nextPage = durable.next /\ filePages = durable.file
        /\ caller = "client" /\ poisoned = FALSE
    BY <1>1 DEF IInv, LoadInv
  <2>9. UNCHANGED <<durable, root, nextPage, filePages, free, pending, listPage,
                    status, poisoned, caller>>
    BY <1>3 DEF memVars
  <2>10. durable' = m /\ listPage' = L /\ free' = E
    BY <1>2, <2>9
  <2>11. Backs(durable, saved, listPage, free)' /\ Stable(MetaPage, durable)'
    BY <2>7, <2>10
  <2>12. /\ pending' = <<>> /\ status' = StatusOf(free', <<>>, listPage')
         /\ root' = durable'.root /\ nextPage' = durable'.next /\ filePages' = durable'.file
         /\ caller' = "client" /\ poisoned' = FALSE
    BY <2>8, <2>9
  <2>13. held' = saved'.held
    BY <2>2
  <2> QED BY <1>3, <2>7, <2>11, <2>12, <2>13, StoreOpens
<1>4. CASE DiskSyncFails /\ NoStore("down") /\ UNCHANGED <<saved, doubt, clobbered>>
  BY <1>4, GiveUp
<1> QED BY <1>3, <1>4 DEF LdSync

LEMMA ParentStep ==
  ASSUME TypeOK, IInv, Parent
  PROVE  IInv'
<1>1. pc = "parent" /\ Live /\ UNCHANGED <<diskVars, saved, doubt, clobbered>>
  BY DEF Parent, Live
<1>2. CASE pc' = "idle" /\ UNCHANGED <<memVars, caller, ck, walk, held>>
  <2>1. Quiet /\ DriveInv' /\ \A p \in PageIDs : cache[p] # None => cache'[p] # None
    BY <1>1, NoDiskStep
  <2>2. caller # "create"
    BY <1>1 DEF IInv, BaseInv
  <2>3. ListsInv'
    <3>1. root = NoPage \/ root \in held
      BY <1>1 DEF IInv, ListsInv
    <3> QED BY <1>1, <1>2, <2>1, <3>1, ListsKept DEF memVars
  <2>4. BaseInv'
    BY <1>1, <1>2, <2>1, <2>2, BaseKept DEF memVars
  <2>5. CleanInv'
    <3>1. UNCHANGED <<drive, cache, pend, filePages, poisoned, held, clobbered>>
      BY <1>1, <1>2 DEF diskVars, memVars
    <3> QED BY <1>1, <3>1 DEF IInv, CleanInv
  <2> QED BY <1>2, <2>1, <2>3, <2>4, <2>5, IdleAgain
<1>3. CASE NoStore("down")
  BY <1>1, <1>3, GiveUp
<1> QED BY <1>2, <1>3 DEF Parent

-----------------------------------------------------------------------------
(* Nothing happens, or the cache drops a page. *)

\* What an eviction may change: a clean page that reads otherwise than the drive.
DropsOnly ==
  /\ drive' = drive /\ pend' = pend
  /\ \A p \in PageIDs :
       /\ cache[p] # None => cache'[p] # None
       /\ pend[p] # {} \/ drive[p] = cache[p] => cache'[p] = cache[p]

LEMMA EvictDrops ==
  ASSUME TypeOK, UNCHANGED diskVars \/ \E p \in PageIDs : DiskEvict(p)
  PROVE  DropsOnly
<1>1. CASE UNCHANGED diskVars
  BY <1>1 DEF diskVars, DropsOnly
<1>2. CASE \E p \in PageIDs : DiskEvict(p)
  <2>1. PICK p \in PageIDs : DiskEvict(p)
    BY <1>2
  <2>2. /\ drive' = drive /\ pend' = pend /\ pend[p] = {} /\ cache[p] # None
        /\ cache[p] # OnDrive(p) /\ cache' = [cache EXCEPT ![p] = OnDrive(p)]
    BY <2>1 DEF DiskEvict
  <2>3. OnDrive(p) # None
    BY WrittenKinds DEF OnDrive
  <2>4. drive[p] # cache[p]
    BY <2>2 DEF OnDrive
  <2>5. \A q \in PageIDs : cache'[q] = IF q = p THEN OnDrive(p) ELSE cache[q]
    BY <2>2 DEF TypeOK, DiskType
  <2> QED BY <2>2, <2>3, <2>4, <2>5 DEF DropsOnly
<1> QED BY <1>1, <1>2

LEMMA IdleOpening ==
  ASSUME TypeOK, IInv, Quiet, DropsOnly, UNCHANGED <<memVars, callVars, histVars>>
  PROVE  DownInv' /\ WalkInv' /\ LoadInv'
<1>1. DownInv'
  BY DEF IInv, DownInv, memVars, callVars, histVars
<1>2. WalkInv'
  <2>1. SUFFICES ASSUME pc = "walk"
        PROVE  \E s \in {saved', doubt'} : \E L, E \in PageLists :
                 /\ Backs(durable, s, L, E)'
                 /\ Len(walk.lists) <= Len(L)
                 /\ walk.lists = SubSeq(L, 1, Len(walk.lists))
                 /\ walk.entries = SubSeq(E, 1, Upto(E, Len(walk.lists)))
                 /\ walk.at = NextInList(L, Len(walk.lists))
    BY DEF WalkInv, callVars, Upto, NextInList
  <2>2. PICK s \in {saved, doubt} : \E L, E \in PageLists :
          /\ Backs(durable, s, L, E)
          /\ Len(walk.lists) <= Len(L)
          /\ walk.lists = SubSeq(L, 1, Len(walk.lists))
          /\ walk.entries = SubSeq(E, 1, Upto(E, Len(walk.lists)))
          /\ walk.at = NextInList(L, Len(walk.lists))
    BY <2>1 DEF IInv, WalkInv
  <2>3. PICK L, E \in PageLists :
          /\ Backs(durable, s, L, E)
          /\ Len(walk.lists) <= Len(L)
          /\ walk.lists = SubSeq(L, 1, Len(walk.lists))
          /\ walk.entries = SubSeq(E, 1, Upto(E, Len(walk.lists)))
          /\ walk.at = NextInList(L, Len(walk.lists))
    BY <2>2
  <2>4. PICK m : m = durable
    OBVIOUS
  <2>5. Backs(m, s, L, E)'
    BY <2>3, <2>4, QuietKeepsBacks
  <2>6. Backs(durable, s, L, E)' /\ s \in {saved', doubt'}
    BY <2>4, <2>5 DEF memVars, histVars
  <2> QED BY <2>3, <2>6
<1>3. LoadInv'
  <2>1. SUFFICES ASSUME pc \in {"ldMeta", "ldSync"} PROVE LoadInv'
    BY DEF LoadInv, callVars
  <2>2. PICK m, s, L, E :
          /\ m = durable /\ s \in {saved, doubt} /\ L = listPage /\ E = free
          /\ L \in PageLists /\ E \in PageLists /\ Backs(m, s, L, E)
    BY <2>1, LoadState
  <2>3. Backs(m, s, L, E)'
    BY <2>2, QuietKeepsBacks
  <2>4. Backs(durable, s, listPage, free)' /\ s \in {saved', doubt'}
    BY <2>2, <2>3 DEF memVars, histVars
  <2>5. pc = "ldSync" => cache'[MetaPage] = durable /\ pend'[MetaPage] # {}
    BY DEF IInv, LoadInv, DropsOnly
  <2> QED BY <2>1, <2>4, <2>5 DEF IInv, LoadInv, memVars, callVars
<1> QED BY <1>1, <1>2, <1>3

LEMMA IdleLive ==
  ASSUME TypeOK, IInv, Live, Quiet, DropsOnly, UNCHANGED <<memVars, callVars, histVars>>
  PROVE  ListsInv' /\ BaseInv' /\ CleanInv'
<1>1. UNCHANGED <<durable, root, nextPage, filePages, free, pending, listPage, status,
                  poisoned, pc, caller, ck, held, saved, doubt, clobbered>>
  BY DEF memVars, callVars, histVars
<1>2. ListsInv'
  <2>1. root' = NoPage \/ root' \in held
    BY <1>1 DEF IInv, ListsInv
  <2> QED BY <1>1, <2>1, ListsKept DEF DropsOnly
<1>3. BaseInv'
  <2>1. CASE caller = "create"
    BY <1>1, <2>1 DEF IInv, BaseInv, Live
  <2>2. CASE caller # "create"
    BY <1>1, <2>2, BaseKept
  <2> QED BY <2>1, <2>2
<1>4. CleanInv'
  <2>1. SUFFICES ASSUME poisoned = FALSE
        PROVE  /\ \A p \in held \ clobbered : pend'[p] = {} => drive'[p] = cache'[p]
               /\ pend'[filePages - 1] = {} => drive'[filePages - 1] # None
    BY <1>1 DEF CleanInv, TypeOK, MemType
  <2>2. \A p \in held : p \in PageIDs
    BY HeldPages
  <2> QED BY <2>1, <2>2 DEF IInv, CleanInv, DropsOnly
<1> QED BY <1>2, <1>3, <1>4

LEMMA IdleCheckpoint ==
  ASSUME TypeOK, IInv, Quiet, DropsOnly, UNCHANGED <<memVars, callVars, histVars>>
  PROVE  TakeInv' /\ ListInv' /\ CommitInv'
<1>1. UNCHANGED <<durable, root, nextPage, filePages, free, pending, listPage, status,
                  poisoned, pc, caller, ck, held, saved, doubt, clobbered>>
  BY DEF memVars, callVars, histVars
<1>2. TakeInv'
  <2>1. pc \in CkPcs => ck.file - 1 \in PageIDs
    BY TakenPages
  <2> QED BY <1>1, <2>1 DEF IInv, TakeInv, DropsOnly
<1>3. ListInv'
  <2>1. pc \in {"ckList", "ckListSync"} =>
          \A i \in 1 .. ck.at : /\ cache'[ck.lists[i]] = ListPageOf(ck.lists, Entries, i)
                                /\ pend'[ck.lists[i]] # {}
    <3>1. SUFFICES ASSUME pc \in {"ckList", "ckListSync"}, NEW i \in 1 .. ck.at
          PROVE  /\ cache'[ck.lists[i]] = ListPageOf(ck.lists, Entries, i)
                 /\ pend'[ck.lists[i]] # {}
      OBVIOUS
    <3>2. /\ cache[ck.lists[i]] = ListPageOf(ck.lists, Entries, i) /\ pend[ck.lists[i]] # {}
          /\ ck.at \in Nat /\ ck.at <= Len(ck.lists)
      <4>1. ck.at \in Nat /\ Len(ck.lists) \in Nat
        BY LenProperties DEF TypeOK, CallType
      <4>2. ck.at < Len(ck.lists) \/ ck.at = Len(ck.lists)
        BY <3>1 DEF IInv, ListInv
      <4>3. cache[ck.lists[i]] = ListPageOf(ck.lists, Entries, i) /\ pend[ck.lists[i]] # {}
        BY <3>1 DEF IInv, ListInv
      <4> QED BY <4>1, <4>2, <4>3
    <3>3. ck.lists \in PageLists /\ \A p \in Range(ck.lists) : p \in PageIDs
      BY <3>1, TakenPages DEF CkPcs
    <3>4. i \in DOMAIN ck.lists
      BY <3>2, <3>3, LenProperties DEF PageLists
    <3>5. ck.lists[i] \in PageIDs
      BY <3>3, <3>4 DEF Range
    <3> QED BY <3>2, <3>5 DEF DropsOnly
  <2>2. NextMeta' = NextMeta /\ Entries' = Entries /\ ck' = ck
    BY <1>1, NextKept
  <2>3. pc \in {"ckMeta", "ckMetaSync"} =>
          Backs(NextMeta, Snapshot(durable.checkpoint + 1), ck.lists, Entries)'
    <3>1. SUFFICES ASSUME pc \in {"ckMeta", "ckMetaSync"}
          PROVE  Backs(NextMeta, Snapshot(durable.checkpoint + 1), ck.lists, Entries)'
      OBVIOUS
    <3>2. PICK m : m = NextMeta
      OBVIOUS
    <3>3. PICK s : s = Snapshot(durable.checkpoint + 1)
      OBVIOUS
    <3>4. PICK L \in PageLists : L = ck.lists
      BY DEF TypeOK, CallType, PageLists
    <3>5. PICK E \in PageLists : E = Entries
      BY EntriesType DEF TypeOK, PageLists
    <3>6. Backs(m, s, L, E)
      BY <3>1, <3>2, <3>3, <3>4, <3>5 DEF IInv, ListInv
    <3>7. Backs(m, s, L, E)'
      BY <3>6, QuietKeepsBacks
    <3>8. /\ Snapshot(durable.checkpoint + 1)'.checkpoint = s.checkpoint
          /\ Snapshot(durable.checkpoint + 1)'.root = s.root
          /\ Snapshot(durable.checkpoint + 1)'.held = s.held
      BY <1>1, <3>3 DEF Snapshot
    <3>9. Backs(m, Snapshot(durable.checkpoint + 1), L, E)'
      BY <3>7, <3>8 DEF Backs
    <3> QED BY <2>2, <3>2, <3>4, <3>5, <3>9
  <2>4. /\ pc' = "ckTake" => ck'.at = 0
        /\ pc' = "ckList" => ck'.at < Len(ck'.lists)
        /\ pc' = "ckListSync" => ck'.at = Len(ck'.lists)
    BY <1>1 DEF IInv, ListInv
  <2> QED BY <1>1, <2>1, <2>2, <2>3, <2>4 DEF ListInv
<1>4. CommitInv'
  <2>1. SUFFICES ASSUME pc = "ckMetaSync"
        PROVE  /\ cache'[MetaPage] = NextMeta' /\ pend'[MetaPage] # {}
               /\ doubt.checkpoint = durable.checkpoint + 1 /\ doubt.root = root /\ doubt.held = held
               /\ \A p \in held : /\ doubt.data[p] # None
                                  /\ drive'[p] = doubt.data[p] => cache'[p] = doubt.data[p]
    BY <1>1 DEF CommitInv
  <2>2. NextMeta' = NextMeta
    BY <1>1, NextKept
  <2>3. \A p \in held : p \in PageIDs
    BY DEF TypeOK, HistType
  <2> QED BY <2>1, <2>2, <2>3 DEF IInv, CommitInv, DropsOnly
<1> QED BY <1>2, <1>3, <1>4

\* Nothing happens to the store when the cache drops a page, or nothing happens at all.
LEMMA IdleStep ==
  ASSUME TypeOK, IInv, UNCHANGED <<memVars, callVars, histVars>>,
         UNCHANGED diskVars \/ \E p \in PageIDs : DiskEvict(p)
  PROVE  IInv'
<1>1. Quiet /\ FileInv' /\ DropsOnly
  BY QuietSteps, EvictDrops DEF TypeOK, IInv, DriveInv
<1>2. DriveInv'
  BY <1>1, QuietKeepsDrive DEF TypeOK, IInv, histVars
<1>3. DownInv' /\ WalkInv' /\ LoadInv'
  BY <1>1, IdleOpening
<1>4. ListsInv' /\ BaseInv' /\ CleanInv'
  <2>1. CASE Live
    BY <1>1, <2>1, IdleLive
  <2>2. CASE ~ Live
    BY <2>2 DEF Live, ListsInv, BaseInv, CleanInv, callVars
  <2> QED BY <2>1, <2>2
<1>5. TakeInv' /\ ListInv' /\ CommitInv'
  BY <1>1, IdleCheckpoint
<1>6. ParentInv' /\ NeverPoisonedInCall' /\ NotRefused'
  BY DEF IInv, ParentInv, NeverPoisonedInCall, NotRefused, memVars, callVars, histVars
<1> QED BY <1>2, <1>3, <1>4, <1>5, <1>6 DEF IInv

-----------------------------------------------------------------------------
(* The invariant. *)

LEMMA InvariantInit ==
  ASSUME Init
  PROVE  IInv
<1>1. DriveInv
  <2>1. FileInv
    BY DEF Init, DiskInit, FileInv
  <2>2. BlankInv
    BY DEF Init, DiskInit, NoStoreInit, BlankInv
  <2>3. SnapshotInv
    BY DEF Init, NoStoreInit, SnapshotInv, Blank, NoDoubt
  <2>4. MetaInv
    BY DEF Init, DiskInit, NoStoreInit, MetaInv, Metas
  <2>5. IntactInv
    BY DEF Init, NoStoreInit, IntactInv, Blank, NoDoubt
  <2> QED BY <2>1, <2>2, <2>3, <2>4, <2>5 DEF DriveInv
<1>2. pc = "down" /\ ~ Live /\ pc \notin CkPcs
  BY DEF Init, NoStoreInit, Live, CkPcs
<1>3. DownInv
  BY DEF Init, NoStoreInit, DownInv
<1>4. /\ WalkInv /\ LoadInv /\ ListsInv /\ BaseInv /\ CleanInv /\ TakeInv /\ ListInv
      /\ CommitInv /\ ParentInv /\ NotRefused
  BY <1>2 DEF WalkInv, LoadInv, ListsInv, BaseInv, CleanInv, TakeInv, ListInv, CommitInv,
              ParentInv, NotRefused
<1>5. NeverPoisonedInCall
  BY DEF Init, NoStoreInit, NeverPoisonedInCall
<1> QED BY <1>1, <1>3, <1>4, <1>5 DEF IInv

LEMMA InvariantNext ==
  ASSUME TypeOK, TypeOK', ListPagesInv, ListPagesInv', IInv, [Next]_vars
  PROVE  IInv'
<1>1. CASE \E id \in PageIDs : SetRoot(id) \/ Free(id)
  BY <1>1, SetRootStep, FreeStep
<1>2. CASE \E id \in PageIDs, v \in Values : Write(id, v)
  BY <1>2, WriteStep
<1>3. CASE AllocateReused \/ AllocateNew \/ Sync \/ Checkpoint \/ Close \/ Discard
  BY <1>3, AllocateReusedStep, AllocateNewStep, SyncStep, CheckpointStep, CloseStep, EndStep
<1>4. CASE OpenBlank \/ OpenLoad
  BY <1>4, OpenBlankStep, OpenLoadStep
<1>5. CASE CkSync \/ CkTake \/ CkTaken \/ CkList \/ CkListSync \/ CkMeta \/ CkMetaSync
  BY <1>5, CkSyncStep, CkTakeStep, CkTakenStep, CkListStep, CkListSyncStep, CkMetaStep,
     CkMetaSyncStep
<1>6. CASE WalkPage \/ WalkDone \/ LdMeta \/ LdSync \/ Parent
  BY <1>6, WalkPageStep, WalkDoneStep, LdMetaStep, LdSyncStep, ParentStep
<1>7. CASE Kill \/ PowerCut
  BY <1>7, EndStep
<1>8. CASE \E p \in PageIDs : Evict(p)
  BY <1>8, IdleStep DEF Evict
<1>9. CASE UNCHANGED vars
  BY <1>9, IdleStep DEF vars
<1> QED BY <1>1, <1>2, <1>3, <1>4, <1>5, <1>6, <1>7, <1>8, <1>9
        DEF Next, ClientStep, StoreStep, World

\* The lists of an open store and the checkpoints on the drive account for each other
\* in every state: after any calls, failures, crashes and reopenings, at every step of
\* checkpoint and Open.
THEOREM InvariantHolds == Spec => []IInv
<1>1. Init => TypeOK /\ ListPagesInv /\ IInv
  BY InitType, InvariantInit DEF Init, NoStoreInit, ListPagesInv
<1>2. TypeOK /\ ListPagesInv /\ IInv /\ [Next]_vars => TypeOK' /\ ListPagesInv' /\ IInv'
  <2>1. TypeOK /\ [Next]_vars => TypeOK'
    BY NextType
  <2>2. TypeOK /\ ListPagesInv /\ [Next]_vars => ListPagesInv'
    BY ListPagesStep
  <2> QED BY <2>1, <2>2, InvariantNext
<1> QED BY <1>1, <1>2, PTL DEF Spec

-----------------------------------------------------------------------------
(* What follows from it. *)

\* The pages the store thinks are the client's are those it was given and has not
\* freed: no page leaks and none is handed out twice.
THEOREM NothingEverLeaks == Spec => []NothingLeaks
<1>1. IInv => NothingLeaks
  BY DEF IInv, ListsInv, Live, NothingLeaks
<1> QED BY <1>1, InvariantHolds, PTL

\* A file that opens shows the last checkpoint that returned nil or the one whose
\* outcome was unknown.
THEOREM ReopensAtACheckpoint == Spec => []RecoversTheCheckpoint
<1>1. TypeOK /\ IInv => RecoversTheCheckpoint
  <2>1. SUFFICES ASSUME TypeOK, IInv, pc = "parent"
        PROVE  /\ durable.checkpoint = saved.checkpoint
               /\ root = saved.root /\ OwnedPages = saved.held
    BY DEF RecoversTheCheckpoint
  <2>2. Live /\ caller # "create"
    BY <2>1 DEF Live, IInv, BaseInv
  <2>3. saved.checkpoint = durable.checkpoint
    BY <2>1, <2>2, LastCheckpoint
  <2>4. OwnedPages = held
    BY <2>1, <2>2 DEF IInv, ListsInv
  <2> QED BY <2>1, <2>3, <2>4 DEF IInv, ParentInv
<1> QED BY <1>1, TypeCorrect, InvariantHolds, PTL

\* Open never turns down a file that a store has written, whatever was cut short.
THEOREM NeverRefused == Spec => []OpenNeverRefuses
<1>1. IInv => OpenNeverRefuses
  BY DEF IInv, NotRefused, OpenNeverRefuses
<1> QED BY <1>1, InvariantHolds, PTL

\* The checkpoint an open store believes in is on the drive, and nothing is on its way
\* to it.
THEOREM DriveIsBelieved == Spec => []BelievesTheDrive
<1>1. TypeOK /\ IInv => BelievesTheDrive
  <2>1. SUFFICES ASSUME TypeOK, IInv, usable
        PROVE  /\ drive[MetaPage] = durable /\ pend[MetaPage] = {}
               /\ \A p \in Range(listPage) : drive[p] = cache[p] /\ pend[p] = {}
    BY DEF BelievesTheDrive
  <2>2. PICK E \in PageLists : /\ Backs(durable, saved, listPage, E)
                               /\ Stable(MetaPage, durable)
    BY <2>1, UsableState, LastCheckpoint
  <2>3. \A i \in DOMAIN listPage : drive[listPage[i]] = cache[listPage[i]] /\ pend[listPage[i]] = {}
    BY <2>2 DEF Backs, Chained, Stable
  <2> QED BY <2>2, <2>3 DEF Stable, Range
<1> QED BY <1>1, TypeCorrect, InvariantHolds, PTL

\* At every moment the pages of the last checkpoint, and of one in doubt, hold on the
\* drive what they held when it was made, unless the client has written over them.
THEOREM CommittedStaysIntact == Spec => []CommittedIntact
<1>1. IInv => CommittedIntact
  BY DEF IInv, DriveInv, IntactInv, Stable, CommittedIntact, Holds
<1> QED BY <1>1, InvariantHolds, PTL

-----------------------------------------------------------------------------
(* Verify. *)

\* The free list that the list pages hold is the one of the last checkpoint.
LEMMA ListReadsBack ==
  ASSUME TypeOK, NEW s, NEW E \in PageLists, Backs(durable, s, listPage, E)
  PROVE  ListedEntries = E /\ readsBackFreeList
<1>1. PICK L \in PageLists : L = listPage
  BY DEF TypeOK, MemType, PageLists
<1>2. PICK m : m = durable
  OBVIOUS
<1>3. Backs(m, s, L, E)
  BY <1>1, <1>2
<1>4. /\ m.head = NextInList(L, 0) /\ m.count = Len(E)
      /\ Len(E) <= Len(L) * FreeListCapacity
      /\ \A i \in DOMAIN L : (i - 1) * FreeListCapacity <= Len(E)
      /\ \A i \in DOMAIN L : cache[L[i]] = ListPageOf(L, E, i)
  BY <1>3 DEF Backs, Accounts, Chained, Stable
<1>5. Len(L) \in Nat /\ DOMAIN L = 1 .. Len(L)
  BY LenProperties DEF PageLists
<1>6. \A i \in DOMAIN L : /\ cache[L[i]].kind = "freelist"
                          /\ cache[L[i]].next = NextInList(L, i)
                          /\ cache[L[i]].entries = Slice(E, i)
  <2>1. SUFFICES ASSUME NEW i \in DOMAIN L
        PROVE  /\ cache[L[i]].kind = "freelist"
               /\ cache[L[i]].next = NextInList(L, i)
               /\ cache[L[i]].entries = Slice(E, i)
    OBVIOUS
  <2>2. cache[L[i]] = ListPageOf(L, E, i)
    BY <1>4
  <2> QED BY <2>2 DEF ListPageOf, FreeListPage
<1>7. ListedEntries = E
  <2> DEFINE n == Len(L)
             slices == [i \in 1 .. n |-> Slice(E, i)]
  <2>1. ListedEntries = FlattenSeq(slices)
    <3>1. [i \in DOMAIN L |-> cache[L[i]].entries] = slices
      BY <1>5, <1>6
    <3> QED BY <1>1, <3>1 DEF ListedEntries
  <2>2. FlattenSeq(slices) = E
    <3>1. /\ n \in Nat /\ Len(E) <= n * FreeListCapacity
          /\ \A i \in 1 .. n : (i - 1) * FreeListCapacity <= Len(E)
      BY <1>4, <1>5
    <3> HIDE DEF n
    <3> QED BY <3>1, FlattenSlices
  <2> QED BY <2>1, <2>2
<1>8. ASSUME NEW i \in DOMAIN L
      PROVE  ChainPageOK(L[i], SubSeq(L, 1, i - 1), m.next)
  <2>1. PICK k \in Nat : k = i - 1 /\ k < Len(L) /\ i = k + 1
    BY <1>5
  <2>2. NextToRead(m, L, E, k)
    BY <1>3, <2>1, WalkReads
  <2>3. /\ L[i] < m.next /\ L[i] \notin Range(SubSeq(L, 1, i - 1))
        /\ Len(Slice(E, i)) <= FreeListCapacity
    BY <2>1, <2>2 DEF NextToRead
  <2> QED BY <1>6, <2>3 DEF ChainPageOK
<1>9. readsBackFreeList
  BY <1>1, <1>2, <1>4, <1>6, <1>7, <1>8 DEF readsBackFreeList
<1> QED BY <1>7, <1>9

\* Each page handed out is in one state.
LEMMA OneState ==
  ASSUME TypeOK, IInv, Live
  PROVE  OneStateEach
<1>1. free \in PageLists /\ pending \in PageLists /\ listPage \in PageLists
  BY DEF TypeOK, MemType, PageLists
<1>2. /\ Distinct(free) /\ Distinct(pending) /\ Distinct(listPage)
      /\ Range(free) \cap Range(pending) = {}
      /\ Range(free) \cap Range(listPage) = {}
      /\ Range(pending) \cap Range(listPage) = {}
      /\ \A p \in Range(free) \cup Range(pending) \cup Range(listPage) : p # MetaPage /\ p < nextPage
      /\ status = StatusOf(free, pending, listPage)
      /\ root = NoPage \/ root \in held
  BY DEF IInv, ListsInv
<1> DEFINE some == free \o pending
           listed == some \o listPage
<1>3. some \in PageLists /\ Distinct(some) /\ Range(some) = Range(free) \cup Range(pending)
  BY <1>1, <1>2, ConcatPages
<1>4. Distinct(listed) /\ Range(listed) = Range(some) \cup Range(listPage)
  <2> HIDE DEF some
  <2>1. Range(some) \cap Range(listPage) = {}
    BY <1>2, <1>3
  <2> QED BY <1>1, <1>2, <1>3, <2>1, ConcatPages
<1>5. root # NoPage => owned(root)
  BY <1>2, HeldPages
<1>6. \A p \in Range(listed) : inRange(p)
  BY <1>2, <1>3, <1>4 DEF inRange
<1> QED BY <1>2, <1>4, <1>5, <1>6 DEF OneStateEach

\* Between calls a store that is not poisoned passes its own Verify, whatever calls,
\* failures and reopenings came before.
THEOREM VerifyAlwaysPasses == Spec => []VerifyPasses
<1>1. TypeOK /\ IInv => VerifyPasses
  <2>1. SUFFICES ASSUME TypeOK, IInv, usable PROVE Verify
    BY DEF VerifyPasses
  <2>2. Live
    BY <2>1, UsableState
  <2>3. PICK E \in PageLists :
          /\ Backs(durable, saved, listPage, E) /\ Range(free) \subseteq Range(E)
          /\ durable.next <= nextPage /\ Stable(MetaPage, durable)
    BY <2>1, UsableState, LastCheckpoint
  <2>4. ListedEntries = E /\ readsBackFreeList
    BY <2>1, <2>3, ListReadsBack
  <2>5. PICK m, L : m = durable /\ L = listPage /\ L \in PageLists
    BY <2>1 DEF TypeOK, MemType, PageLists
  <2>6. checkMeta(m) /\ checkFreeSet(m, E, L)
    <3>1. Backs(m, saved, L, E) /\ FileInv
      BY <2>1, <2>3, <2>5 DEF IInv, DriveInv
    <3>2. Accounts(m, L, E)
      BY <3>1 DEF Backs
    <3> QED BY <2>5, <3>1, <3>2, MetaPasses, FreeSetPasses
  <2>7. filePages <= PageCount
    <3>1. filePages \in 1 .. MaxPages /\ filePages - 1 \in PageIDs /\ cache[filePages - 1] # None
      BY <2>1, <2>2, PagesInFile DEF IInv, ListsInv
    <3>2. PageCount \in Nat /\ PageCount > filePages - 1
      BY <3>1, PageCountBounds
    <3> QED BY <3>1, <3>2
  <2>8. verifyLive
    BY <2>1, <2>2, <2>3, <2>4, <2>7, PagesInFile, OneState DEF verifyLive
  <2>9. cache[MetaPage] = durable
    BY <2>3 DEF Stable
  <2> QED BY <2>4, <2>5, <2>6, <2>8, <2>9 DEF Verify
<1> QED BY <1>1, TypeCorrect, InvariantHolds, PTL

-----------------------------------------------------------------------------
(* Giving up for want of room. *)

\* How long the list would be with k pages taken for it: those of the free list go
\* first, and only they shorten it.
Left(k) ==
  (IF k < Len(free) THEN Len(free) - k ELSE 0) + Len(pending) + Len(listPage)

\* Pages are taken one by one, those of the free list first, and only while those
\* taken are too few.
RoomInv ==
  pc = "ckTake" =>
    /\ nextPage <= ck.next
    /\ Len(ck.free) + Len(ck.lists) = Len(free) + (ck.next - nextPage)
    /\ nextPage < ck.next => ck.free = <<>>
    /\ \A k \in 0 .. Len(ck.lists) - 1 : Left(k) > k * FreeListCapacity

\* Each page taken so far, and none but them, is off the list.
LEMMA LeftIsCount ==
  ASSUME TypeOK, RoomInv, pc = "ckTake"
  PROVE  Left(Len(ck.lists)) = Count
<1>1. /\ Len(ck.free) \in Nat /\ Len(ck.lists) \in Nat /\ Len(free) \in Nat
      /\ Len(pending) \in Nat /\ Len(listPage) \in Nat
      /\ ck.next \in Nat /\ nextPage \in Nat
  BY LenProperties DEF TypeOK, MemType, CallType
<1>2. /\ nextPage <= ck.next
      /\ Len(ck.free) + Len(ck.lists) = Len(free) + (ck.next - nextPage)
      /\ nextPage < ck.next => Len(ck.free) = 0
  BY EmptyList DEF RoomInv
<1>3. ASSUME NEW taken \in Nat, NEW frees \in Nat, NEW rest \in Nat, NEW new \in Nat,
             rest + taken = frees + new, new > 0 => rest = 0
      PROVE  (IF taken < frees THEN frees - taken ELSE 0) = rest
  BY <1>3
<1>4. (IF Len(ck.lists) < Len(free) THEN Len(free) - Len(ck.lists) ELSE 0) = Len(ck.free)
  <2>1. ck.next - nextPage \in Nat /\ (ck.next - nextPage > 0 => Len(ck.free) = 0)
    BY <1>1, <1>2
  <2> QED BY <1>1, <1>2, <1>3, <2>1
<1> QED BY <1>4 DEF Left, Count

\* A turn of the loop that takes a page.
LEMMA TakeRoom ==
  ASSUME TypeOK, RoomInv, CkTake, pc' = "ckTake"
  PROVE  RoomInv'
<1>1. Count \in Nat /\ Len(ck.lists) \in Nat
  BY CountType
<1>2. Left(Len(ck.lists)) > Len(ck.lists) * FreeListCapacity
  BY <1>1, LeftIsCount, PagesForBounds DEF CkTake
<1>3. ~ CheckpointFails(FALSE)
  BY DEF CheckpointFails, NoStore
<1>4. UNCHANGED <<free, pending, listPage, nextPage>>
  BY <1>3 DEF CkTake, memVars
<1>5. /\ nextPage <= ck.next
      /\ Len(ck.free) + Len(ck.lists) = Len(free) + (ck.next - nextPage)
      /\ nextPage < ck.next => ck.free = <<>>
      /\ \A k \in 0 .. Len(ck.lists) - 1 : Left(k) > k * FreeListCapacity
  BY DEF CkTake, RoomInv
<1>6. /\ ck.free \in PageLists /\ ck.lists \in PageLists /\ free \in PageLists
      /\ Len(ck.free) \in Nat /\ Len(free) \in Nat
      /\ ck.next \in 0 .. MaxPages /\ nextPage \in 0 .. MaxPages
  BY LenProperties DEF TypeOK, MemType, CallType, PageLists
<1>7. ASSUME Len(ck'.lists) = Len(ck.lists) + 1
      PROVE  \A k \in 0 .. Len(ck'.lists) - 1 : Left(k)' > k * FreeListCapacity
  <2>1. \A k \in 0 .. Len(ck'.lists) - 1 : k \in 0 .. Len(ck.lists) - 1 \/ k = Len(ck.lists)
    BY <1>1, <1>7
  <2>2. \A k \in 0 .. Len(ck'.lists) - 1 : Left(k) > k * FreeListCapacity
    BY <1>2, <1>5, <2>1
  <2> QED BY <1>4, <2>2 DEF Left
<1>8. PICK rest, taken, all, next, first \in Int :
        /\ rest = Len(ck.free) /\ taken = Len(ck.lists) /\ all = Len(free)
        /\ next = ck.next /\ first = nextPage
        /\ rest + taken = all + (next - first)
  <2>1. /\ Len(ck.lists) \in Int /\ Len(ck.free) \in Int /\ Len(free) \in Int
        /\ ck.next \in Int /\ nextPage \in Int
    BY <1>1, <1>6
  <2> QED BY <1>5, <2>1, Zenon
<1>9. rest + taken = all + (next - first)
  BY <1>8
<1>10. /\ (rest - 1) + (taken + 1) = all + (next - first)
       /\ rest + (taken + 1) = all + ((next + 1) - first)
  BY <1>9
<1>11. CASE ck.free # <<>>
  <2>1. /\ ck'.free = Front(ck.free) /\ ck'.lists = Append(ck.lists, Last(ck.free))
        /\ ck'.next = ck.next
    BY <1>3, <1>11 DEF CkTake, TypeOK, CallType
  <2>2. Last(ck.free) \in PageIDs /\ Len(Front(ck.free)) = Len(ck.free) - 1
    <3>1. Len(ck.free) \in Nat \ {0}
      BY <1>6, <1>11, EmptySeq DEF PageLists
    <3>2. \A i \in 1 .. Len(ck.free) - 1 : ck.free[i] \in PageIDs
      BY <1>6, <3>1, LenProperties, SMTT(30) DEF PageLists
    <3> QED BY <1>6, <3>1, <3>2, <1>11, LastFrontType, SubSeqProperties DEF Front, PageLists
  <2>3. Len(ck'.lists) = Len(ck.lists) + 1
    BY <1>6, <2>1, <2>2, AppendProperties DEF PageLists
  <2>4. nextPage <= ck'.next /\ ~ (nextPage < ck'.next)
    <3>1. nextPage <= ck.next /\ ~ (nextPage < ck.next)
      BY <1>5, <1>11
    <3> QED BY <2>1, <3>1, Zenon
  <2>5. Len(ck'.free) + Len(ck'.lists) = Len(free) + (ck'.next - nextPage)
    <3>1. Len(ck'.free) = Len(ck.free) - 1 /\ ck'.next = ck.next
      BY <2>1, <2>2
    <3> QED BY <1>8, <1>10, <2>3, <3>1, Zenon
  <2> QED BY <1>4, <1>7, <2>3, <2>4, <2>5 DEF RoomInv
<1>12. CASE ck.free = <<>>
  <2>1. /\ ck' = [ck EXCEPT !.next = @ + 1, !.file = CkSize, !.lists = Append(@, ck.next)]
        /\ ~ (ck.next >= MaxPages)
    BY <1>3, <1>12 DEF CkTake
  <2>2. /\ ck'.free = ck.free /\ ck'.lists = Append(ck.lists, ck.next)
        /\ ck'.next = ck.next + 1 /\ ck.next \in PageIDs
    <3>1. ck.next \in PageIDs
      BY <1>6, <2>1
    <3>2. ck \in [free : Seq(PageIDs), next : 0 .. MaxPages, file : 0 .. MaxPages,
                  lists : Seq(PageIDs), at : Nat]
      BY DEF TypeOK, CallType
    <3> QED BY <2>1, <3>1, <3>2
  <2>3. Len(ck'.lists) = Len(ck.lists) + 1
    BY <1>6, <2>2, AppendProperties DEF PageLists
  <2>4. nextPage <= ck'.next /\ ck'.free = <<>>
    BY <1>5, <1>6, <1>12, <2>2
  <2>5. Len(ck'.free) + Len(ck'.lists) = Len(free) + (ck'.next - nextPage)
    <3>1. Len(ck'.free) = Len(ck.free) /\ ck'.next = ck.next + 1
      BY <2>2
    <3> QED BY <1>8, <1>10, <2>3, <3>1, Zenon
  <2> QED BY <1>4, <1>7, <2>3, <2>4, <2>5 DEF RoomInv
<1> QED BY <1>12, <1>11

LEMMA RoomStep ==
  ASSUME TypeOK, RoomInv, [Next]_vars
  PROVE  RoomInv'
<1>1. ASSUME pc' # "ckTake" PROVE RoomInv'
  BY <1>1 DEF RoomInv
<1>2. ASSUME NoStore("down") \/ NoStore("refused") \/ CheckpointFails(TRUE) \/ CheckpointFails(FALSE)
      PROVE  RoomInv'
  BY <1>1, <1>2 DEF NoStore, CheckpointFails
<1>3. CASE ClientStep
  <2>1. CASE \/ \E id \in PageIDs : SetRoot(id) \/ Free(id)
             \/ \E id \in PageIDs, v \in Values : Write(id, v)
             \/ AllocateReused \/ AllocateNew \/ Sync
    <3>1. pc' = "idle"
      BY <2>1 DEF SetRoot, Free, Write, AllocateReused, AllocateNew, Sync, usable, callVars
    <3> QED BY <3>1, <1>1
  <2>2. CASE Checkpoint \/ Close \/ Discard \/ OpenBlank
    BY <2>2, <1>1, <1>2 DEF Checkpoint, Close, Discard, OpenBlank, StartCheckpoint
  <2>3. CASE OpenLoad
    BY <2>3, <1>1 DEF OpenLoad
  <2> QED BY <1>3, <2>1, <2>2, <2>3 DEF ClientStep
<1>4. CASE CkSync
  <2>1. CASE /\ ck' = [free |-> free, next |-> nextPage, file |-> filePages,
                       lists |-> <<>>, at |-> 0]
             /\ UNCHANGED memVars
    <3>1. UNCHANGED <<free, nextPage>> /\ nextPage \in Nat /\ Len(free) \in Nat
      BY <2>1, LenProperties DEF memVars, TypeOK, MemType
    <3>2. ck'.next = nextPage /\ ck'.free = free /\ Len(ck'.lists) = 0
      BY <2>1, EmptyList
    <3> QED BY <3>1, <3>2 DEF RoomInv
  <2> QED BY <1>2, <1>4, <2>1 DEF CkSync
<1>5. CASE CkTake
  <2>1. CASE pc' = "ckTake"
    BY <1>5, <2>1, TakeRoom
  <2> QED BY <1>1, <2>1
<1>6. CASE CkTaken \/ CkList \/ CkListSync \/ CkMeta \/ CkMetaSync
  BY <1>1, <1>2, <1>6
  DEF CkTaken, CkList, CkListSync, CkMeta, CkMetaSync, AfterListPage, Adopt
<1>7. CASE WalkPage \/ WalkDone \/ LdMeta \/ LdSync \/ Parent
  BY <1>1, <1>2, <1>7 DEF WalkPage, WalkDone, LdMeta, LdSync, Parent
<1>8. CASE Kill \/ PowerCut
  BY <1>2, <1>8 DEF Kill, PowerCut
<1>9. CASE (\E p \in PageIDs : Evict(p)) \/ UNCHANGED vars
  <2>1. UNCHANGED <<memVars, pc, ck>>
    BY <1>9 DEF Evict, vars, callVars
  <2> QED BY <2>1 DEF RoomInv, Left, memVars
<1> QED BY <1>3, <1>4, <1>5, <1>6, <1>7, <1>8, <1>9 DEF Next, StoreStep, World

\* The step that gives up without a failed I/O call is CkTake's, with no free page
\* left and the file at its largest.
LEMMA GivesUpAtTheEnd ==
  ASSUME TypeOK, IInv, [Next]_vars,
         pc = "ckTake", pc' \in {"idle", "down"}, trouble' = trouble
  PROVE  CkTake /\ ck.free = <<>> /\ ck.next = MaxPages
<1>1. ~ Trouble
  BY DEF Trouble, TypeOK
<1>2. CkTake
  <2>1. ~ ClientStep
    BY DEF ClientStep, SetRoot, Free, Write, AllocateReused, AllocateNew, Sync, usable,
           Checkpoint, Close, Discard, OpenBlank, OpenLoad
  <2>2. ~ World /\ ~ UNCHANGED vars
    BY <1>1 DEF World, Kill, PowerCut, Evict, vars, callVars
  <2>3. ~ (\/ CkSync \/ CkTaken \/ CkList \/ CkListSync \/ CkMeta \/ CkMetaSync
           \/ WalkPage \/ WalkDone \/ LdMeta \/ LdSync \/ Parent)
    BY DEF CkSync, CkTaken, CkList, CkListSync, CkMeta, CkMetaSync,
           WalkPage, WalkDone, LdMeta, LdSync, Parent
  <2> QED BY <2>1, <2>2, <2>3 DEF Next, StoreStep
<1>3. ck.free = <<>> /\ (ck.next >= MaxPages \/ CkSize <= ck.next)
  BY <1>1, <1>2 DEF CkTake
<1>4. ck.next \in 1 .. MaxPages /\ ck.file \in ck.next .. MaxPages
  BY TakenPages DEF CkPcs
<1>5. ck.next = MaxPages
  BY <1>3, <1>4, ChunkAssumption DEF CkSize, growTo
<1> QED BY <1>2, <1>3, <1>5

\* A checkpoint that gives up with no I/O failed could not have had room: no number of
\* pages it might have taken holds the list that would have been left.
THEOREM FullIsRightly == Spec => FullOnlyWhenFull
<1>1. Init => RoomInv
  BY DEF Init, NoStoreInit, RoomInv
<1>2. TypeOK /\ RoomInv /\ [Next]_vars => RoomInv'
  BY RoomStep
<1>3. ASSUME TypeOK, IInv, RoomInv, [Next]_vars
      PROVE  [pc = "ckTake" /\ pc' \in {"idle", "down"} /\ trouble' = trouble =>
                \A k \in 0 .. Len(free) + (MaxPages - nextPage) :
                  LET left == IF k < Len(free) THEN Len(free) - k ELSE 0 IN
                  left + Len(pending) + Len(listPage) > k * FreeListCapacity]_vars
  <2>1. SUFFICES ASSUME pc = "ckTake", pc' \in {"idle", "down"}, trouble' = trouble,
                        NEW k \in 0 .. Len(free) + (MaxPages - nextPage)
                 PROVE  Left(k) > k * FreeListCapacity
    BY DEF Left
  <2>2. CkTake /\ ck.free = <<>> /\ ck.next = MaxPages
    BY <1>3, <2>1, GivesUpAtTheEnd
  <2>3. Left(Len(ck.lists)) > Len(ck.lists) * FreeListCapacity
    BY <1>3, <2>1, <2>2, CountType, LeftIsCount, PagesForBounds DEF CkTake
  <2>4. Len(ck.lists) \in Nat /\ Len(free) \in Nat /\ nextPage \in Nat /\ Len(ck.free) = 0
    BY <1>3, <2>2, LenProperties, EmptyList DEF TypeOK, MemType, CallType
  <2>5. Len(ck.lists) = Len(free) + (MaxPages - nextPage)
    BY <1>3, <2>1, <2>2, <2>4 DEF RoomInv
  <2>6. k \in 0 .. Len(ck.lists) - 1 \/ k = Len(ck.lists)
    BY <2>1, <2>4, <2>5
  <2> QED BY <1>3, <2>1, <2>3, <2>6 DEF RoomInv
<1> QED BY <1>1, <1>2, <1>3, TypeCorrect, InvariantHolds, PTL DEF Spec, FullOnlyWhenFull

-----------------------------------------------------------------------------
(* The abstract state. *)

\* The abstract store writes an empty function as an empty sequence.
LEMMA NoData ==
  /\ [p \in {} |-> Zero] = <<>>
  /\ Blank = Durable!Blank /\ NoDoubt = Durable!NoDoubt
<1>1. [p \in {} |-> Zero] = <<>>
  <2> DEFINE f == [p \in {} |-> Zero]
  <2>1. f \in Seq({Zero}) /\ Len(f) = 0
    <3>1. f \in [1 .. 0 -> {Zero}]
      OBVIOUS
    <3> HIDE DEF f
    <3> QED BY <3>1, SeqDef, LenProperties
  <2> HIDE DEF f
  <2>2. f = <<>>
    BY <2>1, EmptySeq
  <2> QED BY <2>2 DEF f
<1>2. Blank = Durable!Blank
  BY <1>1 DEF Blank, Durable!Blank, Durable!NoPage
<1> QED BY <1>1, <1>2 DEF NoDoubt, Durable!NoDoubt

\* The client's work, when the store is working.
Work ==
  IF Working
  THEN [root |-> root, held |-> OwnedPages, data |-> [p \in OwnedPages |-> cache[p]]]
  ELSE [root |-> NoPage, held |-> {-1}, data |-> <<>>]

LEMMA RefinesInit ==
  ASSUME Init
  PROVE  Durable!Init
BY NoData DEF Init, NoStoreInit, Working, Durable!Init, Durable!NoWork, Durable!NoPage

-----------------------------------------------------------------------------
(* What pages hold. *)

ClientPage(p) == {cache[p], drive[p]} \cup pend[p] \subseteq ClientContents

\* A page of the client's stays one.
Fits(p) == ClientPage(p) => ClientPage(p)'

LEMMA ClientKinds ==
  /\ None \notin ClientContents /\ Zero \notin ClientContents
  /\ Torn \in ClientContents /\ UserPage(Fresh) \in ClientContents
  /\ \A v \in Values : UserPage(v) \in ClientContents
BY DEF None, Zero, Torn, UserPage, ClientContents

\* Nothing a drive does by itself puts anything new on a page, but for tearing it.
LEMMA SettledFits ==
  ASSUME TypeOK,
         \/ UNCHANGED diskVars
         \/ DiskSync \/ DiskSyncFails \/ DiskPowerCut
         \/ \E p \in PageIDs : DiskEvict(p)
  PROVE  \A p \in PageIDs : Fits(p)
<1>1. CASE UNCHANGED diskVars
  BY <1>1 DEF diskVars, Fits, ClientPage
<1>2. CASE DiskSync \/ DiskSyncFails \/ DiskPowerCut
  <2>1. PICK land : Settles(land)
    BY <1>2, DiskSettles
  <2>2. ASSUME NEW p \in PageIDs, ClientPage(p) PROVE ClientPage(p)'
    <3>1. land[p] \in ClientContents
      <4>1. Landing(p) \subseteq ClientContents
        BY <2>2, ClientKinds DEF Landing, ClientPage
      <4> QED BY <2>1, <2>2, <4>1 DEF Settles, ClientPage
    <3>2. drive'[p] = land[p]
      BY <2>1, <3>1, ClientKinds, FillHolesPages DEF Settles
    <3>3. pend'[p] = {} /\ (cache'[p] = cache[p] \/ cache'[p] = drive'[p])
      BY <2>1 DEF Settles
    <3> QED BY <2>2, <3>1, <3>2, <3>3 DEF ClientPage
  <2> QED BY <2>2 DEF Fits
<1>3. CASE \E p \in PageIDs : DiskEvict(p)
  <2>1. PICK q \in PageIDs : DiskEvict(q)
    BY <1>3
  <2>2. /\ drive' = drive /\ pend' = pend
        /\ \A p \in PageIDs : cache'[p] = IF p = q THEN OnDrive(q) ELSE cache[p]
    BY <2>1 DEF DiskEvict, TypeOK, DiskType
  <2>3. ASSUME NEW p \in PageIDs, ClientPage(p) PROVE ClientPage(p)'
    <3>1. OnDrive(p) = drive[p]
      BY <2>3, ClientKinds DEF ClientPage, OnDrive
    <3> QED BY <2>2, <2>3, <3>1 DEF ClientPage
  <2> QED BY <2>3 DEF Fits
<1> QED BY <1>1, <1>2, <1>3

\* Nor does a write, of other pages or of what a client may write.
LEMMA WrittenFits ==
  ASSUME NEW p \in PageIDs, NEW zeroed, NEW written, NEW c, DiskWrite(zeroed, written, c),
         p \notin zeroed, p \in written => c \in ClientContents
  PROVE  Fits(p) /\ (p \notin written => cache'[p] = cache[p])
BY DEF DiskWrite, Fits, ClientPage

LEMMA WriteFailsFits ==
  ASSUME NEW p \in PageIDs, NEW zeroed, NEW q, NEW c, DiskWriteFails(zeroed, q, c),
         p \notin zeroed, p = q => c \in ClientContents
  PROVE  Fits(p) /\ (p # q => cache'[p] = cache[p])
<1>1. PICK written \in {{}, {q}} : DiskWrite(zeroed, written, IF q = MetaPage THEN c ELSE Torn)
  BY DEF DiskWriteFails
<1>2. p \in written => (IF q = MetaPage THEN c ELSE Torn) \in ClientContents
  BY <1>1, ClientKinds
<1> QED BY <1>1, <1>2, WrittenFits

-----------------------------------------------------------------------------
(* Steps the abstract store does not see, or sees as the loss of the work. *)

\* What each step has to show.
Implements == ContentsInv' /\ (Durable!Next \/ UNCHANGED Durable!vars)

\* The work is what it was.
Kept ==
  /\ Live /\ ~ poisoned /\ (Working' => Working)
  /\ UNCHANGED <<root, held>>
  /\ \A p \in held : cache'[p] = cache[p]

\* There is nothing for the abstract store to see: the checkpoints are what they
\* were, and the client's work is gone or is what it was.
Unseen ==
  /\ UNCHANGED <<saved, doubt, clobbered>>
  /\ \A p \in saved.held \cup doubt.held : Fits(p)
  /\ Live' /\ ~ poisoned' => (held' = {} /\ ~ Working') \/ Kept

LEMMA WorkingIsLive ==
  /\ Working => Live /\ ~ poisoned
  /\ Working' => Live' /\ ~ poisoned'
BY DEF Working, Live, CkPcs

\* The client's work.
LEMMA WorkIs ==
  ASSUME IInv, Working
  PROVE  Work = [root |-> root, held |-> held, data |-> [p \in held |-> cache[p]]]
BY WorkingIsLive DEF IInv, ListsInv, Work

LEMMA WorkBecomes ==
  ASSUME IInv', Working'
  PROVE  Work' = [root |-> root', held |-> held', data |-> [p \in held' |-> cache'[p]]]
BY WorkingIsLive DEF IInv, ListsInv, Work

LEMMA NoWorkIs ==
  /\ ~ Working => Work = Durable!NoWork
  /\ ~ Working' => Work' = Durable!NoWork
  /\ HistType /\ IInv /\ Working => Work # Durable!NoWork
<1>1. ~ Working => Work = Durable!NoWork
  BY DEF Work, Durable!NoWork, Durable!NoPage, NoPage
<1>2. ~ Working' => Work' = Durable!NoWork
  BY DEF Work, Durable!NoWork, Durable!NoPage, NoPage
<1>3. ASSUME HistType, IInv, Working PROVE Work # Durable!NoWork
  <2>1. Work.held = held /\ Durable!NoWork.held = {-1}
    BY <1>3, WorkIs DEF Durable!NoWork
  <2>2. -1 \notin held
    BY <1>3, MaxPagesAssumption DEF HistType
  <2> QED BY <2>1, <2>2
<1> QED BY <1>1, <1>2, <1>3

LEMMA ContentsKept ==
  ASSUME ContentsInv, UNCHANGED <<saved, doubt>>,
         \A p \in saved.held \cup doubt.held : Fits(p),
         Live' /\ ~ poisoned' => \A p \in held' : cache'[p] \in ClientContents
  PROVE  ContentsInv'
BY DEF ContentsInv, IsSnapshot, Fits, ClientPage

LEMMA UnseenStep ==
  ASSUME TypeOK, IInv, IInv', ContentsInv, Unseen
  PROVE  Implements
<1>1. ContentsInv'
  BY ContentsKept DEF Unseen, Kept, ContentsInv
<1>2. CASE ~ Working'
  <2>1. Work' = Durable!NoWork
    BY <1>2, NoWorkIs
  <2>2. Durable!Lose
    BY <2>1 DEF Unseen, Durable!Lose, Work
  <2> QED BY <1>1, <2>2 DEF Implements, Durable!Next
<1>3. CASE Working'
  <2>1. Kept /\ Working
    BY <1>3, WorkingIsLive DEF Unseen, Kept
  <2>2. Work' = Work
    BY <1>3, <2>1, WorkIs, WorkBecomes DEF Kept
  <2> QED BY <1>1, <2>2 DEF Unseen, Implements, Durable!vars, Work
<1> QED BY <1>2, <1>3

\* Pages of the checkpoints lie within the file and are not the meta page.
LEMMA CheckpointPages ==
  ASSUME TypeOK, IInv, NEW p \in saved.held \cup doubt.held
  PROVE  p \in PageIDs /\ p # MetaPage
BY DEF TypeOK, HistType, IInv, DriveInv, SnapshotInv

\* A step that leaves the process without an open store.
LEMMA EndUnseen ==
  ASSUME TypeOK, IInv, UNCHANGED <<saved, doubt, clobbered>>, ~ Live',
         \/ UNCHANGED diskVars
         \/ DiskSync \/ DiskSyncFails \/ DiskPowerCut
         \/ \E p \in PageIDs : DiskEvict(p)
  PROVE  Unseen
BY SettledFits, CheckpointPages DEF Unseen

LEMMA NoStoreIsNotLive ==
  ASSUME NoStore("down") \/ NoStore("refused")
  PROVE  ~ Live' /\ held' = {} /\ ~ Working'
BY DEF NoStore, Live, CkPcs, Working

LEMMA DownUnseen ==
  ASSUME TypeOK, IInv,
         \/ Discard \/ Kill \/ PowerCut
         \/ OpenLoad \/ WalkPage \/ WalkDone
  PROVE  Unseen
<1>1. CASE Discard \/ Kill \/ PowerCut
  BY <1>1, EndUnseen, NoStoreIsNotLive DEF Discard, Kill, PowerCut
<1>2. CASE OpenLoad
  <2>1. pc' \in {"walk", "refused"}
    BY <1>2 DEF OpenLoad
  <2> QED BY <1>2, <2>1, EndUnseen DEF OpenLoad, histVars, Live, CkPcs
<1>3. CASE WalkPage
  <2>1. NoStore("refused") \/ pc' = "walk"
    BY <1>3 DEF WalkPage
  <2>2. ~ Live'
    BY <2>1, NoStoreIsNotLive DEF Live, CkPcs
  <2> QED BY <1>3, <2>2, EndUnseen DEF WalkPage
<1>4. CASE WalkDone
  <2>1. NoStore("refused") \/ pc' = "ldMeta"
    BY <1>4 DEF WalkDone
  <2>2. ~ Live'
    BY <2>1, NoStoreIsNotLive DEF Live, CkPcs
  <2> QED BY <1>4, <2>2, EndUnseen DEF WalkDone
<1> QED BY <1>1, <1>2, <1>3, <1>4

LEMMA LdMetaUnseen ==
  ASSUME TypeOK, IInv, LdMeta
  PROVE  Unseen
<1>1. ASSUME NEW p \in saved.held \cup doubt.held PROVE Fits(p)
  BY <1>1, CheckpointPages, WrittenFits, WriteFailsFits DEF LdMeta
<1>2. pc' = "ldSync" \/ NoStore("down")
  BY DEF LdMeta
<1>3. ~ Live'
  BY <1>2, NoStoreIsNotLive DEF Live, CkPcs
<1> QED BY <1>1, <1>3 DEF LdMeta, Unseen

LEMMA OpenBlankUnseen ==
  ASSUME TypeOK, IInv, OpenBlank
  PROVE  Unseen
<1>1. PICK some \in 0 .. ChunkPages : DiskWrite(NewPages(0, some), {}, Zero)
  BY ChunkAssumption DEF OpenBlank
<1>2. saved = Blank /\ UNCHANGED <<saved, doubt, clobbered>>
  BY <1>1, BlankWritten DEF OpenBlank
<1>3. saved.held = {} /\ doubt.held = {}
  BY <1>2 DEF IInv, DriveInv, BlankInv, NoDoubt, FirstSnapshot, Blank
<1>4. CASE NoStore("down")
  BY <1>2, <1>3, <1>4, NoStoreIsNotLive DEF Unseen
<1>5. CASE StartCheckpoint("create") /\ UNCHANGED held
  <2>1. held = {}
    BY DEF OpenBlank, IInv, DownInv, NotRefused
  <2> QED BY <1>2, <1>3, <1>5, <2>1 DEF Unseen, Working, StartCheckpoint
<1> QED BY <1>4, <1>5 DEF OpenBlank

-----------------------------------------------------------------------------
(* Steps of an open store that the abstract store does not see. *)

\* A step that writes nothing, and drops nothing from the cache.
LEMMA QuietUnseen ==
  ASSUME TypeOK, IInv, UNCHANGED <<saved, doubt, clobbered>>,
         UNCHANGED diskVars \/ DiskSync \/ DiskSyncFails,
         Live' /\ ~ poisoned' =>
           Live /\ ~ poisoned /\ (Working' => Working) /\ UNCHANGED <<root, held>>
  PROVE  Unseen
<1>1. cache' = cache
  BY SyncReads DEF diskVars
<1> QED BY <1>1, SettledFits, CheckpointPages DEF Unseen, Kept

\* A checkpoint that fails leaves the client's work alone, or takes it all.
LEMMA FailKeeps ==
  ASSUME TypeOK, IInv, pc \in {"ckSync"} \cup CkPcs, NEW b, CheckpointFails(b)
  PROVE  Live' /\ ~ poisoned' =>
           Live /\ ~ poisoned /\ (Working' => Working) /\ UNCHANGED <<root, held>>
<1>1. Live /\ ~ poisoned
  BY CallState
<1>2. CASE caller = "client"
  BY <1>1, <1>2 DEF CheckpointFails, Working, CkPcs
<1>3. CASE caller # "client"
  BY <1>3, NoStoreIsNotLive DEF CheckpointFails
<1> QED BY <1>2, <1>3

LEMMA CallsUnseen ==
  ASSUME TypeOK, IInv, Sync \/ Checkpoint \/ Close
  PROVE  Unseen
<1>1. CASE Sync
  <2>1. pc = "idle" /\ poisoned = FALSE /\ Live /\ caller # "create"
    BY <1>1, UsableState DEF Sync
  <2> QED BY <1>1, <2>1, QuietUnseen DEF Sync, histVars, callVars, Working
<1>2. CASE Checkpoint
  <2>1. pc = "idle" /\ poisoned = FALSE /\ Live /\ caller # "create"
    BY <1>2, UsableState DEF Checkpoint
  <2> QED BY <1>2, <2>1, QuietUnseen DEF Checkpoint, histVars, memVars, Working, StartCheckpoint
<1>3. CASE Close /\ ~ poisoned /\ dirty
  <2>1. pc = "idle" /\ poisoned = FALSE /\ Live /\ caller # "create"
    BY <1>3, UsableState DEF Close, usable
  <2> QED BY <1>3, <2>1, QuietUnseen DEF Close, memVars, Working, StartCheckpoint
<1>4. CASE Close /\ ~ (~ poisoned /\ dirty)
  BY <1>4, EndUnseen, NoStoreIsNotLive DEF Close
<1> QED BY <1>1, <1>2, <1>3, <1>4

LEMMA FsyncUnseen ==
  ASSUME TypeOK, IInv, CkSync \/ CkTaken \/ CkListSync
  PROVE  Unseen
<1>1. pc \in {"ckSync"} \cup CkPcs /\ UNCHANGED <<saved, doubt, clobbered>>
      /\ (UNCHANGED diskVars \/ DiskSync \/ DiskSyncFails)
  BY DEF CkSync, CkTaken, CkListSync, CkPcs, histVars
<1>2. CASE \E b : CheckpointFails(b)
  BY <1>1, <1>2, FailKeeps, QuietUnseen
<1>3. CASE UNCHANGED <<memVars, held, caller>>
  <2>1. Live /\ ~ poisoned
    BY <1>1, CallState
  <2> QED BY <1>1, <1>3, <2>1, QuietUnseen DEF memVars, Working, CkPcs
<1> QED BY <1>2, <1>3 DEF CkSync, CkTaken, CkListSync, histVars

LEMMA CkMetaSyncFailsUnseen ==
  ASSUME TypeOK, IInv, pc = "ckMetaSync", DiskSyncFails, CheckpointFails(TRUE),
         UNCHANGED <<saved, doubt, clobbered>>
  PROVE  Unseen
BY FailKeeps, QuietUnseen DEF CkPcs

\* What a store has to write to of its own is no page of the client's, nor of a
\* checkpoint's.
LEMMA OwnPages ==
  ASSUME TypeOK, IInv, Live, caller # "create", poisoned = FALSE, pc # "ckMetaSync",
         NEW p \in PageIDs, p \in Range(free) \/ p >= nextPage
  PROVE  p \notin held /\ p \notin saved.held \cup doubt.held
<1>1. PICK E \in PageLists :
           /\ Range(free) \subseteq Range(E) /\ durable.next <= nextPage
           /\ \A q \in saved.held : /\ q # MetaPage /\ q < durable.next
                                    /\ q \notin Range(listPage) \cup Range(E)
           /\ doubt = NoDoubt
  BY LastCheckpoint
<1>2. durable.next \in Nat /\ nextPage \in Nat /\ p \in Nat
  BY PagesInFile DEF TypeOK, MemType, MetaRecord
<1>3. doubt.held = {}
  BY <1>1 DEF NoDoubt, Blank
<1>4. CASE p \in Range(free)
  BY <1>1, <1>3, <1>4, HeldPages
<1>5. CASE p >= nextPage
  <2>1. ~ (p < nextPage) /\ ~ (p < durable.next)
    BY <1>1, <1>2, <1>5
  <2> QED BY <1>1, <1>3, <2>1, HeldPages
<1> QED BY <1>4, <1>5

\* A step that writes such pages only.
LEMMA OwnWriteUnseen ==
  ASSUME TypeOK, IInv, Live, caller # "create", poisoned = FALSE, pc # "ckMetaSync",
         UNCHANGED <<saved, doubt, clobbered>>,
         \A p \in PageIDs : ~ (p \in Range(free) \/ p >= nextPage) => Fits(p) /\ cache'[p] = cache[p],
         Live' /\ ~ poisoned' =>
           Live /\ ~ poisoned /\ (Working' => Working) /\ UNCHANGED <<root, held>>
  PROVE  Unseen
<1>1. \A p \in saved.held \cup doubt.held : Fits(p)
  BY CheckpointPages, OwnPages
<1>2. \A p \in held : cache'[p] = cache[p]
  BY HeldPages, OwnPages
<1> QED BY <1>1, <1>2 DEF Unseen, Kept

LEMMA CkTakeUnseen ==
  ASSUME TypeOK, IInv, CkTake
  PROVE  Unseen
<1>1. pc = "ckTake" /\ UNCHANGED <<saved, doubt, clobbered>> /\ caller # "create"
  BY NothingToTake DEF CkTake
<1>2. pc \in CkPcs /\ Live /\ poisoned = FALSE /\ pc # "ckMetaSync"
  BY <1>1, CallState DEF CkPcs
<1>3. \/ UNCHANGED <<memVars, held, pc, caller>>
      \/ CheckpointFails(FALSE)
  BY DEF CkTake
<1>4. Live' /\ ~ poisoned' =>
        Live /\ ~ poisoned /\ (Working' => Working) /\ UNCHANGED <<root, held>>
  <2>1. CASE UNCHANGED <<memVars, held, pc, caller>>
    BY <1>2, <2>1 DEF memVars, Working
  <2> QED BY <1>2, <1>3, <2>1, FailKeeps
<1>5. \/ UNCHANGED diskVars
      \/ \E some : DiskWrite(NewPages(ck.file, some), {}, Zero)
  BY DEF CkTake
<1>6. CASE UNCHANGED diskVars
  BY <1>1, <1>4, <1>6, QuietUnseen
<1>7. CASE \E some : DiskWrite(NewPages(ck.file, some), {}, Zero)
  <2>1. PICK some : DiskWrite(NewPages(ck.file, some), {}, Zero)
    BY <1>7
  <2>2. \A p \in NewPages(ck.file, some) : p >= nextPage
    BY <1>2, TakenPages DEF NewPages
  <2>3. ASSUME NEW p \in PageIDs, ~ (p \in Range(free) \/ p >= nextPage)
        PROVE  Fits(p) /\ cache'[p] = cache[p]
    BY <2>1, <2>2, <2>3, WrittenFits
  <2> QED BY <1>1, <1>2, <1>4, <2>3, OwnWriteUnseen
<1> QED BY <1>5, <1>6, <1>7

LEMMA CkListUnseen ==
  ASSUME TypeOK, IInv, CkList
  PROVE  Unseen
<1> DEFINE id == ck.lists[ck.at + 1]
<1>1. pc = "ckList" /\ UNCHANGED <<saved, doubt, clobbered>>
  BY DEF CkList
<1>2. pc \in CkPcs /\ Live /\ poisoned = FALSE /\ pc # "ckMetaSync"
  BY <1>1, CallState DEF CkPcs
<1>3. id \in PageIDs /\ (id \in Range(free) \/ id >= nextPage) /\ ck.lists # <<>>
  BY <1>1, ListPageToWrite
<1>4. caller # "create"
  BY <1>2, <1>3, CreateState
<1>5. \/ UNCHANGED <<memVars, held, caller>> /\ pc' \in CkPcs
      \/ CheckpointFails(FALSE)
  BY DEF CkList, AfterListPage, CkPcs
<1>6. Live' /\ ~ poisoned' =>
        Live /\ ~ poisoned /\ (Working' => Working) /\ UNCHANGED <<root, held>>
  <2>1. CASE UNCHANGED <<memVars, held, caller>>
    BY <1>2, <2>1 DEF memVars, Working, CkPcs
  <2> QED BY <1>2, <1>5, <2>1, FailKeeps
<1>7. \E page : DiskWrite({}, {id}, page) \/ DiskWriteFails({}, id, page)
  BY DEF CkList
<1>8. ASSUME NEW p \in PageIDs, ~ (p \in Range(free) \/ p >= nextPage)
      PROVE  Fits(p) /\ cache'[p] = cache[p]
  <2>1. p # id
    BY <1>3, <1>8
  <2> HIDE DEF id
  <2> QED BY <1>7, <2>1, WrittenFits, WriteFailsFits
<1> QED BY <1>1, <1>2, <1>4, <1>6, <1>8, OwnWriteUnseen

\* A failing allocation.
LEMMA AllocateFailsUnseen ==
  ASSUME TypeOK, IInv, AllocateReused \/ AllocateNew, UNCHANGED held
  PROVE  Unseen
<1>1. usable /\ UNCHANGED <<saved, doubt, clobbered>> /\ UNCHANGED <<callVars, root, poisoned>>
  BY DEF AllocateReused, AllocateNew
<1>2. pc = "idle" /\ poisoned = FALSE /\ Live /\ caller # "create" /\ pc # "ckMetaSync"
  BY <1>1, UsableState
<1>3. Live' /\ ~ poisoned' =>
        Live /\ ~ poisoned /\ (Working' => Working) /\ UNCHANGED <<root, held>>
  BY <1>1, <1>2 DEF callVars, Working
<1>4. ASSUME NEW p \in PageIDs, ~ (p \in Range(free) \/ p >= nextPage)
      PROVE  Fits(p) /\ cache'[p] = cache[p]
  <2>1. CASE AllocateReused
    <3>1. free \in PageLists /\ free # <<>> /\ Distinct(free)
      BY <1>2, <2>1 DEF AllocateReused, TypeOK, MemType, PageLists, IInv, ListsInv
    <3>2. p # Last(free)
      BY <1>4, <3>1, FrontLast
    <3> QED BY <2>1, <3>2, WrittenFits, WriteFailsFits DEF AllocateReused
  <2>2. CASE AllocateNew
    <3>1. \E to, c : \/ DiskWrite(NewPages(filePages, to), {nextPage}, c)
                     \/ DiskWrite(NewPages(filePages, to), {}, Zero)
                     \/ DiskWriteFails(NewPages(filePages, to), nextPage, c)
      BY <2>2 DEF AllocateNew
    <3>2. nextPage \in 1 .. MaxPages /\ filePages \in nextPage .. MaxPages
      BY <1>2, PagesInFile
    <3>3. \A to : p \notin NewPages(filePages, to)
      BY <1>4, <3>2 DEF NewPages
    <3>4. p # nextPage
      BY <1>4, <3>2
    <3> QED BY <3>1, <3>3, <3>4, WrittenFits, WriteFailsFits
  <2> QED BY <2>1, <2>2
<1> QED BY <1>1, <1>2, <1>3, <1>4, OwnWriteUnseen

-----------------------------------------------------------------------------
(* The client's calls. *)

\* What the abstract store's client can do is open to a client of an open store.
LEMMA ClientWorks ==
  ASSUME TypeOK, IInv, IInv', usable, UNCHANGED <<callVars, poisoned>>
  PROVE  /\ Working /\ Working' /\ Live /\ Work # Durable!NoWork
         /\ Work = [root |-> root, held |-> held, data |-> [p \in held |-> cache[p]]]
         /\ Work' = [root |-> root', held |-> held', data |-> [p \in held' |-> cache'[p]]]
         /\ held \subseteq PageIDs /\ MetaPage \notin held
<1>1. pc = "idle" /\ poisoned = FALSE /\ Live /\ caller # "create"
  BY UsableState
<1>2. Working /\ Working'
  BY <1>1 DEF Working, callVars
<1> QED BY <1>1, <1>2, WorkIs, WorkBecomes, NoWorkIs, HeldPages DEF TypeOK

\* Work with other pages.
WithPages(w, h, d) == [w EXCEPT !.held = h, !.data = d]

LEMMA OtherPages ==
  ASSUME NEW r, NEW h, NEW d, NEW h2, NEW d2
  PROVE  WithPages([root |-> r, held |-> h, data |-> d], h2, d2)
           = [root |-> r, held |-> h2, data |-> d2]
<1>1. PICK w : w = [root |-> r, held |-> h, data |-> d]
  OBVIOUS
<1>2. [w EXCEPT !.held = h2] = [root |-> r, held |-> h2, data |-> d]
  BY <1>1
<1>3. PICK u : u = [root |-> r, held |-> h2, data |-> d]
  OBVIOUS
<1>4. [u EXCEPT !.data = d2] = [root |-> r, held |-> h2, data |-> d2]
  BY <1>3
<1>5. [w EXCEPT !.held = h2, !.data = d2] = [[w EXCEPT !.held = h2] EXCEPT !.data = d2]
  OBVIOUS
<1> QED BY <1>1, <1>2, <1>3, <1>4, <1>5 DEF WithPages

\* The same for a store that is given by its parts.
WorkOf(r, h, d) == [root |-> r, held |-> h, data |-> d]

LEMMA MovedPages ==
  \A r, h, d, h2, d2 : WithPages(WorkOf(r, h, d), h2, d2) = WorkOf(r, h2, d2)
BY OtherPages DEF WorkOf

LEMMA SetRootImplements ==
  ASSUME TypeOK, IInv, IInv', ContentsInv, NEW id \in PageIDs, SetRoot(id)
  PROVE  Implements
<1>1. /\ usable /\ UNCHANGED <<diskVars, callVars, poisoned, held, saved, doubt, clobbered>>
      /\ root' = id /\ (id # NoPage => owned(id))
  BY DEF SetRoot, histVars
<1>2. /\ Live /\ Work # Durable!NoWork
      /\ Work = [root |-> root, held |-> held, data |-> [p \in held |-> cache[p]]]
      /\ Work' = [root |-> root', held |-> held', data |-> [p \in held' |-> cache'[p]]]
  BY <1>1, ClientWorks
<1>3. ContentsInv'
  BY <1>1, <1>2, ContentsKept, SettledFits, CheckpointPages DEF ContentsInv, diskVars
<1>4. id \in held \cup {NoPage}
  BY <1>1, <1>2, HeldPages
<1>5. Work' = [Work EXCEPT !.root = id] /\ id \in Work.held \cup {NoPage}
  BY <1>1, <1>2, <1>4 DEF diskVars
<1>6. Durable!SetRoot(id)
  BY <1>1, <1>2, <1>5 DEF Durable!SetRoot, Durable!Works, Durable!NoPage, NoPage, Work
<1> QED BY <1>3, <1>6 DEF Implements, Durable!Next, Durable!NoPage

LEMMA FreeImplements ==
  ASSUME TypeOK, IInv, IInv', ContentsInv, NEW id \in PageIDs, Free(id)
  PROVE  Implements
<1>1. /\ usable /\ UNCHANGED <<diskVars, callVars, root, poisoned, saved, doubt, clobbered>>
      /\ held' = held \ {id} /\ owned(id) /\ id # root
  BY DEF Free
<1>2. /\ Live /\ Work # Durable!NoWork
      /\ Work = [root |-> root, held |-> held, data |-> [p \in held |-> cache[p]]]
      /\ Work' = [root |-> root', held |-> held', data |-> [p \in held' |-> cache'[p]]]
      /\ MetaPage \notin held
  BY <1>1, ClientWorks
<1>3. ContentsInv'
  BY <1>1, <1>2, ContentsKept, SettledFits, CheckpointPages DEF ContentsInv, diskVars
<1>4. id \in held
  BY <1>1, <1>2, HeldPages
<1>5. Work' = [Work EXCEPT !.held = @ \ {id},
                           !.data = [q \in Work.held \ {id} |-> Work.data[q]]]
  <2>1. [p \in held' |-> cache'[p]] = [q \in Work.held \ {id} |-> Work.data[q]]
    BY <1>1, <1>2 DEF diskVars
  <2>2. Work.held \ {id} = held'
    BY <1>1, <1>2
  <2>3. Work' = [root |-> root, held |-> Work.held \ {id},
                 data |-> [q \in Work.held \ {id} |-> Work.data[q]]]
    BY <1>1, <1>2, <2>1, <2>2
  <2>4. Work' = WithPages(Work, Work.held \ {id}, [q \in Work.held \ {id} |-> Work.data[q]])
    BY <1>2, <2>3, OtherPages
  <2> QED BY <2>4 DEF WithPages
<1>6. id \in Work.held \ {Work.root}
  BY <1>1, <1>2, <1>4
<1>7. Durable!Free(id)
  BY <1>1, <1>2, <1>5, <1>6 DEF Durable!Free, Durable!Works, Work
<1> QED BY <1>2, <1>3, <1>4, <1>7 DEF Implements, Durable!Next

LEMMA WriteImplements ==
  ASSUME TypeOK, IInv, IInv', ContentsInv, NEW id \in PageIDs, NEW v \in Values, Write(id, v)
  PROVE  Implements
<1>1. /\ usable /\ UNCHANGED <<callVars, root, poisoned, held, saved, doubt>>
      /\ owned(id) /\ clobbered' = clobbered \cup ({id} \cap saved.held)
      /\ DiskWrite({}, {id}, UserPage(v)) \/ DiskWriteFails({}, id, UserPage(v))
  BY DEF Write, Overwritten
<1>2. /\ Live /\ Work # Durable!NoWork
      /\ Work = [root |-> root, held |-> held, data |-> [p \in held |-> cache[p]]]
      /\ Work' = [root |-> root', held |-> held', data |-> [p \in held' |-> cache'[p]]]
      /\ held \subseteq PageIDs /\ MetaPage \notin held
  BY <1>1, ClientWorks
<1>3. id \in held /\ id # MetaPage
  BY <1>1, <1>2, HeldPages
<1>4. \A p \in PageIDs : Fits(p) /\ (p # id => cache'[p] = cache[p])
  BY <1>1, ClientKinds, WrittenFits, WriteFailsFits
<1>5. cache'[id] \in {UserPage(v), Torn, cache[id]}
  <2>1. \A written, c : DiskWrite({}, written, c) => cache'[id] \in {c, cache[id]}
    BY DEF DiskWrite
  <2> QED BY <1>1, <1>3, <2>1 DEF DiskWriteFails
<1>6. ContentsInv'
  <2>1. Live' /\ ~ poisoned' => \A p \in held' : cache'[p] \in ClientContents
    BY <1>1, <1>2, <1>4, <1>5, ClientKinds, UsableState DEF ContentsInv
  <2> QED BY <1>1, <1>4, <2>1, ContentsKept, CheckpointPages
<1>7. Work' = [Work EXCEPT !.data[id] = cache'[id]]
  BY <1>1, <1>2, <1>3, <1>4
<1>8. cache'[id] \in {UserPage(w) : w \in Values} \cup {Torn, Work.data[id]} /\ id \in Work.held
  BY <1>2, <1>3, <1>5
<1>9. Durable!Write(id)
  BY <1>1, <1>2, <1>7, <1>8 DEF Durable!Write, Durable!Works, Work
<1> QED BY <1>3, <1>6, <1>9 DEF Implements, Durable!Next

\* The abstract store hands out the page that the store puts on the client's side.
LEMMA HandsOut ==
  ASSUME TypeOK, IInv, IInv', ContentsInv, usable, NEW id \in PageIDs \ {MetaPage},
         id \in Range(free) \/ id >= nextPage,
         UNCHANGED <<callVars, root, poisoned, saved, doubt, clobbered>>,
         held' = held \cup {id}, cache'[id] = UserPage(Fresh),
         \A p \in PageIDs : ~ (p \in Range(free) \/ p >= nextPage) => Fits(p) /\ cache'[p] = cache[p]
  PROVE  Implements
<1>1. /\ Live /\ Work # Durable!NoWork
      /\ Work = [root |-> root, held |-> held, data |-> [p \in held |-> cache[p]]]
      /\ Work' = [root |-> root', held |-> held', data |-> [p \in held' |-> cache'[p]]]
      /\ held \subseteq PageIDs
  BY ClientWorks
<1>2. pc = "idle" /\ poisoned = FALSE /\ caller # "create" /\ pc # "ckMetaSync"
  BY UsableState
<1>3. \A p \in saved.held \cup doubt.held : Fits(p)
  BY <1>1, <1>2, CheckpointPages, OwnPages
<1>4. \A p \in held : cache'[p] = cache[p]
  BY <1>1, <1>2, OwnPages
<1>5. id \notin held \cup saved.held
  BY <1>1, <1>2, OwnPages
<1>6. ContentsInv'
  BY <1>1, <1>2, <1>3, <1>4, ClientKinds, ContentsKept DEF ContentsInv
<1>7. Work' = [Work EXCEPT !.held = @ \cup {id},
                           !.data = [q \in Work.held \cup {id} |->
                                       IF q = id THEN UserPage(Fresh) ELSE Work.data[q]]]
  <2>1. PICK data : data = [q \in Work.held \cup {id} |->
                             IF q = id THEN UserPage(Fresh) ELSE Work.data[q]]
    OBVIOUS
  <2>2. Work.held \cup {id} = held' /\ \A q \in held : Work.data[q] = cache[q]
    BY <1>1
  <2>3. [p \in held' |-> cache'[p]] = data
    BY <1>4, <1>5, <2>1, <2>2
  <2>4. Work' = [root |-> root, held |-> Work.held \cup {id}, data |-> data]
    BY <1>1, <2>2, <2>3
  <2>5. PICK r, w, u, d, d2, h, h2 :
          /\ w = Work /\ u = Work' /\ h2 = Work.held \cup {id} /\ d2 = data
          /\ w = WorkOf(r, h, d) /\ u = WorkOf(r, h2, d2)
    BY <1>1, <2>4 DEF WorkOf
  <2>6. u = WithPages(w, h2, d2)
    <3>1. WithPages(WorkOf(r, h, d), h2, d2) = WorkOf(r, h2, d2)
      BY MovedPages
    <3> QED BY <2>5, <3>1, Zenon
  <2> QED BY <2>1, <2>5, <2>6, Zenon DEF WithPages
<1>8. id \notin Work.held \cup saved.held
  BY <1>1, <1>5
<1>9. Durable!Allocate(id)
  BY <1>1, <1>7, <1>8 DEF Durable!Allocate, Durable!Works, Work
<1> QED BY <1>6, <1>9 DEF Implements, Durable!Next

LEMMA AllocateReusedImplements ==
  ASSUME TypeOK, IInv, IInv', ContentsInv, AllocateReused
  PROVE  Implements
<1>1. CASE UNCHANGED held
  BY <1>1, AllocateFailsUnseen, UnseenStep
<1>2. CASE ~ UNCHANGED held
  <2>1. /\ usable /\ free # <<>>
        /\ DiskWrite({}, {Last(free)}, UserPage(Fresh)) /\ held' = held \cup {Last(free)}
        /\ UNCHANGED <<callVars, root, poisoned, saved, doubt, clobbered>>
    BY <1>2 DEF AllocateReused
  <2>2. Live /\ free \in PageLists /\ Distinct(free)
    BY <2>1, UsableState DEF TypeOK, MemType, PageLists, IInv, ListsInv
  <2>3. PICK id : id = Last(free)
    OBVIOUS
  <2>4. id \in PageIDs /\ id \in Range(free) /\ id # MetaPage
    BY <2>1, <2>2, <2>3, FrontLast DEF IInv, ListsInv
  <2>5. cache'[id] = UserPage(Fresh)
    BY <2>1, <2>3, <2>4 DEF DiskWrite
  <2>6. ASSUME NEW p \in PageIDs, ~ (p \in Range(free) \/ p >= nextPage)
        PROVE  Fits(p) /\ cache'[p] = cache[p]
    BY <2>1, <2>3, <2>4, <2>6, WrittenFits
  <2> QED BY <2>1, <2>3, <2>4, <2>5, <2>6, HandsOut
<1> QED BY <1>1, <1>2

LEMMA AllocateNewImplements ==
  ASSUME TypeOK, IInv, IInv', ContentsInv, AllocateNew
  PROVE  Implements
<1>1. CASE UNCHANGED held
  BY <1>1, AllocateFailsUnseen, UnseenStep
<1>2. CASE ~ UNCHANGED held
  <2>1. /\ usable
        /\ \E to : DiskWrite(NewPages(filePages, to), {nextPage}, UserPage(Fresh))
        /\ held' = held \cup {nextPage} /\ nextPage < MaxPages
        /\ UNCHANGED <<callVars, root, poisoned, saved, doubt, clobbered>>
    BY <1>2 DEF AllocateNew
  <2>2. nextPage \in 1 .. MaxPages /\ filePages \in nextPage .. MaxPages
    BY <2>1, UsableState, PagesInFile
  <2>3. PICK to : DiskWrite(NewPages(filePages, to), {nextPage}, UserPage(Fresh))
    BY <2>1
  <2>4. nextPage \in PageIDs /\ nextPage # MetaPage /\ nextPage >= nextPage
    BY <2>1, <2>2
  <2>5. cache'[nextPage] = UserPage(Fresh)
    BY <2>3, <2>4 DEF DiskWrite
  <2>6. ASSUME NEW p \in PageIDs, ~ (p \in Range(free) \/ p >= nextPage)
        PROVE  Fits(p) /\ cache'[p] = cache[p]
    <3>1. p \notin NewPages(filePages, to) /\ p # nextPage
      BY <2>2, <2>6 DEF NewPages
    <3> QED BY <2>3, <3>1, WrittenFits
  <2>7. PICK id : id = nextPage
    OBVIOUS
  <2> QED BY <2>1, <2>4, <2>5, <2>6, <2>7, HandsOut
<1> QED BY <1>1, <1>2

-----------------------------------------------------------------------------
(* The commit point of a checkpoint. *)

\* While a checkpoint is under way the client's pages are settled, and its own.
LEMMA ClientPages ==
  ASSUME TypeOK, IInv, ContentsInv, pc \in CkPcs, NEW p \in held
  PROVE  ClientPage(p) /\ p \in PageIDs /\ p # MetaPage
<1>1. Live /\ poisoned = FALSE
  BY CallState
<1>2. p \in PageIDs /\ p # MetaPage
  BY <1>1, HeldPages
<1>3. cache[p] \in ClientContents /\ pend[p] = {}
  BY <1>1 DEF ContentsInv, IInv, TakeInv
<1>4. CASE p \in clobbered
  BY <1>2, <1>4 DEF IInv, DriveInv, SnapshotInv, ContentsInv, ClientPage
<1>5. CASE p \notin clobbered
  <2>1. drive[p] = cache[p]
    BY <1>1, <1>3, <1>5 DEF IInv, CleanInv
  <2> QED BY <1>2, <1>3, <2>1 DEF ClientPage
<1> QED BY <1>4, <1>5

LEMMA CkMetaContents ==
  ASSUME TypeOK, IInv, ContentsInv, CkMeta
  PROVE  /\ ContentsInv' /\ held \subseteq PageIDs
         /\ \A p \in held : cache'[p] = cache[p]
<1>1. /\ pc \in CkPcs /\ doubt' = Snapshot(durable.checkpoint + 1)
      /\ saved' = saved
      /\ DiskWrite({}, {MetaPage}, NextMeta) \/ DiskWriteFails({}, MetaPage, NextMeta)
      /\ held' = held \/ held' = {}
  BY NoStoreIsNotLive DEF CkMeta, CkPcs, CheckpointFails
<1>2. Live /\ poisoned = FALSE
  BY <1>1, CallState
<1>3. \A p \in PageIDs \ {MetaPage} : Fits(p) /\ cache'[p] = cache[p]
  BY <1>1, WrittenFits, WriteFailsFits
<1>4. /\ doubt'.held = held /\ doubt'.data = [p \in held |-> cache[p]]
      /\ doubt' = [checkpoint |-> durable.checkpoint + 1, root |-> root, held |-> held,
                   data |-> [p \in held |-> cache[p]]]
  BY <1>1 DEF Snapshot
<1>5. IsSnapshot(saved)' /\ IsSnapshot(doubt)'
  <2>1. [p \in held |-> cache[p]] \in [held -> ClientContents]
    BY <1>2 DEF ContentsInv
  <2>2. doubt'.checkpoint = durable.checkpoint + 1 /\ doubt'.root = root
    BY <1>4
  <2> QED BY <1>1, <1>4, <2>1, <2>2 DEF IsSnapshot, ContentsInv
<1>6. ASSUME NEW p \in saved'.held \cup doubt'.held PROVE ClientPage(p)'
  <2>1. CASE p \in saved.held
    BY <1>3, <2>1, CheckpointPages DEF ContentsInv, Fits, ClientPage
  <2>2. CASE p \in held
    BY <1>1, <1>3, <2>2, ClientPages DEF Fits
  <2> QED BY <1>1, <1>4, <1>6, <2>1, <2>2
<1>7. \A p \in held : cache'[p] = cache[p] /\ cache[p] \in ClientContents
  BY <1>1, <1>2, <1>3, ClientPages DEF ContentsInv
<1>8. Live' /\ ~ poisoned' => \A p \in held' : cache'[p] \in ClientContents
  BY <1>1, <1>7
<1>9. held \subseteq PageIDs
  BY DEF TypeOK, HistType
<1> QED BY <1>5, <1>6, <1>7, <1>8, <1>9 DEF ContentsInv, ClientPage

LEMMA FirstIs ==
  [Durable!Blank EXCEPT !.checkpoint = 1]
    = [checkpoint |-> 1, root |-> NoPage, held |-> {}, data |-> <<>>]
<1>1. PICK b, d : b = Durable!Blank /\ d = <<>>
  OBVIOUS
<1>2. b = [checkpoint |-> 0, root |-> NoPage, held |-> {}, data |-> d]
  BY <1>1 DEF Durable!Blank, Durable!NoPage, NoPage
<1>3. [b EXCEPT !.checkpoint = 1] = [checkpoint |-> 1, root |-> NoPage, held |-> {}, data |-> d]
  BY <1>2
<1> QED BY <1>1, <1>3

LEMMA CkMetaImplements ==
  ASSUME TypeOK, IInv, IInv', ContentsInv, CkMeta
  PROVE  Implements
<1>1. /\ pc \in CkPcs /\ pc = "ckMeta" /\ doubt' = Snapshot(durable.checkpoint + 1)
      /\ UNCHANGED <<saved, clobbered>>
      /\ \/ pc' = "ckMetaSync" /\ UNCHANGED <<memVars, held, caller>>
         \/ CheckpointFails(TRUE)
  BY DEF CkMeta, CkPcs
<1>2. Live /\ poisoned = FALSE
  BY <1>1, CallState
<1>3. ContentsInv' /\ \A p \in held : cache'[p] = cache[p]
  BY CkMetaContents
<1>4. doubt' = [checkpoint |-> durable.checkpoint + 1, root |-> root, held |-> held,
                data |-> [p \in held |-> cache[p]]]
  BY <1>1 DEF Snapshot
<1>5. CASE caller = "create"
  <2>1. durable = NoMeta /\ held = {} /\ root = NoPage /\ saved = Blank
    BY <1>2, <1>5, CreateState
  <2>2. durable.checkpoint + 1 = 1
    BY <2>1 DEF NoMeta, Meta
  <2>3. [p \in held |-> cache[p]] = <<>>
    <3>1. [p \in {} |-> cache[p]] = [p \in {} |-> Zero]
      OBVIOUS
    <3> QED BY <2>1, <3>1, NoData
  <2>4. doubt' = [checkpoint |-> 1, root |-> NoPage, held |-> {}, data |-> <<>>]
    BY <1>4, <2>1, <2>2, <2>3
  <2>5. doubt' = [Durable!Blank EXCEPT !.checkpoint = 1]
    BY <2>4, FirstIs
  <2>6. ~ Working /\ ~ Working'
    BY <1>1, <1>5, NoStoreIsNotLive DEF Working, CheckpointFails
  <2>7. Work = Durable!NoWork /\ Work' = Work
    BY <2>6, NoWorkIs
  <2>8. Durable!Initialise
    BY <1>1, <2>1, <2>5, <2>7, NoData DEF Durable!Initialise, Durable!Works, Work
  <2> QED BY <1>3, <2>8 DEF Implements, Durable!Next
<1>6. CASE caller # "create"
  <2>1. Working
    BY <1>1, <1>2, <1>6 DEF Working
  <2>2. /\ Work # Durable!NoWork
        /\ Work = [root |-> root, held |-> held, data |-> [p \in held |-> cache[p]]]
    BY <2>1, WorkIs, NoWorkIs DEF TypeOK
  <2>3. saved.checkpoint = durable.checkpoint
    BY <1>2, <1>6, LastCheckpoint
  <2>4. doubt' = [checkpoint |-> saved.checkpoint + 1, root |-> Work.root, held |-> Work.held,
                  data |-> Work.data]
    BY <1>4, <2>2, <2>3
  <2>5. Work' \in {Work, Durable!NoWork}
    <3>1. CASE Working'
      <4>1. UNCHANGED <<root, held>>
        BY <1>1, <3>1, NoStoreIsNotLive DEF CheckpointFails, memVars
      <4>2. Work' = Work
        BY <1>3, <2>2, <3>1, <4>1, WorkBecomes
      <4> QED BY <4>2
    <3>2. CASE ~ Working'
      BY <3>2, NoWorkIs
    <3> QED BY <3>1, <3>2
  <2>6. Durable!Announce
    BY <1>1, <2>2, <2>4, <2>5 DEF Durable!Announce, Durable!Works, Durable!Snapshot, Work
  <2> QED BY <1>3, <2>6 DEF Implements, Durable!Next
<1> QED BY <1>5, <1>6

\* Contents that differ in loose pages only are versions of each other.
LEMMA VersionsAre ==
  ASSUME NEW H, NEW a \in [H -> ClientContents], NEW b \in [H -> ClientContents],
         \A p \in H \ clobbered : a[p] = b[p]
  PROVE  a \in Durable!Versions(b)
<1> DEFINE other == [p \in clobbered |-> IF p \in H THEN a[p] ELSE Torn]
<1>1. other \in [clobbered -> ClientContents]
  BY ClientKinds
<1>2. a = [p \in DOMAIN b |-> IF p \in clobbered THEN other[p] ELSE b[p]]
  OBVIOUS
<1> HIDE DEF other
<1> QED BY <1>1, <1>2 DEF Durable!Versions, ClientContents

LEMMA NoDoubtIsSnapshot ==
  ASSUME doubt' = NoDoubt
  PROVE  IsSnapshot(doubt)' /\ doubt'.held = {}
<1>1. PICK d : d = [p \in {} |-> Zero]
  OBVIOUS
<1>2. Blank = [checkpoint |-> 0, root |-> NoPage, held |-> {}, data |-> d]
  BY <1>1 DEF Blank
<1>3. NoDoubt = [checkpoint |-> -1, root |-> NoPage, held |-> {}, data |-> d]
  BY <1>2 DEF NoDoubt
<1>4. d \in [{} -> ClientContents]
  BY <1>1
<1> QED BY <1>3, <1>4 DEF IsSnapshot

LEMMA CkMetaSyncContents ==
  ASSUME TypeOK, IInv, ContentsInv, CkMetaSync, saved' = doubt, doubt' = NoDoubt, DiskSync,
         held' = held \/ held' = {}
  PROVE  ContentsInv'
<1>1. pc \in CkPcs /\ Live /\ poisoned = FALSE
  BY CallState DEF CkMetaSync, CkPcs
<1>2. IsSnapshot(saved)' /\ IsSnapshot(doubt)' /\ doubt'.held = {}
  BY NoDoubtIsSnapshot DEF ContentsInv, IsSnapshot
<1>3. \A p \in saved'.held \cup doubt'.held : ClientPage(p)'
  BY <1>2, SettledFits, CheckpointPages DEF Fits, ClientPage, ContentsInv
<1>4. Live' /\ ~ poisoned' => \A p \in held' : cache'[p] \in ClientContents
  BY <1>1, SyncReads DEF ContentsInv
<1> QED BY <1>2, <1>3, <1>4 DEF ContentsInv, ClientPage

\* What is in doubt while the meta page is on its way is the client's work.
LEMMA DoubtIsWork ==
  ASSUME TypeOK, IInv, ContentsInv, pc = "ckMetaSync"
  PROVE  /\ doubt = [checkpoint |-> durable.checkpoint + 1, root |-> root, held |-> held,
                     data |-> doubt.data]
         /\ doubt.data \in Durable!Versions([p \in held |-> cache[p]])
<1>1. Live /\ poisoned = FALSE
  BY CallState DEF CkPcs
<1>2. doubt.checkpoint = durable.checkpoint + 1 /\ doubt.root = root /\ doubt.held = held
  BY DEF IInv, CommitInv
<1>3. /\ doubt = [checkpoint |-> doubt.checkpoint, root |-> doubt.root, held |-> doubt.held,
                  data |-> doubt.data]
      /\ doubt.data \in [held -> ClientContents]
  BY <1>2 DEF ContentsInv, IsSnapshot
<1>4. [p \in held |-> cache[p]] \in [held -> ClientContents]
  BY <1>1 DEF ContentsInv
<1>5. \A p \in held \ clobbered : doubt.data[p] = cache[p]
  BY <1>2 DEF IInv, DriveInv, IntactInv, Stable
<1>6. PICK H, a, b : H = held /\ a = doubt.data /\ b = [p \in held |-> cache[p]]
  OBVIOUS
<1>7. a \in Durable!Versions(b)
  <2>1. \A p \in H \ clobbered : a[p] = b[p]
    BY <1>5, <1>6
  <2> QED BY <1>3, <1>4, <1>6, <2>1, VersionsAre
<1> QED BY <1>2, <1>3, <1>6, <1>7

\* A snapshot with other contents.
WithData(s, d) == [s EXCEPT !.data = d]

LEMMA OtherData ==
  ASSUME NEW c, NEW r, NEW h, NEW d, NEW d2
  PROVE  WithData([checkpoint |-> c, root |-> r, held |-> h, data |-> d], d2)
           = [checkpoint |-> c, root |-> r, held |-> h, data |-> d2]
<1>1. PICK s : s = [checkpoint |-> c, root |-> r, held |-> h, data |-> d]
  OBVIOUS
<1>2. [s EXCEPT !.data = d2] = [checkpoint |-> c, root |-> r, held |-> h, data |-> d2]
  BY <1>1
<1> QED BY <1>1, <1>2 DEF WithData

LEMMA OtherWork ==
  ASSUME NEW r, NEW h, NEW d, NEW d2
  PROVE  WithData([root |-> r, held |-> h, data |-> d], d2) = [root |-> r, held |-> h, data |-> d2]
<1>1. PICK s : s = [root |-> r, held |-> h, data |-> d]
  OBVIOUS
<1>2. [s EXCEPT !.data = d2] = [root |-> r, held |-> h, data |-> d2]
  BY <1>1
<1> QED BY <1>1, <1>2 DEF WithData

\* The checkpoint of a client returns.
LEMMA CommitImplements ==
  ASSUME TypeOK, IInv, IInv', ContentsInv, CkMetaSync, caller # "create", DiskSync,
         saved' = doubt, doubt' = NoDoubt, StillClobbered,
         ~ Working' \/ UNCHANGED <<root, held>>
  PROVE  Durable!Commit
<1>1. Live /\ poisoned = FALSE /\ pc = "ckMetaSync"
  BY CallState DEF CkMetaSync, CkPcs
<1>2. Working
  BY <1>1 DEF Working
<1>3. /\ Work # Durable!NoWork
      /\ Work = [root |-> root, held |-> held, data |-> [p \in held |-> cache[p]]]
  BY <1>2, WorkIs, NoWorkIs DEF TypeOK
<1>4. saved.checkpoint = durable.checkpoint
  BY <1>1, LastCheckpoint
<1>5. PICK snap : snap = [checkpoint |-> saved.checkpoint + 1, root |-> Work.root,
                          held |-> Work.held, data |-> Work.data]
  OBVIOUS
<1>6. /\ doubt = WithData(snap, doubt.data)
      /\ doubt.data \in Durable!Versions(Work.data)
  <2>1. snap = [checkpoint |-> durable.checkpoint + 1, root |-> root, held |-> held,
                data |-> [p \in held |-> cache[p]]]
    BY <1>3, <1>4, <1>5
  <2>2. WithData(snap, doubt.data) = [checkpoint |-> durable.checkpoint + 1, root |-> root,
                                      held |-> held, data |-> doubt.data]
    BY <2>1, OtherData
  <2> QED BY <1>1, <1>3, <2>2, DoubtIsWork
<1>7. Work' \in {Work, Durable!NoWork}
  <2>1. CASE Working'
    BY <1>3, <2>1, WorkBecomes, SyncReads
  <2>2. CASE ~ Working'
    BY <2>2, NoWorkIs
  <2> QED BY <2>1, <2>2
<1>8. clobbered' \in SUBSET clobbered
  BY DEF StillClobbered
<1>9. doubt \in {[snap EXCEPT !.data = data] : data \in Durable!Versions(Work.data)}
  BY <1>6 DEF WithData
<1>10. snap = Durable!Snapshot
  BY <1>5 DEF Durable!Snapshot, Work
<1> QED BY <1>3, <1>7, <1>8, <1>9, <1>10, NoData DEF Durable!Commit, Durable!Works, Work

\* Nothing is loose, so a snapshot is a version of itself.
LEMMA SameVersion ==
  ASSUME NEW s, NEW d, s.data = d, IsSnapshot(s)
  PROVE  s \in {[s EXCEPT !.data = data] : data \in Durable!Versions(s.data)}
<1>1. d \in Durable!Versions(d)
  BY VersionsAre DEF IsSnapshot
<1>2. PICK c, r, h : s = [checkpoint |-> c, root |-> r, held |-> h, data |-> d]
  BY DEF IsSnapshot
<1>3. s = WithData(s, d)
  BY <1>2, OtherData
<1> QED BY <1>1, <1>3 DEF WithData

\* The first checkpoint of a new file is settled as it is made.
LEMMA CreatedImplements ==
  ASSUME TypeOK, IInv, ContentsInv, CkMetaSync, caller = "create", DiskSync,
         saved' = doubt, doubt' = NoDoubt, StillClobbered, ~ Working'
  PROVE  Durable!Settle
<1>1. ~ Working
  BY DEF Working
<1>2. Work = Durable!NoWork /\ Work' = Durable!NoWork
  BY <1>1, NoWorkIs
<1>3. doubt # NoDoubt
  <2>1. doubt.checkpoint = durable.checkpoint + 1 /\ durable.checkpoint \in Nat
    BY DEF CkMetaSync, IInv, CommitInv, TypeOK, MemType, MetaRecord
  <2>2. NoDoubt.checkpoint = -1
    BY DEF NoDoubt, Blank
  <2> QED BY <2>1, <2>2
<1>4. doubt \in {[doubt EXCEPT !.data = data] : data \in Durable!Versions(doubt.data)}
  <2>1. PICK d : d = doubt.data
    OBVIOUS
  <2>2. IsSnapshot(doubt) /\ doubt.data \in [doubt.held -> ClientContents]
    BY DEF ContentsInv, IsSnapshot
  <2>3. PICK s : s = doubt
    OBVIOUS
  <2> QED BY <2>1, <2>2, <2>3, SameVersion
<1>5. clobbered' \in SUBSET clobbered
  BY DEF StillClobbered
<1> QED BY <1>2, <1>3, <1>4, <1>5, NoData DEF Durable!Settle, Durable!Works, Work

LEMMA CkMetaSyncImplements ==
  ASSUME TypeOK, IInv, IInv', ContentsInv, CkMetaSync
  PROVE  Implements
<1>1. CASE /\ DiskSync /\ saved' = doubt /\ doubt' = NoDoubt /\ StillClobbered
           /\ IF caller = "close" THEN NoStore("down") ELSE Adopt
  <2>1. /\ caller = "create" => ~ Working'
        /\ ~ Working' \/ UNCHANGED <<root, held>>
        /\ held' = held \/ held' = {}
    BY <1>1, NoStoreIsNotLive DEF Adopt, Working
  <2>2. ContentsInv'
    BY <1>1, <2>1, CkMetaSyncContents
  <2>3. Durable!Commit \/ Durable!Settle
    BY <1>1, <2>1, CommitImplements, CreatedImplements
  <2> QED BY <2>2, <2>3 DEF Implements, Durable!Next
<1>2. CASE DiskSyncFails /\ CheckpointFails(TRUE) /\ UNCHANGED <<saved, doubt, clobbered>>
  BY <1>2, CkMetaSyncFailsUnseen, UnseenStep DEF CkMetaSync
<1> QED BY <1>1, <1>2 DEF CkMetaSync

-----------------------------------------------------------------------------
(* Opening. *)

LEMMA LdSyncImplements ==
  ASSUME TypeOK, IInv, IInv', ContentsInv, LdSync
  PROVE  Implements
<1>1. pc = "ldSync" /\ ~ Working
  BY DEF LdSync, Working
<1>2. PICK m, s, L, E :
        /\ m = durable /\ s \in {saved, doubt} /\ L = listPage /\ E = free
        /\ L \in PageLists /\ E \in PageLists /\ Backs(m, s, L, E)
  BY <1>1, LoadState
<1>3. CASE DiskSyncFails /\ NoStore("down") /\ UNCHANGED <<saved, doubt, clobbered>>
  BY <1>3, NoStoreIsNotLive, EndUnseen, UnseenStep
<1>4. CASE /\ DiskSync /\ pc' = "parent" /\ held' = Recovered.held
           /\ saved' = [checkpoint |-> Recovered.checkpoint, root |-> Recovered.root,
                        held |-> Recovered.held,
                        data |-> [p \in Recovered.held |-> cache[p]]]
           /\ doubt' = NoDoubt /\ StillClobbered
  <2>1. Recovered = s
    BY <1>2, RecoveredIs
  <2>2. PICK data : data = [p \in s.held |-> cache[p]]
    OBVIOUS
  <2>3. /\ saved' = [checkpoint |-> s.checkpoint, root |-> s.root, held |-> s.held, data |-> data]
        /\ held' = s.held
    BY <1>4, <2>1, <2>2
  <2>4. IsSnapshot(s)
    BY <1>2 DEF ContentsInv
  <2>5. s.held \subseteq saved.held \cup doubt.held /\ s.held \subseteq PageIDs
    BY <1>2 DEF TypeOK, HistType
  <2>6. data \in [s.held -> ClientContents]
    BY <2>2, <2>5 DEF ContentsInv
  <2>7. data \in Durable!Versions(s.data)
    <3>1. \A p \in s.held \ clobbered : data[p] = s.data[p]
      BY <1>2, <2>2 DEF IInv, DriveInv, IntactInv, Stable
    <3>2. PICK H, b : H = s.held /\ b = s.data
      OBVIOUS
    <3> QED BY <2>4, <2>6, <3>1, <3>2, VersionsAre DEF IsSnapshot
  <2>8. s # NoDoubt
    <3>1. s.checkpoint \in Nat
      BY <1>2 DEF Backs, Accounts, MetaRecord
    <3> QED BY <3>1 DEF NoDoubt, Blank
  <2>9. saved' \in {[s EXCEPT !.data = d] : d \in Durable!Versions(s.data)}
    <3>1. PICK c, r, h, d : s = [checkpoint |-> c, root |-> r, held |-> h, data |-> d]
      BY <2>4 DEF IsSnapshot
    <3>2. s.checkpoint = c /\ s.root = r /\ s.held = h
      BY <3>1
    <3>3. saved' = WithData(s, data)
      BY <2>3, <3>1, <3>2, OtherData
    <3> QED BY <2>7, <3>3 DEF WithData
  <2>10. Work = Durable!NoWork /\ Work' = Durable!NoWork /\ clobbered' \in SUBSET clobbered
    BY <1>1, <1>4, NoWorkIs DEF Working, StillClobbered
  <2>11. Durable!Settle
    BY <1>2, <1>4, <2>8, <2>9, <2>10, NoData DEF Durable!Settle, Durable!Works, Work
  <2>12. IsSnapshot(saved)' /\ IsSnapshot(doubt)' /\ doubt'.held = {}
    <3>1. /\ saved'.checkpoint = s.checkpoint /\ saved'.root = s.root
          /\ saved'.held = s.held /\ saved'.data = data
      BY <2>3
    <3> QED BY <1>4, <2>3, <2>6, <3>1, NoDoubtIsSnapshot DEF IsSnapshot
  <2>13. \A p \in s.held : ClientPage(p)'
    BY <1>4, <2>5, SettledFits DEF ContentsInv, Fits, ClientPage
  <2>14. saved'.held = s.held
    BY <2>3
  <2>15. ContentsInv'
    BY <2>3, <2>12, <2>13, <2>14 DEF ContentsInv, ClientPage
  <2> QED BY <2>11, <2>15 DEF Implements, Durable!Next
<1> QED BY <1>3, <1>4 DEF LdSync

LEMMA ParentImplements ==
  ASSUME TypeOK, IInv, IInv', ContentsInv, Parent
  PROVE  Implements
<1>1. CASE NoStore("down")
  BY <1>1, NoStoreIsNotLive, EndUnseen, UnseenStep DEF Parent
<1>2. CASE pc' = "idle" /\ UNCHANGED <<memVars, caller, held>>
  <2>1. pc = "parent" /\ UNCHANGED <<diskVars, saved, doubt, clobbered>> /\ Live /\ ~ Working
    BY DEF Parent, Live, Working
  <2>2. caller # "create" /\ poisoned = FALSE
    BY <2>1 DEF IInv, BaseInv, NeverPoisonedInCall, TypeOK, MemType
  <2>3. doubt = NoDoubt /\ saved # Blank
    BY <2>1, <2>2, LastCheckpoint
  <2>4. root = saved.root /\ held = saved.held
    BY <2>1 DEF IInv, ParentInv
  <2>5. Working'
    BY <1>2, <2>2 DEF Working, memVars
  <2>6. PICK data : data = [p \in held |-> cache[p]]
    OBVIOUS
  <2>7. Work' = [root |-> saved.root, held |-> saved.held, data |-> data]
    BY <1>2, <2>1, <2>4, <2>5, <2>6, WorkBecomes DEF memVars, diskVars
  <2>8. data \in Durable!Versions(saved.data)
    <3>1. \A p \in held \ clobbered : data[p] = saved.data[p]
      BY <2>4, <2>6 DEF IInv, DriveInv, IntactInv, Stable
    <3>2. data \in [held -> ClientContents]
      BY <2>4, <2>6 DEF ContentsInv
    <3>3. PICK b : b = saved.data
      OBVIOUS
    <3> QED BY <2>4, <3>1, <3>2, <3>3, VersionsAre DEF ContentsInv, IsSnapshot
  <2>9. Work = Durable!NoWork
    BY <2>1, NoWorkIs
  <2>10. Durable!Open
    BY <2>1, <2>3, <2>7, <2>8, <2>9, NoData DEF Durable!Open, Durable!Works, Work
  <2>11. ContentsInv'
    BY <1>2, <2>1, <2>2, ContentsKept, SettledFits, CheckpointPages DEF ContentsInv, diskVars
  <2> QED BY <2>10, <2>11 DEF Implements, Durable!Next
<1> QED BY <1>1, <1>2 DEF Parent

-----------------------------------------------------------------------------
(* Nobody's step. *)

LEMMA IdleImplements ==
  ASSUME TypeOK, IInv, IInv', ContentsInv, UNCHANGED <<memVars, callVars, histVars>>,
         UNCHANGED diskVars \/ \E p \in PageIDs : DiskEvict(p)
  PROVE  Implements
<1>1. /\ UNCHANGED <<root, held, poisoned, pc, caller, saved, doubt, clobbered>>
      /\ (Working' <=> Working) /\ (Live' <=> Live)
  BY DEF memVars, callVars, histVars, Working, Live
<1>2. \A p \in PageIDs : Fits(p)
  BY SettledFits
<1>3. ASSUME Live, ~ poisoned, NEW p \in held
      PROVE  /\ cache'[p] \in ClientContents
             /\ p \notin clobbered => cache'[p] = cache[p]
  <2>1. p \in PageIDs
    BY DEF TypeOK, HistType
  <2>2. CASE p \in clobbered
    BY <1>2, <2>1, <2>2 DEF IInv, DriveInv, SnapshotInv, ContentsInv, Fits, ClientPage
  <2>3. CASE p \notin clobbered
    <3>1. pend[p] # {} \/ drive[p] = cache[p]
      BY <1>3, <2>3 DEF IInv, CleanInv
    <3>2. cache'[p] = cache[p]
      BY <2>1, <3>1, EvictDrops DEF DropsOnly
    <3> QED BY <1>3, <3>2 DEF ContentsInv
  <2> QED BY <2>2, <2>3
<1>4. ContentsInv'
  BY <1>1, <1>2, <1>3, ContentsKept, CheckpointPages
<1>5. CASE ~ Working
  <2>1. Work' = Work
    BY <1>1, <1>5, NoWorkIs
  <2> QED BY <1>1, <1>4, <2>1 DEF Implements, Durable!vars, Work
<1>6. CASE Working
  <2>1. Live /\ ~ poisoned
    BY <1>6, WorkingIsLive
  <2>2. PICK before, after : before = [p \in held |-> cache[p]] /\ after = [p \in held |-> cache'[p]]
    OBVIOUS
  <2>3. Work = [root |-> root, held |-> held, data |-> before] /\ Work # Durable!NoWork
    BY <1>6, <2>2, WorkIs, NoWorkIs DEF TypeOK
  <2>4. Work' = [root |-> root, held |-> held, data |-> after]
    BY <1>1, <1>6, <2>2, WorkBecomes
  <2>5. after \in Durable!Versions(before)
    <3>1. before \in [held -> ClientContents] /\ after \in [held -> ClientContents]
      BY <1>3, <2>1, <2>2 DEF ContentsInv
    <3>2. \A p \in held \ clobbered : after[p] = before[p]
      BY <1>3, <2>1, <2>2
    <3>3. PICK H : H = held
      OBVIOUS
    <3> QED BY <3>1, <3>2, <3>3, VersionsAre
  <2>6. Work' = WithData(Work, after) /\ Work.data = before
    BY <2>3, <2>4, OtherWork
  <2>7. Work' \in {[Work EXCEPT !.data = data] : data \in Durable!Versions(Work.data)}
    BY <2>5, <2>6 DEF WithData
  <2>8. Durable!Waver
    BY <1>1, <2>3, <2>7 DEF Durable!Waver, Durable!Works, Work
  <2> QED BY <1>4, <2>8 DEF Implements, Durable!Next
<1> QED BY <1>5, <1>6

-----------------------------------------------------------------------------
(* All steps. *)

LEMMA ContentsInit ==
  ASSUME Init
  PROVE  ContentsInv
<1>1. PICK d : d = [p \in {} |-> Zero]
  OBVIOUS
<1>2. Blank = [checkpoint |-> 0, root |-> NoPage, held |-> {}, data |-> d]
  BY <1>1 DEF Blank
<1>3. NoDoubt = [checkpoint |-> -1, root |-> NoPage, held |-> {}, data |-> d]
  BY <1>2 DEF NoDoubt
<1>4. d \in [{} -> ClientContents]
  BY <1>1
<1> QED BY <1>2, <1>3, <1>4 DEF Init, NoStoreInit, ContentsInv, IsSnapshot

LEMMA StepImplements ==
  ASSUME TypeOK, IInv, IInv', ContentsInv, [Next]_vars
  PROVE  Implements
<1>1. CASE \E id \in PageIDs : SetRoot(id) \/ Free(id)
  BY <1>1, SetRootImplements, FreeImplements
<1>2. CASE \E id \in PageIDs, v \in Values : Write(id, v)
  BY <1>2, WriteImplements
<1>3. CASE AllocateReused \/ AllocateNew
  BY <1>3, AllocateReusedImplements, AllocateNewImplements
<1>4. CASE Sync \/ Checkpoint \/ Close \/ Discard
  BY <1>4, CallsUnseen, DownUnseen, UnseenStep
<1>5. CASE OpenBlank \/ OpenLoad
  BY <1>5, OpenBlankUnseen, DownUnseen, UnseenStep
<1>6. CASE CkSync \/ CkTake \/ CkTaken \/ CkList \/ CkListSync
  BY <1>6, FsyncUnseen, CkTakeUnseen, CkListUnseen, UnseenStep
<1>7. CASE CkMeta \/ CkMetaSync
  BY <1>7, CkMetaImplements, CkMetaSyncImplements
<1>8. CASE WalkPage \/ WalkDone \/ LdMeta
  BY <1>8, DownUnseen, LdMetaUnseen, UnseenStep
<1>9. CASE LdSync \/ Parent
  BY <1>9, LdSyncImplements, ParentImplements
<1>10. CASE Kill \/ PowerCut
  BY <1>10, DownUnseen, UnseenStep
<1>11. CASE \E p \in PageIDs : Evict(p)
  BY <1>11, IdleImplements DEF Evict
<1>12. CASE UNCHANGED vars
  BY <1>12, IdleImplements DEF vars
<1> QED BY <1>1, <1>2, <1>3, <1>4, <1>5, <1>6, <1>7, <1>8, <1>9, <1>10, <1>11, <1>12
        DEF Next, ClientStep, StoreStep, World

\* The page store implements the abstract store, which has no file, no free list and
\* no order of writes: whatever calls, failed I/O, kills, power cuts and evictions do,
\* the client's work, the checkpoint it falls back to and the one in doubt change as
\* they do there.  What a page holds is part of it: a file reopens with the pages of a
\* checkpoint as they were when it was made.
THEOREM StoreIsDurable == Spec => ImplementsDurable
<1>1. Init => ContentsInv /\ Durable!Init
  BY ContentsInit, RefinesInit
<1>2. TypeOK /\ IInv /\ IInv' /\ ContentsInv /\ [Next]_vars
        => ContentsInv' /\ [Durable!Next]_(Durable!vars)
  BY StepImplements DEF Implements
<1> QED BY <1>1, <1>2, TypeCorrect, InvariantHolds, PTL DEF Spec, ImplementsDurable, Durable!Spec

=============================================================================
