---------------------------- MODULE PageStoreInv ----------------------------
(***************************************************************************)
(* The inductive invariant of the page store, on which the proofs of       *)
(* PageStoreProofs rest: what ties the lists in memory to what is on the   *)
(* drive, at every step of every call.                                     *)
(***************************************************************************)
EXTENDS PageStoreProps

-----------------------------------------------------------------------------
(* Checkpoints on the drive. *)

PageLists == Seq(PageIDs)

\* Neither a crash, nor an eviction, nor an fsync changes the page.
Stable(p, c) == c # None /\ cache[p] = c /\ drive[p] = c /\ pend[p] = {}

\* How many of the entries E are on the first k list pages.
Upto(E, k) == IF k * FreeListCapacity > Len(E) THEN Len(E) ELSE k * FreeListCapacity

\* The part of E that the i-th list page holds.
Slice(E, i) ==
  SubSeq(E, (i - 1) * FreeListCapacity + 1,
         IF (i - 1) * FreeListCapacity + FreeListCapacity > Len(E) THEN Len(E)
         ELSE (i - 1) * FreeListCapacity + FreeListCapacity)

ListPageOf(L, E, i) == FreeListPage(NextInList(L, i), Slice(E, i))

\* The meta record m, with its free list E on the pages L, is one Open accepts.
Accounts(m, L, E) ==
  /\ m \in MetaRecord
  /\ m.checkpoint # 0
  /\ m.next # 0 /\ m.next <= m.file /\ m.root < m.next
  /\ m.head = NextInList(L, 0)
  /\ m.count = Len(E)
  /\ Distinct(L) /\ Distinct(E)
  /\ Range(L) \cap Range(E) = {}
  /\ \A p \in Range(L) \cup Range(E) : p # MetaPage /\ p < m.next /\ p # m.root
  /\ Len(E) <= Len(L) * FreeListCapacity
  /\ \A i \in DOMAIN L : (i - 1) * FreeListCapacity <= Len(E)

\* The pages it leaves to the client.
Leftover(m, L, E) ==
  {p \in PageIDs : p # MetaPage /\ p < m.next /\ p \notin Range(L) \cup Range(E)}

Chained(L, E) == \A i \in DOMAIN L : Stable(L[i], ListPageOf(L, E, i))

\* A file with this meta record opens as the checkpoint s.
Backs(m, s, L, E) ==
  /\ Accounts(m, L, E)
  /\ Chained(L, E)
  /\ drive[m.file - 1] # None
  /\ s.checkpoint = m.checkpoint /\ s.root = m.root /\ s.held = Leftover(m, L, E)

Backed(m, s) == \E L, E \in PageLists : Backs(m, s, L, E)

Metas == {cache[MetaPage], drive[MetaPage]} \cup pend[MetaPage]

-----------------------------------------------------------------------------
(* What holds whoever runs, or if nobody does. *)

\* The file has no holes, and none of it is only on the drive.
FileInv ==
  /\ \A p \in PageIDs : None \notin pend[p]
  /\ \A p \in PageIDs : pend[p] # {} \/ drive[p] # None => cache[p] # None
  /\ \A p, q \in PageIDs : p < q /\ cache[q] # None => cache[p] # None
  /\ \A p, q \in PageIDs : p < q /\ drive[q] # None => drive[p] # None

FirstSnapshot == [Blank EXCEPT !.checkpoint = 1]

\* Until the first checkpoint has returned there is nothing but zeros past page 0,
\* and nothing at all past the first chunk.
BlankInv ==
  saved = Blank =>
    /\ clobbered = {}
    /\ doubt \in {NoDoubt, FirstSnapshot}
    /\ \A p \in PageIDs \ {MetaPage} :
         /\ {cache[p], drive[p]} \cup pend[p] \subseteq {None, Zero}
         /\ p >= ChunkPages => cache[p] = None

SnapshotInv ==
  /\ saved.checkpoint \in Nat
  /\ saved.checkpoint = 0 => saved = Blank
  /\ doubt = NoDoubt \/ doubt.checkpoint = saved.checkpoint + 1
  /\ clobbered \subseteq saved.held
  /\ MetaPage \notin saved.held \cup doubt.held

\* Whatever meta page a reopened store may find, it is that of a checkpoint that the
\* client was told of or may have to reckon with.
MetaInv ==
  \A m \in Metas :
    \/ m \in {None, Zero} /\ saved = Blank
    \/ Backed(m, saved) \/ Backed(m, doubt)

\* As CommittedIntact, and stronger: nothing is on its way to these pages.
IntactInv ==
  /\ \A p \in saved.held \ clobbered : Stable(p, saved.data[p])
  /\ \A p \in doubt.held \ clobbered : Stable(p, doubt.data[p])

DriveInv == FileInv /\ BlankInv /\ SnapshotInv /\ MetaInv /\ IntactInv

-----------------------------------------------------------------------------
(* Opening. *)

\* A process without a store, or that is reading one, has nothing in memory.
DownInv ==
  pc \in {"down", "walk"} =>
    /\ free = <<>> /\ pending = <<>> /\ listPage = <<>>
    /\ status = StatusOf(<<>>, <<>>, <<>>)
    /\ dirty = FALSE /\ poisoned = FALSE /\ caller = "client" /\ held = {}
    /\ root = NoPage
    /\ pc = "down" => durable = NoMeta

\* The walk has read the first pages of the list, and what is on them.
WalkInv ==
  pc = "walk" =>
    \E s \in {saved, doubt} : \E L, E \in PageLists :
      /\ Backs(durable, s, L, E)
      /\ Len(walk.lists) <= Len(L)
      /\ walk.lists = SubSeq(L, 1, Len(walk.lists))
      /\ walk.entries = SubSeq(E, 1, Upto(E, Len(walk.lists)))
      /\ walk.at = NextInList(L, Len(walk.lists))

LoadInv ==
  pc \in {"ldMeta", "ldSync"} =>
    /\ \E s \in {saved, doubt} : Backs(durable, s, listPage, free)
    /\ pending = <<>> /\ status = StatusOf(free, <<>>, listPage)
    /\ root = durable.root /\ nextPage = durable.next /\ filePages = durable.file
    /\ caller = "client" /\ poisoned = FALSE
    /\ pc = "ldSync" => cache[MetaPage] = durable /\ pend[MetaPage] # {}

-----------------------------------------------------------------------------
(* A store that is open, or being created. *)

CkPcs == {"ckTake", "ckList", "ckListSync", "ckMeta", "ckMetaSync"}
Live  == pc \in {"parent", "idle", "ckSync"} \cup CkPcs

\* Each page below nextPage is in one list, or the client's.
ListsInv ==
  Live =>
    /\ Distinct(free) /\ Distinct(pending) /\ Distinct(listPage)
    /\ Range(free) \cap Range(pending) = {}
    /\ Range(free) \cap Range(listPage) = {}
    /\ Range(pending) \cap Range(listPage) = {}
    /\ \A p \in Range(free) \cup Range(pending) \cup Range(listPage) : p # MetaPage /\ p < nextPage
    /\ status = StatusOf(free, pending, listPage)
    /\ nextPage # 0 /\ nextPage <= filePages
    /\ cache[filePages - 1] # None
    /\ held = OwnedPages
    /\ root = NoPage \/ root \in held

\* What it took over from the last checkpoint.
BaseInv ==
  Live =>
    IF caller = "create"
    THEN /\ saved = Blank /\ durable = NoMeta
         /\ free = <<>> /\ pending = <<>> /\ listPage = <<>> /\ nextPage = 1
         /\ pc \notin {"parent", "idle"}
         /\ pc \in CkPcs => ck.lists = <<>>
    ELSE /\ \E E \in PageLists :
              Backs(durable, saved, listPage, E) /\ Range(free) \subseteq Range(E)
         /\ durable.next <= nextPage /\ durable.file <= filePages
         /\ ~poisoned /\ pc # "ckMetaSync" => Stable(MetaPage, durable) /\ doubt = NoDoubt

\* What is not on its way to the drive is there, until an fsync has failed.
CleanInv ==
  Live /\ ~poisoned =>
    /\ \A p \in held \ clobbered : pend[p] = {} => drive[p] = cache[p]
    /\ pend[filePages - 1] = {} => drive[filePages - 1] # None

\* Between the fsync of the client's pages and the last step.
TakeInv ==
  pc \in CkPcs =>
    /\ Distinct(ck.free) /\ Distinct(ck.lists)
    /\ Range(ck.free) \cap Range(ck.lists) = {}
    /\ Range(ck.free) \subseteq Range(free)
    /\ Range(ck.free) \cup Range(ck.lists) = Range(free) \cup (nextPage .. ck.next - 1)
    /\ nextPage <= ck.next /\ ck.next <= ck.file /\ filePages <= ck.file
    /\ cache[ck.file - 1] # None
    /\ \A p \in held : pend[p] = {}
    /\ pend[ck.file - 1] = {} => drive[ck.file - 1] # None
    /\ pc = "ckTake" /\ ck.lists = <<>> => pend[ck.file - 1] = {}

\* The list pages, from the first written to the last synced.
ListInv ==
  /\ pc = "ckTake" => ck.at = 0
  /\ pc = "ckList" => ck.at < Len(ck.lists)
  /\ pc = "ckListSync" => ck.at = Len(ck.lists)
  /\ pc \in {"ckList", "ckListSync"} =>
       \A i \in 1 .. ck.at : /\ cache[ck.lists[i]] = ListPageOf(ck.lists, Entries, i)
                             /\ pend[ck.lists[i]] # {}
  /\ pc \in {"ckMeta", "ckMetaSync"} => Backs(NextMeta, Snapshot(durable.checkpoint + 1),
                                              ck.lists, Entries)

\* The meta page is on its way.
CommitInv ==
  pc = "ckMetaSync" =>
    /\ cache[MetaPage] = NextMeta /\ pend[MetaPage] # {}
    /\ doubt.checkpoint = durable.checkpoint + 1 /\ doubt.root = root /\ doubt.held = held
    /\ \A p \in held : doubt.data[p] # None /\ (drive[p] = doubt.data[p] => cache[p] = doubt.data[p])

\* What Open is about to hand over is what the file was found to hold.
ParentInv == pc = "parent" => root = saved.root /\ held = saved.held

NeverPoisonedInCall == poisoned => pc = "idle"
NotRefused == pc # "refused"

IInv ==
  /\ DriveInv
  /\ DownInv /\ WalkInv /\ LoadInv
  /\ ListsInv /\ BaseInv /\ CleanInv /\ TakeInv /\ ListInv /\ CommitInv
  /\ ParentInv /\ NeverPoisonedInCall /\ NotRefused

-----------------------------------------------------------------------------
(* What pages hold, for the abstract store. *)

\* What a page may hold once it has been handed to the client.
ClientContents == {UserPage(v) : v \in Values} \cup {UserPage(Fresh), Torn}

IsSnapshot(s) ==
  /\ s = [checkpoint |-> s.checkpoint, root |-> s.root, held |-> s.held, data |-> s.data]
  /\ s.data \in [s.held -> ClientContents]

\* Nothing of the free list, of the meta page, and no zeros, get onto the pages of a
\* checkpoint or of a client.
ContentsInv ==
  /\ IsSnapshot(saved) /\ IsSnapshot(doubt)
  /\ \A p \in saved.held \cup doubt.held : {cache[p], drive[p]} \cup pend[p] \subseteq ClientContents
  /\ Live /\ ~poisoned => \A p \in held : cache[p] \in ClientContents

=============================================================================
