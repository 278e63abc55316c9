------------------------------ MODULE PageStore ------------------------------
(***************************************************************************)
(* The page store of internal/pagestore/pagestore.go: a file of pages with *)
(* a meta page, a free list kept in pages of its own, and a checkpoint     *)
(* that turns the pages written since the last one into the state a        *)
(* reopened file shows.                                                    *)
(*                                                                         *)
(* A client call that does no more than change memory and write a page is  *)
(* one action.  Checkpoint and Open, whose order of writes and fsyncs is   *)
(* the point, are taken one I/O at a time: pc says which comes next, and a *)
(* kill, a power cut or an eviction may come between any two.              *)
(*                                                                         *)
(* Left out: the wording of errors, the counters of Stats, page kinds and  *)
(* the slot's own copy of its page id (every write goes to the slot of the *)
(* id in the page, so the copy is wrong only in a page of zeros or a torn  *)
(* one, which the kind tells).                                             *)
(***************************************************************************)
EXTENDS Disk, SequencesExt

CONSTANTS
  ChunkPages,        \* pages a growing file gains at a time
  FreeListCapacity,  \* free page ids one free-list page holds
  InPlace,           \* whether the client writes over pages of the last checkpoint
  Values,            \* what a client may write to a page of its own
  Fresh,             \* what an allocated page holds before that
  MaxCheckpoint,     \* bound: no checkpoint is begun at this number
  MaxTrouble         \* bound: failed I/O calls, kills and power cuts

ASSUME ChunkAssumption    == ChunkPages \in 1 .. MaxPages
ASSUME CapacityAssumption == FreeListCapacity \in Nat \ {0}
ASSUME FreshAssumption    == Fresh \notin Values
ASSUME InPlaceAssumption  == InPlace \in BOOLEAN
ASSUME BoundsAssumption   == MaxCheckpoint \in Nat /\ MaxTrouble \in Nat

VARIABLES
  (* the Store in memory *)
  durable,    \* the meta record of the last checkpoint
  root, nextPage, filePages,
  free,       \* reusable now, taken from the end
  pending,    \* freed since the last checkpoint
  listPage,   \* the pages that hold the durable free list
  status,     \* "free", "pending", "freelist"; a page in no list is "owned"
  dirty, poisoned,
  (* the call in progress *)
  pc,         \* the I/O that comes next; "idle" between calls, "down" with no Store
  caller,     \* who runs the checkpoint in progress: "client", "close", "create"
  ck,         \* the checkpoint's local variables
  walk,       \* the local variables of Open's walk of the free list
  (* what the client has been told, for the properties *)
  held,       \* pages allocated to it and not freed
  saved,      \* what the last checkpoint that returned nil made durable
  doubt,      \* what a checkpoint whose meta page was written may have made durable
  clobbered,  \* pages of `saved` that the client has itself written over
  trouble     \* failed I/O calls, kills and power cuts so far

memVars  == <<durable, root, nextPage, filePages, free, pending, listPage,
              status, dirty, poisoned>>
callVars == <<pc, caller, ck, walk>>
histVars == <<held, saved, doubt, clobbered>>
vars     == <<diskVars, memVars, callVars, histVars, trouble>>

NoPage == 0

-----------------------------------------------------------------------------
(* The contents of pages. *)

UserPage(v) == [kind |-> "page", val |-> v]

FreeListPage(next, entries) ==
  [kind |-> "freelist", next |-> next, entries |-> entries]

Meta(rt, head, count, next, file, number) ==
  [kind |-> "meta", root |-> rt, head |-> head, count |-> count,
   next |-> next, file |-> file, checkpoint |-> number]

NoMeta == Meta(NoPage, NoPage, 0, 0, 0, 0)

Content ==
  {None, Zero, Torn}
    \cup [kind : {"page"}, val : Values \cup {Fresh}]
    \cup [kind : {"freelist"}, next : PageIDs, entries : Seq(PageIDs)]
    \cup [kind : {"meta"}, root : PageIDs, head : PageIDs, count : Nat,
          next : 0 .. MaxPages, file : 0 .. MaxPages, checkpoint : Nat]

-----------------------------------------------------------------------------
(* Page states and the arithmetic of sizes. *)

pagesFor(entries) == (entries + FreeListCapacity - 1) \div FreeListCapacity

\* Mutant: the last chunk is not cut short at the last page id.
growToUncapped(pages) == pages + ChunkPages

\* The sum is taken in 64 bits, so it is capped and never wraps.
growTo(pages) == IF pages + ChunkPages > MaxPages THEN MaxPages ELSE pages + ChunkPages

\* The pages page.File.Grow writes zeros to.
NewPages(from, to) == from .. to - 1

inRange(id) == id # MetaPage /\ id < nextPage

owned(id) == inRange(id) /\ status[id] = "owned"

StatusOf(frees, pends, lists) ==
  [p \in PageIDs |-> CASE p \in Range(frees) -> "free"
                       [] p \in Range(pends) -> "pending"
                       [] p \in Range(lists) -> "freelist"
                       [] OTHER -> "owned"]

\* Mutant: calls are let through after a failed fsync.
usablePoisoned == pc = "idle"

usable == pc = "idle" /\ ~poisoned

-----------------------------------------------------------------------------
(* Snapshots: what the client may find when it reopens the file. *)

Snapshot(number) ==
  [checkpoint |-> number, root |-> root, held |-> held,
   data |-> [p \in held |-> cache[p]]]

Blank == [checkpoint |-> 0, root |-> NoPage, held |-> {}, data |-> [p \in {} |-> Zero]]
NoDoubt == [Blank EXCEPT !.checkpoint = -1]

-----------------------------------------------------------------------------
(* No Store: what a process holds before it has opened the file. *)

NoCheckpoint == [free |-> <<>>, next |-> 0, file |-> 0, lists |-> <<>>, at |-> 0]
NoWalk == [at |-> NoPage, entries |-> <<>>, lists |-> <<>>]

NoStore(where) ==
  /\ pc' = where /\ caller' = "client" /\ ck' = NoCheckpoint /\ walk' = NoWalk
  /\ durable' = NoMeta /\ root' = NoPage /\ nextPage' = 0 /\ filePages' = 0
  /\ free' = <<>> /\ pending' = <<>> /\ listPage' = <<>>
  /\ status' = StatusOf(<<>>, <<>>, <<>>)
  /\ dirty' = FALSE /\ poisoned' = FALSE
  /\ held' = {}

NoStoreInit ==
  /\ pc = "down" /\ caller = "client" /\ ck = NoCheckpoint /\ walk = NoWalk
  /\ durable = NoMeta /\ root = NoPage /\ nextPage = 0 /\ filePages = 0
  /\ free = <<>> /\ pending = <<>> /\ listPage = <<>>
  /\ status = StatusOf(<<>>, <<>>, <<>>)
  /\ dirty = FALSE /\ poisoned = FALSE
  /\ held = {} /\ saved = Blank /\ doubt = NoDoubt /\ clobbered = {}
  /\ trouble = 0

Init == DiskInit /\ NoStoreInit

\* Every failed I/O call, kill and power cut counts against the bound.
Trouble == trouble < MaxTrouble /\ trouble' = trouble + 1

-----------------------------------------------------------------------------
(* Client calls.  A call refused by a guard changes nothing, and is no step. *)

SetRoot(id) ==
  /\ usable
  /\ id # NoPage => owned(id)
  /\ root' = id
  /\ dirty' = TRUE
  /\ UNCHANGED <<diskVars, callVars, histVars, durable, nextPage, filePages, free,
                 pending, listPage, status, poisoned, trouble>>

Overwritten(id) == clobbered' = clobbered \cup ({id} \cap saved.held)

Write(id, v) ==
  /\ usable
  /\ owned(id)
  /\ InPlace \/ id \notin saved.held
  /\ \/ /\ DiskWrite({}, {id}, UserPage(v))
        /\ dirty' = TRUE
        /\ UNCHANGED trouble
     \/ /\ Trouble
        /\ DiskWriteFails({}, id, UserPage(v))
        /\ UNCHANGED dirty
  /\ Overwritten(id)
  /\ UNCHANGED <<callVars, durable, root, nextPage, filePages, free, pending,
                 listPage, status, poisoned, held, saved, doubt>>

\* Allocate when the free list has a page: its last one.
AllocateReused ==
  /\ usable
  /\ free # <<>>
  /\ LET id == Last(free) IN
     \/ /\ DiskWrite({}, {id}, UserPage(Fresh))
        /\ free' = Front(free)
        /\ status' = [status EXCEPT ![id] = "owned"]
        /\ dirty' = TRUE
        /\ held' = held \cup {id}
        /\ UNCHANGED trouble
     \/ /\ Trouble     \* the page goes back where it was taken from
        /\ DiskWriteFails({}, id, UserPage(Fresh))
        /\ UNCHANGED <<free, status, dirty, held>>
  /\ UNCHANGED <<callVars, durable, root, nextPage, filePages, pending, listPage,
                 poisoned, saved, doubt, clobbered>>

\* Allocate when it has none: the next page never handed out, the file growing
\* first when it is full.
AllocateNew ==
  /\ usable
  /\ free = <<>>
  /\ nextPage < MaxPages     \* else ErrFull
  /\ LET full == nextPage >= filePages
         size == IF full THEN growTo(filePages) ELSE filePages
         new  == NewPages(filePages, size) IN
     /\ size > nextPage       \* else ErrFull
     /\ \/ /\ DiskWrite(new, {nextPage}, UserPage(Fresh))
           /\ nextPage' = nextPage + 1
           /\ filePages' = size
           /\ dirty' = TRUE
           /\ held' = held \cup {nextPage}
           /\ UNCHANGED trouble
        \/ /\ Trouble     \* Grow fails: some of the new pages are there
           /\ \E some \in filePages .. size - 1 :
                DiskWrite(NewPages(filePages, some), {}, Zero)
           /\ UNCHANGED <<nextPage, filePages, dirty, held>>
        \/ /\ Trouble     \* the write fails: the growth is forgotten
           /\ DiskWriteFails(new, nextPage, UserPage(Fresh))
           /\ UNCHANGED <<nextPage, filePages, dirty, held>>
  /\ UNCHANGED <<callVars, durable, root, free, pending, listPage, status,
                 poisoned, saved, doubt, clobbered>>

\* Mutant: a freed page is up for reuse before the checkpoint that frees it.
FreeAtOnce(id) ==
  /\ usable /\ owned(id) /\ id # root
  /\ free' = Append(free, id)
  /\ status' = [status EXCEPT ![id] = "free"]
  /\ dirty' = TRUE
  /\ held' = held \ {id}
  /\ UNCHANGED <<diskVars, callVars, durable, root, nextPage, filePages, pending,
                 listPage, poisoned, saved, doubt, clobbered, trouble>>

Free(id) ==
  /\ usable
  /\ owned(id)
  /\ id # root
  /\ pending' = Append(pending, id)
  /\ status' = [status EXCEPT ![id] = "pending"]
  /\ dirty' = TRUE
  /\ held' = held \ {id}
  /\ UNCHANGED <<diskVars, callVars, durable, root, nextPage, filePages, free,
                 listPage, poisoned, saved, doubt, clobbered, trouble>>

Sync ==
  /\ usable
  /\ \/ DiskSync /\ UNCHANGED <<poisoned, trouble>>
     \/ Trouble /\ DiskSyncFails /\ poisoned' = TRUE
  /\ UNCHANGED <<callVars, histVars, durable, root, nextPage, filePages, free,
                 pending, listPage, status, dirty>>

-----------------------------------------------------------------------------
(* Checkpoint, one I/O per step. *)

StartCheckpoint(who) ==
  /\ durable.checkpoint < MaxCheckpoint
  /\ pc' = "ckSync"
  /\ caller' = who

Checkpoint ==
  /\ usable
  /\ StartCheckpoint("client")
  /\ UNCHANGED <<diskVars, memVars, histVars, ck, walk, trouble>>

Close ==
  /\ pc = "idle"
  /\ IF ~poisoned /\ dirty
     THEN /\ StartCheckpoint("close")
          /\ UNCHANGED <<memVars, held, ck, walk>>
     ELSE NoStore("down")
  /\ UNCHANGED <<diskVars, saved, doubt, clobbered, trouble>>

Discard ==
  /\ pc = "idle"
  /\ NoStore("down")
  /\ UNCHANGED <<diskVars, saved, doubt, clobbered, trouble>>

\* An error ends the checkpoint.  A client has its Store back, poisoned when an
\* fsync or the meta page's write failed; Close and create give the Store up.
CheckpointFails(poisons) ==
  IF caller = "client"
  THEN /\ pc' = "idle"
       /\ ck' = NoCheckpoint
       /\ poisoned' = poisons
       /\ UNCHANGED <<durable, root, nextPage, filePages, free, pending, listPage,
                      status, dirty, caller, walk, held>>
  ELSE NoStore("down")

\* Mutant: the pages a checkpoint is about to point at are not synced first.
CkSyncSkipped ==
  /\ pc = "ckSync" /\ pc' = "ckTake"
  /\ ck' = [free |-> free, next |-> nextPage, file |-> filePages, lists |-> <<>>, at |-> 0]
  /\ UNCHANGED <<diskVars, memVars, histVars, caller, walk, trouble>>

CkSync ==
  /\ pc = "ckSync"
  /\ \/ /\ DiskSync
        /\ pc' = "ckTake"
        /\ ck' = [free |-> free, next |-> nextPage, file |-> filePages,
                  lists |-> <<>>, at |-> 0]
        /\ UNCHANGED <<memVars, held, caller, walk, trouble>>
     \/ /\ Trouble
        /\ DiskSyncFails
        /\ CheckpointFails(TRUE)
  /\ UNCHANGED <<saved, doubt, clobbered>>

\* Mutant: the pages freed since the last checkpoint are not counted.
CountWithoutPending == Len(ck.free) + Len(listPage)

\* Mutant: the pages taken for the new list are still counted among its entries.
CountStale == Len(free) + Len(pending) + Len(listPage)

Count == Len(ck.free) + Len(pending) + Len(listPage)

\* The size of the file once it holds the next page never handed out.
CkSize == IF ck.next >= ck.file THEN growTo(ck.file) ELSE ck.file

\* One turn of the loop that finds pages for the new free list.
CkTake ==
  /\ pc = "ckTake"
  /\ pagesFor(Count) > Len(ck.lists)
  /\ IF ck.free # <<>>
     THEN /\ ck' = [ck EXCEPT !.free = Front(@), !.lists = Append(@, Last(ck.free))]
          /\ UNCHANGED <<diskVars, memVars, held, pc, caller, walk, trouble>>
     ELSE IF ck.next >= MaxPages \/ CkSize <= ck.next
     THEN /\ CheckpointFails(FALSE)      \* ErrFull
          /\ UNCHANGED <<diskVars, trouble>>
     ELSE
       \/ /\ DiskWrite(NewPages(ck.file, CkSize), {}, Zero)
          /\ ck' = [ck EXCEPT !.next = @ + 1, !.file = CkSize,
                              !.lists = Append(@, ck.next)]
          /\ UNCHANGED <<memVars, held, pc, caller, walk, trouble>>
       \/ /\ Trouble
          /\ \E some \in ck.file .. CkSize - 1 :
               DiskWrite(NewPages(ck.file, some), {}, Zero)
          /\ CheckpointFails(FALSE)
  /\ UNCHANGED <<saved, doubt, clobbered>>

CkTaken ==
  /\ pc = "ckTake"
  /\ pagesFor(Count) <= Len(ck.lists)
  /\ pc' = IF ck.lists = <<>> THEN "ckMeta" ELSE "ckList"
  /\ UNCHANGED <<diskVars, memVars, histVars, caller, ck, walk, trouble>>

\* Mutant: the pages of the old free list are not put on the new one.
EntriesWithoutLists == ck.free \o pending

Entries == listPage \o ck.free \o pending

\* The slice of entries that goes into the i-th list page, from lo to hi.
lo(i) == i * FreeListCapacity
hi(i) == IF lo(i) + FreeListCapacity > Len(Entries) THEN Len(Entries)
         ELSE lo(i) + FreeListCapacity

\* Mutant: the meta page is written before the list it points at is synced.
AfterListPageUnsynced == IF ck.at + 1 = Len(ck.lists) THEN "ckMeta" ELSE "ckList"

AfterListPage == IF ck.at + 1 = Len(ck.lists) THEN "ckListSync" ELSE "ckList"

\* Writes the next free-list page; ck.at counts those written.
CkList ==
  /\ pc = "ckList"
  /\ LET id   == ck.lists[ck.at + 1]
         next == IF ck.at + 1 < Len(ck.lists) THEN ck.lists[ck.at + 2] ELSE NoPage
         page == FreeListPage(next, SubSeq(Entries, lo(ck.at) + 1, hi(ck.at))) IN
     \/ /\ DiskWrite({}, {id}, page)
        /\ ck' = [ck EXCEPT !.at = @ + 1]
        /\ pc' = AfterListPage
        /\ UNCHANGED <<memVars, held, caller, walk, trouble>>
     \/ /\ Trouble
        /\ DiskWriteFails({}, id, page)
        /\ CheckpointFails(FALSE)
  /\ UNCHANGED <<saved, doubt, clobbered>>

CkListSync ==
  /\ pc = "ckListSync"
  /\ \/ /\ DiskSync
        /\ pc' = "ckMeta"
        /\ UNCHANGED <<memVars, held, caller, ck, walk, trouble>>
     \/ /\ Trouble
        /\ DiskSyncFails
        /\ CheckpointFails(TRUE)
  /\ UNCHANGED <<saved, doubt, clobbered>>

\* Mutant: the checkpoint records the root of the last one.
NextMetaStaleRoot ==
  Meta(durable.root, IF ck.lists = <<>> THEN NoPage ELSE Head(ck.lists), Len(Entries),
       ck.next, ck.file, durable.checkpoint + 1)

NextMeta ==
  Meta(root, IF ck.lists = <<>> THEN NoPage ELSE Head(ck.lists), Len(Entries),
       ck.next, ck.file, durable.checkpoint + 1)

CkMeta ==
  /\ pc = "ckMeta"
  /\ \/ /\ DiskWrite({}, {MetaPage}, NextMeta)
        /\ pc' = "ckMetaSync"
        /\ doubt' = Snapshot(durable.checkpoint + 1)
        /\ UNCHANGED <<memVars, held, caller, ck, walk, trouble>>
     \/ /\ Trouble
        /\ DiskWriteFails({}, MetaPage, NextMeta)
        /\ doubt' = Snapshot(durable.checkpoint + 1)
        /\ CheckpointFails(TRUE)
  /\ UNCHANGED <<saved, clobbered>>

\* The checkpoint's end: the Store takes over what it wrote.
Adopt ==
  /\ durable' = NextMeta
  /\ nextPage' = ck.next
  /\ filePages' = ck.file
  /\ free' = Entries
  /\ pending' = <<>>
  /\ listPage' = ck.lists
  /\ status' = StatusOf(Entries, <<>>, ck.lists)
  /\ dirty' = FALSE
  /\ pc' = IF caller = "create" THEN "parent" ELSE "idle"
  /\ caller' = "client"
  /\ ck' = NoCheckpoint
  /\ UNCHANGED <<root, poisoned, walk, held>>

\* A page written in place is whole again once the drive has what the new
\* checkpoint says it holds.
StillClobbered ==
  clobbered' = {p \in clobbered \cap saved'.held : drive'[p] # saved'.data[p]}

CkMetaSync ==
  /\ pc = "ckMetaSync"
  /\ \/ /\ DiskSync
        /\ IF caller = "close" THEN NoStore("down") ELSE Adopt
        /\ saved' = doubt
        /\ doubt' = NoDoubt
        /\ StillClobbered
        /\ UNCHANGED trouble
     \/ /\ Trouble
        /\ DiskSyncFails
        /\ CheckpointFails(TRUE)
        /\ UNCHANGED <<saved, doubt, clobbered>>

-----------------------------------------------------------------------------
(* Open. *)

isBlank ==
  /\ PageCount <= ChunkPages
  /\ \A p \in PageIDs : cache[p] \in {None, Zero}

\* A blank file, new or left by an interrupted Create, is initialised.
OpenBlank ==
  /\ pc \in {"down", "refused"}
  /\ isBlank
  /\ \/ /\ DiskWrite(NewPages(0, ChunkPages), {}, Zero)
        /\ root' = NoPage /\ nextPage' = 1 /\ filePages' = ChunkPages
        /\ StartCheckpoint("create")
        /\ UNCHANGED <<durable, free, pending, listPage, status, dirty, poisoned,
                       ck, walk, held, trouble>>
     \/ /\ Trouble
        /\ \E some \in 0 .. ChunkPages - 1 : DiskWrite(NewPages(0, some), {}, Zero)
        /\ NoStore("down")
  /\ UNCHANGED <<saved, doubt, clobbered>>

checkMeta(m) ==
  /\ m.kind = "meta"
  /\ m.next # 0
  /\ m.next <= m.file
  /\ PageCount >= m.file
  /\ m.root # NoPage => m.root < m.next

OpenLoad ==
  /\ pc \in {"down", "refused"}
  /\ ~isBlank
  /\ IF checkMeta(cache[MetaPage])
     THEN /\ pc' = "walk"
          /\ durable' = cache[MetaPage]
          /\ walk' = [NoWalk EXCEPT !.at = cache[MetaPage].head]
     ELSE pc' = "refused" /\ UNCHANGED <<durable, walk>>
  /\ UNCHANGED <<diskVars, root, nextPage, filePages, free, pending, listPage, status,
                 dirty, poisoned, caller, ck, histVars, trouble>>

\* What readFreeList asks of the next page of the chain.
ChainPageOK(id, seen, next) ==
  /\ id < next
  /\ id \notin Range(seen)
  /\ cache[id].kind = "freelist"
  /\ Len(cache[id].entries) <= FreeListCapacity

\* Mutant: the walk remembers the last page only.
WalkPageForgets ==
  /\ pc = "walk" /\ walk.at # NoPage
  /\ IF ChainPageOK(walk.at, walk.lists, durable.next)
     THEN /\ walk' = [at |-> cache[walk.at].next, entries |-> cache[walk.at].entries,
                      lists |-> <<walk.at>>]
          /\ UNCHANGED <<memVars, held, pc, caller, ck>>
     ELSE NoStore("refused")
  /\ UNCHANGED <<diskVars, saved, doubt, clobbered, trouble>>

WalkPage ==
  /\ pc = "walk"
  /\ walk.at # NoPage
  /\ IF ChainPageOK(walk.at, walk.lists, durable.next)
     THEN /\ walk' = [at |-> cache[walk.at].next,
                      entries |-> walk.entries \o cache[walk.at].entries,
                      lists |-> Append(walk.lists, walk.at)]
          /\ UNCHANGED <<memVars, held, pc, caller, ck>>
     ELSE NoStore("refused")
  /\ UNCHANGED <<diskVars, saved, doubt, clobbered, trouble>>

\* Mutant: a page may be on the free list twice.
checkFreeSetNoDup(m, entries, lists) ==
  /\ m.root # NoPage => m.root \notin Range(lists)
  /\ \A i \in DOMAIN entries :
       /\ entries[i] # MetaPage /\ entries[i] < m.next
       /\ entries[i] \notin Range(lists) /\ entries[i] # m.root

checkFreeSet(m, entries, lists) ==
  /\ m.root # NoPage => m.root \notin Range(lists)
  /\ \A i \in DOMAIN entries :
       /\ entries[i] # MetaPage
       /\ entries[i] < m.next
       /\ entries[i] \notin Range(lists)
       /\ \A j \in 1 .. i - 1 : entries[j] # entries[i]
       /\ entries[i] # m.root

\* The checks of verifyLive compare a Store with what it has just been loaded
\* from, so they ask here for nothing that checkMeta, the walk and checkFreeSet
\* have not: see VerifyPasses, which asks for them of a Store that has run.
WalkDone ==
  /\ pc = "walk"
  /\ walk.at = NoPage
  /\ IF Len(walk.entries) = durable.count /\ checkFreeSet(durable, walk.entries, walk.lists)
     THEN /\ pc' = "ldMeta"
          /\ root' = durable.root
          /\ nextPage' = durable.next
          /\ filePages' = durable.file
          /\ free' = walk.entries
          /\ listPage' = walk.lists
          /\ status' = StatusOf(walk.entries, <<>>, walk.lists)
          /\ walk' = NoWalk
          /\ UNCHANGED <<durable, pending, dirty, poisoned, caller, ck, held>>
     ELSE NoStore("refused")
  /\ UNCHANGED <<diskVars, saved, doubt, clobbered, trouble>>

\* Mutant: Open trusts the meta page it read to be the one on the drive.
LdMetaSkipped ==
  /\ pc = "ldMeta" /\ pc' = "ldSync"
  /\ UNCHANGED <<diskVars, memVars, histVars, caller, ck, walk, trouble>>

\* Recovery on open: the meta page that was read is written again and synced.
LdMeta ==
  /\ pc = "ldMeta"
  /\ \/ /\ DiskWrite({}, {MetaPage}, durable)
        /\ pc' = "ldSync"
        /\ UNCHANGED <<memVars, caller, ck, walk, held, trouble>>
     \/ /\ Trouble
        /\ DiskWriteFails({}, MetaPage, durable)
        /\ NoStore("down")
  /\ UNCHANGED <<saved, doubt, clobbered>>

\* The snapshot that the meta record of this number belongs to.
Recovered == IF doubt.checkpoint = durable.checkpoint THEN doubt ELSE saved

LdSync ==
  /\ pc = "ldSync"
  /\ \/ /\ DiskSync
        /\ pc' = "parent"
        /\ held' = Recovered.held
        /\ saved' = [checkpoint |-> Recovered.checkpoint, root |-> Recovered.root,
                     held |-> Recovered.held,
                     data |-> [p \in Recovered.held |-> cache[p]]]
        /\ doubt' = NoDoubt
        /\ StillClobbered
        /\ UNCHANGED <<memVars, caller, ck, walk, trouble>>
     \/ /\ Trouble
        /\ DiskSyncFails
        /\ NoStore("down")
        /\ UNCHANGED <<saved, doubt, clobbered>>

\* fileio.SyncParent; Open and Create discard the Store when it fails.
Parent ==
  /\ pc = "parent"
  /\ \/ /\ pc' = "idle"
        /\ UNCHANGED <<memVars, caller, ck, walk, held, trouble>>
     \/ /\ Trouble
        /\ NoStore("down")
  /\ UNCHANGED <<diskVars, saved, doubt, clobbered>>

-----------------------------------------------------------------------------
(* The world. *)

Kill ==
  /\ pc # "down"
  /\ Trouble
  /\ NoStore("down")
  /\ UNCHANGED <<diskVars, saved, doubt, clobbered>>

PowerCut ==
  /\ Trouble
  /\ DiskPowerCut
  /\ NoStore("down")
  /\ UNCHANGED <<saved, doubt, clobbered>>

Evict(p) ==
  /\ DiskEvict(p)
  /\ UNCHANGED <<memVars, callVars, histVars, trouble>>

ClientStep ==
  \/ \E id \in PageIDs : SetRoot(id) \/ Free(id)
  \/ \E id \in PageIDs, v \in Values : Write(id, v)
  \/ AllocateReused \/ AllocateNew
  \/ Sync \/ Checkpoint \/ Close \/ Discard
  \/ OpenBlank \/ OpenLoad

StoreStep ==
  \/ CkSync \/ CkTake \/ CkTaken \/ CkList \/ CkListSync \/ CkMeta \/ CkMetaSync
  \/ WalkPage \/ WalkDone \/ LdMeta \/ LdSync \/ Parent

World == Kill \/ PowerCut \/ \E p \in PageIDs : Evict(p)

Next == ClientStep \/ StoreStep \/ World

Spec == Init /\ [][Next]_vars

\* The process that made a call runs it to its end unless it is killed.
FairSpec == Spec /\ WF_vars(StoreStep)

-----------------------------------------------------------------------------
(* Verify, the store's own check of itself. *)

NextInList(list, i) == IF i < Len(list) THEN list[i + 1] ELSE NoPage

\* The free list as the file holds it, in the pages of listPage.
ListedEntries == FlattenSeq([i \in DOMAIN listPage |-> cache[listPage[i]].entries])

readsBackFreeList ==
  /\ durable.head = NextInList(listPage, 0)
  /\ \A i \in DOMAIN listPage :
       /\ ChainPageOK(listPage[i], SubSeq(listPage, 1, i - 1), durable.next)
       /\ cache[listPage[i]].next = NextInList(listPage, i)
  /\ Len(ListedEntries) = durable.count

Distinct(s) == \A i, j \in DOMAIN s : i # j => s[i] # s[j]

\* Each page handed out is in one state, and status says which.
OneStateEach ==
  LET listed == free \o pending \o listPage IN
  /\ root # NoPage => owned(root)
  /\ Distinct(listed)
  /\ \A id \in Range(listed) : inRange(id)
  /\ status = StatusOf(free, pending, listPage)

verifyLive ==
  /\ durable.next <= nextPage /\ nextPage <= filePages /\ filePages <= PageCount
  /\ OneStateEach
  /\ Range(free) \subseteq Range(ListedEntries)

Verify ==
  /\ cache[MetaPage] = durable
  /\ checkMeta(durable)
  /\ readsBackFreeList
  /\ checkFreeSet(durable, ListedEntries, listPage)
  /\ verifyLive

=============================================================================
