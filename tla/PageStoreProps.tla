--------------------------- MODULE PageStoreProps ---------------------------
(***************************************************************************)
(* What the page store promises, stated over its specification, and the    *)
(* abstract store it implements.                                           *)
(***************************************************************************)
EXTENDS PageStore

MetaRecord ==
  [kind : {"meta"}, root : PageIDs, head : PageIDs, count : Nat,
   next : 0 .. MaxPages, file : 0 .. MaxPages, checkpoint : Nat]

DiskType ==
  /\ drive \in [PageIDs -> Content]
  /\ cache \in [PageIDs -> Content]
  /\ pend \in [PageIDs -> SUBSET Content]

MemType ==
  /\ durable \in MetaRecord
  /\ root \in PageIDs
  /\ nextPage \in 0 .. MaxPages /\ filePages \in 0 .. MaxPages
  /\ free \in Seq(PageIDs) /\ pending \in Seq(PageIDs) /\ listPage \in Seq(PageIDs)
  /\ status \in [PageIDs -> {"owned", "free", "pending", "freelist"}]
  /\ dirty \in BOOLEAN /\ poisoned \in BOOLEAN

CallType ==
  /\ pc \in {"down", "refused", "idle", "parent", "walk", "ldMeta", "ldSync", "ckSync",
             "ckTake", "ckList", "ckListSync", "ckMeta", "ckMetaSync"}
  /\ caller \in {"client", "close", "create"}
  /\ ck \in [free : Seq(PageIDs), next : 0 .. MaxPages, file : 0 .. MaxPages,
             lists : Seq(PageIDs), at : Nat]
  /\ walk \in [at : PageIDs, entries : Seq(PageIDs), lists : Seq(PageIDs)]

HistType ==
  /\ held \subseteq PageIDs
  /\ saved.held \subseteq PageIDs /\ doubt.held \subseteq PageIDs
  /\ clobbered \subseteq PageIDs

\* Every variable has its type: in particular no page id, page count or file
\* size ever reaches past MaxPages, whatever growTo and Allocate add to it.
TypeOK == DiskType /\ MemType /\ CallType /\ HistType /\ trouble \in Nat

-----------------------------------------------------------------------------
(* Memory and file agree. *)

\* Between calls an unpoisoned store passes its own Verify: the meta page and the
\* free list read back as the last checkpoint, each page handed out is in exactly
\* one state, and only pages free in that checkpoint are up for reuse - whatever
\* calls, failures and reopenings came before.
VerifyPasses == usable => Verify

\* What is on the drive, not only what a read returns, is the checkpoint the
\* store believes in: its meta page and its free-list pages have reached the
\* drive and nothing pending can change them.  This is what rewriting the meta
\* page on open is for.
BelievesTheDrive ==
  usable => /\ drive[MetaPage] = durable /\ pend[MetaPage] = {}
            /\ \A p \in Range(listPage) : drive[p] = cache[p] /\ pend[p] = {}

\* checkpoint's slice entries[lo:hi] is in bounds for each list page it takes (the
\* list shrinks while pages are taken from it), and the pages hold every entry.
SlicesInBounds ==
  pc \in {"ckList", "ckListSync", "ckMeta", "ckMetaSync"} =>
    /\ \A i \in 0 .. Len(ck.lists) - 1 : lo(i) <= Len(Entries)
    /\ Len(Entries) <= Len(ck.lists) * FreeListCapacity

-----------------------------------------------------------------------------
(* What the client finds. *)

OwnedPages == {p \in PageIDs : owned(p)}

\* The pages the store thinks are the client's are the pages it was given and has
\* not freed: none leaks, through checkpoints, failed calls and reopening, and
\* none is handed out twice.
NothingLeaks == pc \in {"parent", "idle"} => OwnedPages = held

\* A file that opens shows, whole, the last checkpoint that returned nil or the
\* one whose outcome was unknown: its number, its root and its pages.
RecoversTheCheckpoint ==
  pc = "parent" =>
    /\ durable.checkpoint = saved.checkpoint
    /\ root = saved.root
    /\ OwnedPages = saved.held

Holds(snap, p) ==
  /\ cache[p] = snap.data[p]
  /\ drive[p] = snap.data[p]
  /\ pend[p] \subseteq {snap.data[p]}

\* At every moment, in the middle of any call, the pages of the last checkpoint
\* hold on the drive what they held when it was made, and no write that a power
\* cut could land says otherwise; so do those of a checkpoint in doubt.  Pages the
\* client itself wrote over in place are its own affair.
CommittedIntact ==
  /\ \A p \in saved.held \ clobbered : Holds(saved, p)
  /\ \A p \in doubt.held \ clobbered : Holds(doubt, p)

\* Whatever was cut short, a file this store wrote is never one that Open turns
\* down as corrupt or as not a scutedb file.
OpenNeverRefuses == pc # "refused"

-----------------------------------------------------------------------------
(* Steps. *)

\* Once an fsync has failed the store writes nothing more until it is reopened.
PoisonedIsSilent ==
  [][poisoned => \A p \in PageIDs : pend'[p] \subseteq pend[p]]_vars

\* A checkpoint that gives up although no I/O failed gives up for want of room, and
\* rightly: however many pages it took, from the free list and from the end of the
\* file up to MaxPages, they could not hold the list that would be left.
FullOnlyWhenFull ==
  [][pc = "ckTake" /\ pc' \in {"idle", "down"} /\ trouble' = trouble =>
       \A k \in 0 .. Len(free) + (MaxPages - nextPage) :
         LET left == IF k < Len(free) THEN Len(free) - k ELSE 0 IN
         left + Len(pending) + Len(listPage) > k * FreeListCapacity]_vars

\* A call that has begun comes back, or the process is killed.
CallsReturn ==
  pc \notin {"idle", "down", "refused"} ~> pc \in {"idle", "down", "refused"}

-----------------------------------------------------------------------------
(* The abstract store. *)

\* The client has a store to work with: open, and not poisoned.
Working ==
  /\ pc \in {"idle", "ckSync", "ckTake", "ckList", "ckListSync", "ckMeta", "ckMetaSync"}
  /\ caller # "create"
  /\ ~poisoned

Durable == INSTANCE DurableStore WITH
  Pages <- PageIDs \ {MetaPage},
  FreshPage <- UserPage(Fresh),
  Written <- {UserPage(v) : v \in Values},
  Ruined <- Torn,
  loose <- clobbered,
  work <- IF Working
          THEN [root |-> root, held |-> OwnedPages, data |-> [p \in OwnedPages |-> cache[p]]]
          ELSE [root |-> NoPage, held |-> {-1}, data |-> <<>>]

\* The page store implements the abstract one.
ImplementsDurable == Durable!Spec

=============================================================================
