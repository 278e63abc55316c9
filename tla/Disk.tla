-------------------------------- MODULE Disk --------------------------------
(***************************************************************************)
(* The file a page store runs on, seen as an operating system in front of  *)
(* a drive.  The store's code touches it only through fileio.File and      *)
(* page.File; what a crash, a failed fsync and an evicted cache page do is *)
(* what the simulated drive of the page store's tests does                 *)
(* (pagestore/memfile_test.go).                                            *)
(*                                                                         *)
(* A page is the unit.  Its bytes are a record with a `kind`; the records  *)
(* this module knows are the page past the end of the file, the page of    *)
(* zeros and the page of which only some sectors arrived.                  *)
(***************************************************************************)
EXTENDS Integers, Sequences, FiniteSets, FiniteSetsExt

CONSTANT MaxPages    \* page ids are below this (pagestore.MaxPages)

ASSUME MaxPagesAssumption == MaxPages \in Nat \ {0, 1}

VARIABLES
  drive,    \* what a power cut leaves of each page, if it lands nothing
  cache,    \* what a read of each page returns
  pend      \* the contents written to each page since the last fsync

diskVars == <<drive, cache, pend>>

PageIDs  == 0 .. MaxPages - 1
MetaPage == 0

None == [kind |-> "none"]
Zero == [kind |-> "zero"]
Torn == [kind |-> "torn"]

-----------------------------------------------------------------------------
\* Pages in the file as the process sees it (File.Size, page.File.PageCount).
PageCount ==
  IF \A p \in PageIDs : cache[p] = None THEN 0
  ELSE 1 + Max({p \in PageIDs : cache[p] # None})

\* A page the drive never got, below one it did, is a hole: it reads as zeros.
FillHoles(image) ==
  [p \in PageIDs |->
     IF image[p] = None /\ \E q \in PageIDs : q > p /\ image[q] # None
     THEN Zero ELSE image[p]]

\* What may be left of a written page.  The meta record fills the start of
\* one sector, so page 0 is never torn; any other page may be, zeros over
\* zeros apart.
Landing(p) ==
  LET whole == {drive[p]} \cup pend[p] IN
  whole \cup (IF p = MetaPage \/ whole \subseteq {None, Zero} THEN {} ELSE {Torn})

Written == {p \in PageIDs : pend[p] # {}}

Landed ==
  {FillHoles([p \in PageIDs |-> IF p \in Written THEN land[p] ELSE drive[p]]) :
     land \in {f \in [Written -> UNION {Landing(p) : p \in Written}] :
                \A p \in Written : f[p] \in Landing(p)}}

-----------------------------------------------------------------------------
\* WriteAt: the pages in `zeroed` get zeros, then those in `written` get c.
DiskWrite(zeroed, written, c) ==
  /\ cache' = [p \in PageIDs |-> IF p \in written THEN c
                                 ELSE IF p \in zeroed THEN Zero ELSE cache[p]]
  /\ pend' = [p \in PageIDs |-> pend[p] \cup (IF p \in zeroed THEN {Zero} ELSE {})
                                        \cup (IF p \in written THEN {c} ELSE {})]
  /\ UNCHANGED drive

\* A failed WriteAt of page p leaves the page alone, or leaves some of it new.
DiskWriteFails(zeroed, p, c) ==
  \E written \in {{}, {p}} :
    DiskWrite(zeroed, written, IF p = MetaPage THEN c ELSE Torn)

DiskSync ==
  /\ drive' = FillHoles([p \in PageIDs |-> IF pend[p] = {} THEN drive[p] ELSE cache[p]])
  /\ pend' = [p \in PageIDs |-> {}]
  /\ UNCHANGED cache

\* A failed fsync lands any part of what was pending and marks all of it clean.
DiskSyncFails ==
  /\ drive' \in Landed
  /\ pend' = [p \in PageIDs |-> {}]
  /\ UNCHANGED cache

DiskPowerCut ==
  /\ drive' \in Landed
  /\ cache' = drive'
  /\ pend' = [p \in PageIDs |-> {}]

\* The bytes a clean page gets back when the cache drops it.  The file keeps
\* its length, so past the drive's end that is zeros.
OnDrive(p) == IF drive[p] = None THEN Zero ELSE drive[p]

DiskEvict(p) ==
  /\ pend[p] = {}
  /\ cache[p] # None
  /\ cache[p] # OnDrive(p)
  /\ cache' = [cache EXCEPT ![p] = OnDrive(p)]
  /\ UNCHANGED <<drive, pend>>

DiskInit ==
  /\ drive = [p \in PageIDs |-> None]
  /\ cache = [p \in PageIDs |-> None]
  /\ pend  = [p \in PageIDs |-> {}]

=============================================================================
