------------------------------- MODULE KillNine ------------------------------
(***************************************************************************)
(* The kill -9 loop of the demo (cmd/scutedb-demo/pagestore.go) and of the *)
(* page store's tests (killnine_test.go), over the page store.             *)
(*                                                                         *)
(* A child creates a store in a new file and then, for ever: allocates a   *)
(* page, stamps it with the number of the next checkpoint, makes it the    *)
(* root, frees the old root, checkpoints, and says the number.  It dies at *)
(* any moment.  The parent, which heard what it said, opens the file.      *)
(*                                                                         *)
(* The name of the file is here too: it is in the directory for good only  *)
(* once SyncParent has returned, and a power cut before that may take the  *)
(* whole file.  After a run the parent starts the next, on a new file.     *)
(***************************************************************************)
EXTENDS PageStore

\* The child stamps its pages with the numbers of checkpoints.
ASSUME StampsAssumption == 1 .. MaxCheckpoint + 1 \subseteq Values

VARIABLES
  child,     \* the child's next step; "dead" once the parent is at work
  told,      \* the last number the child said
  page, old, \* its variables: the page it allocated, the root that was
  entry      \* the file's name: "none", "cached" or "durable"

nameVars  == <<entry>>
childVars == <<child, told, page, old>>
allVars   == <<vars, childVars, nameVars>>

KInit ==
  /\ Init
  /\ child = "create" /\ told = 0 /\ page = NoPage /\ old = NoPage
  /\ entry = "none"

\* The call just made returned an error.
failed == trouble' # trouble

\* The child goes on with its next step, or exits on an error.
Goes(next) == child' = IF failed THEN "exit" ELSE next

-----------------------------------------------------------------------------
(* The child. *)

ChildCreate ==
  /\ child = "create"
  /\ OpenBlank
  /\ Goes("inCreate")
  /\ entry' = "cached"
  /\ UNCHANGED <<told, page, old>>

Created ==
  /\ child = "inCreate" /\ pc \in {"idle", "down"}
  /\ child' = IF pc = "idle" THEN "say" ELSE "exit"
  /\ UNCHANGED <<vars, told, page, old, nameVars>>

ChildSay ==
  /\ child = "say"
  /\ told' = durable.checkpoint
  /\ child' = "allocate"
  /\ UNCHANGED <<vars, page, old, nameVars>>

ChildAllocate ==
  /\ child = "allocate"
  /\ AllocateReused \/ AllocateNew
  /\ Goes("write")
  /\ page' = IF failed THEN page ELSE CHOOSE p \in held' : p \notin held
  /\ UNCHANGED <<told, old, nameVars>>

\* Mutant: the page is stamped with the number of the last checkpoint.
ChildWriteStale ==
  /\ child = "write"
  /\ Write(page, durable.checkpoint)
  /\ Goes("setRoot")
  /\ UNCHANGED <<told, page, old, nameVars>>

ChildWrite ==
  /\ child = "write"
  /\ Write(page, durable.checkpoint + 1)
  /\ Goes("setRoot")
  /\ UNCHANGED <<told, page, old, nameVars>>

ChildSetRoot ==
  /\ child = "setRoot"
  /\ SetRoot(page)
  /\ old' = root
  /\ child' = IF old' = NoPage THEN "checkpoint" ELSE "free"
  /\ UNCHANGED <<told, page, nameVars>>

\* Mutant: the old root is never freed.
ChildFreeNot ==
  /\ child = "free"
  /\ child' = "checkpoint"
  /\ UNCHANGED <<vars, told, page, old, nameVars>>

ChildFree ==
  /\ child = "free"
  /\ Free(old)
  /\ child' = "checkpoint"
  /\ UNCHANGED <<told, page, old, nameVars>>

ChildCheckpoint ==
  /\ child = "checkpoint"
  /\ Checkpoint
  /\ child' = "inCheckpoint"
  /\ UNCHANGED <<told, page, old, nameVars>>

Checkpointed ==
  /\ child = "inCheckpoint" /\ pc = "idle"
  /\ child' = IF durable.checkpoint > told THEN "say" ELSE "exit"
  /\ UNCHANGED <<vars, told, page, old, nameVars>>

ChildStep ==
  \/ ChildCreate \/ Created \/ ChildSay \/ ChildAllocate \/ ChildWrite
  \/ ChildSetRoot \/ ChildFree \/ ChildCheckpoint \/ Checkpointed

\* The child exits, or is killed: once, so it needs no bound.
ChildDies ==
  /\ child # "dead"
  /\ child' = "dead"
  /\ NoStore("down")
  /\ UNCHANGED <<diskVars, saved, doubt, clobbered, trouble, told, page, old, nameVars>>

-----------------------------------------------------------------------------
(* The store, the parent and the world. *)

\* Mutant: Create and Open return before the name is safe.
NameAfterNoSync == entry

\* SyncParent is the last step of Create and of Open.
NameAfter == IF pc = "parent" /\ pc' = "idle" THEN "durable" ELSE entry

StoreRuns ==
  /\ StoreStep
  /\ entry' = NameAfter
  /\ UNCHANGED childVars

ParentOpens ==
  /\ child = "dead"
  /\ entry # "none"     \* else fs.ErrNotExist
  /\ OpenBlank \/ OpenLoad
  /\ UNCHANGED <<childVars, nameVars>>

ParentCloses ==
  /\ child = "dead"
  /\ Close
  /\ UNCHANGED <<childVars, nameVars>>

NoFile ==
  /\ drive' = [p \in PageIDs |-> None] /\ cache' = drive'
  /\ pend' = [p \in PageIDs |-> {}]
  /\ entry' = "none"
  /\ NoStore("down")

NextRun ==
  /\ child = "dead" /\ pc = "down"
  /\ NoFile
  /\ saved' = Blank /\ doubt' = NoDoubt /\ clobbered' = {}
  /\ trouble' = 0
  /\ child' = "create" /\ told' = 0 /\ page' = NoPage /\ old' = NoPage

PowerFails ==
  /\ PowerCut
  /\ child' = "dead"
  /\ entry' = IF entry = "cached" THEN "durable" ELSE entry
  /\ UNCHANGED <<told, page, old>>

\* A power cut before the directory reached the drive takes the file with it.
FileIsLost ==
  /\ entry = "cached"
  /\ Trouble
  /\ NoFile
  /\ child' = "dead"
  /\ UNCHANGED <<saved, doubt, clobbered, told, page, old>>

Evicted == (\E p \in PageIDs : Evict(p)) /\ UNCHANGED <<childVars, nameVars>>

KNext ==
  \/ ChildStep \/ ChildDies
  \/ StoreRuns
  \/ ParentOpens \/ ParentCloses \/ NextRun
  \/ PowerFails \/ FileIsLost \/ Evicted

\* A process that is not killed makes its calls, and a call goes on to its end.
KSpec == KInit /\ [][KNext]_allVars /\ WF_allVars(ChildStep) /\ WF_allVars(StoreRuns)

-----------------------------------------------------------------------------
(* What the parent asks of the file. *)

Reopened == child = "dead" /\ pc = "idle"

\* The file is never behind what the child was told was durable, and at most one
\* checkpoint ahead, the one it died before saying; and it may be missing only if
\* the child had said nothing.  It holds of a power cut too, which the demo leaves
\* to the tests.
NeverBehind ==
  /\ Reopened => durable.checkpoint \in {told, told + 1}
  /\ child = "dead" /\ entry = "none" => told = 0

\* The root holds the stamp of the very checkpoint that set it.
RootIsStamped ==
  Reopened /\ root # NoPage => cache[root] = UserPage(durable.checkpoint)

\* However long the child runs, it goes on: from each checkpoint it told of it comes
\* to the next, since the pages it frees and those of the old free lists come back to
\* it and it never fills the file.  Only its death or a failed call stops it.
KeepsGoing ==
  \A n \in 0 .. MaxCheckpoint - 1 :
    (child = "allocate" /\ told = n) ~>
      (told = n + 1 \/ child = "dead" \/ (child = "exit" /\ trouble > 0))

=============================================================================
