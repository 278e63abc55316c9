---------------------------- MODULE DurableStore ----------------------------
(***************************************************************************)
(* What a page store promises to its client.  There is no file here, no    *)
(* free list and no order of writes: there is the client's work, the       *)
(* checkpoint it would lose the work to, and at most one checkpoint whose  *)
(* outcome is unknown.                                                     *)
(*                                                                         *)
(* A client that writes over a page of the last checkpoint in place makes  *)
(* that page loose: the promise covers its being there, and no longer its  *)
(* contents, until a checkpoint has made them fast again.                  *)
(***************************************************************************)
EXTENDS Integers

CONSTANTS
  Pages,       \* the pages there are to hand out
  FreshPage,   \* what a page holds when it is handed out
  Written,     \* what the client may write to one
  Ruined       \* what a page may hold after a write of it failed

VARIABLES
  work,    \* the client's root, pages and their contents, or NoWork
  saved,   \* the checkpoint a reopened store shows
  doubt,   \* the checkpoint it may show instead, or NoDoubt
  loose    \* pages of `saved` the client has written in place since

vars == <<work, saved, doubt, loose>>

NoPage  == 0
NoWork  == [root |-> NoPage, held |-> {-1}, data |-> <<>>]
Blank   == [checkpoint |-> 0, root |-> NoPage, held |-> {}, data |-> <<>>]
NoDoubt == [Blank EXCEPT !.checkpoint = -1]

Snapshot ==
  [checkpoint |-> saved.checkpoint + 1, root |-> work.root, held |-> work.held,
   data |-> work.data]

Init == work = NoWork /\ saved = Blank /\ doubt = NoDoubt /\ loose = {}

\* These contents, or others in the loose pages.
Versions(data) ==
  {[p \in DOMAIN data |-> IF p \in loose THEN other[p] ELSE data[p]] :
     other \in [loose -> Written \cup {FreshPage, Ruined}]}

-----------------------------------------------------------------------------
Works == work # NoWork

\* A page is handed out only when neither the client nor the last checkpoint
\* has a use for it.
Allocate(p) ==
  /\ Works
  /\ p \notin work.held \cup saved.held
  /\ work' = [work EXCEPT !.held = @ \cup {p},
                          !.data = [q \in work.held \cup {p} |->
                                      IF q = p THEN FreshPage ELSE work.data[q]]]
  /\ UNCHANGED <<saved, doubt, loose>>

Free(p) ==
  /\ Works
  /\ p \in work.held \ {work.root}
  /\ work' = [work EXCEPT !.held = @ \ {p},
                          !.data = [q \in work.held \ {p} |-> work.data[q]]]
  /\ UNCHANGED <<saved, doubt, loose>>

SetRoot(p) ==
  /\ Works
  /\ p \in work.held \cup {NoPage}
  /\ work' = [work EXCEPT !.root = p]
  /\ UNCHANGED <<saved, doubt, loose>>

\* A write that fails leaves what was there, or a ruin.
Write(p) ==
  /\ Works
  /\ p \in work.held
  /\ \E c \in Written \cup {Ruined, work.data[p]} : work' = [work EXCEPT !.data[p] = c]
  /\ loose' = loose \cup ({p} \cap saved.held)
  /\ UNCHANGED <<saved, doubt>>

\* What a loose page reads as may change by itself.
Waver ==
  /\ Works
  /\ work' \in {[work EXCEPT !.data = data] : data \in Versions(work.data)}
  /\ UNCHANGED <<saved, doubt, loose>>

-----------------------------------------------------------------------------
\* The checkpoint reaches its commit point: from here it may be found.
Announce ==
  /\ Works
  /\ doubt' = Snapshot
  /\ work' \in {work, NoWork}
  /\ UNCHANGED <<saved, loose>>

\* It returns nil: from here it will be found.
Commit ==
  /\ Works
  /\ doubt \in {[Snapshot EXCEPT !.data = data] : data \in Versions(work.data)}
  /\ saved' = doubt
  /\ doubt' = NoDoubt
  /\ loose' \in SUBSET loose
  /\ work' \in {work, NoWork}

\* A blank file is being given its first checkpoint.
Initialise ==
  /\ ~Works
  /\ saved = Blank
  /\ doubt' = [Blank EXCEPT !.checkpoint = 1]
  /\ UNCHANGED <<work, saved, loose>>

\* A crash, a failed fsync, a close: the work since the checkpoint is gone.
Lose ==
  /\ work' = NoWork
  /\ UNCHANGED <<saved, doubt, loose>>

\* Opening settles the doubt, one way or the other, before it shows anything.
Settle ==
  /\ ~Works
  /\ \E found \in {saved, doubt} \ {NoDoubt} :
       saved' \in {[found EXCEPT !.data = data] : data \in Versions(found.data)}
  /\ doubt' = NoDoubt
  /\ loose' \in SUBSET loose
  /\ UNCHANGED work

Open ==
  /\ ~Works
  /\ doubt = NoDoubt /\ saved # Blank
  /\ work' \in {[root |-> saved.root, held |-> saved.held, data |-> data] :
                  data \in Versions(saved.data)}
  /\ UNCHANGED <<saved, doubt, loose>>

Next ==
  \/ \E p \in Pages : Allocate(p) \/ Free(p) \/ Write(p)
  \/ \E p \in Pages \cup {NoPage} : SetRoot(p)
  \/ Waver \/ Announce \/ Commit \/ Initialise \/ Lose \/ Settle \/ Open

Spec == Init /\ [][Next]_vars

=============================================================================
