----------------------------- MODULE SyncParent ------------------------------
(***************************************************************************)
(* fileio.SyncParent: after a file was opened or created by path, the      *)
(* directory that holds its entry is fsynced, so that a power cut does not *)
(* take the name.  The path may lead through symbolic links, to a file or  *)
(* to a directory, absolute or relative, and through "..".                 *)
(*                                                                         *)
(* The file system is the kernel's: a tree of directories, some links in   *)
(* it, and Resolve, which follows a path one component at a time as every  *)
(* system call does.  SyncParent itself follows only a link in the last    *)
(* component; one turn of its loop is one step.                            *)
(*                                                                         *)
(* Left out: permissions, a failing fsync, a file system that has no fsync *)
(* of directories (SyncDir takes that for success), and another process    *)
(* that moves things while this runs.                                      *)
(***************************************************************************)
EXTENDS Integers, Sequences, FiniteSets, SequencesExt, Functions

CONSTANTS
  Names,       \* names of files and links
  Root,        \* the directory at the top
  Dirs,        \* <<directory, its name, the directory it is in>>, but for Root
  WorkDir,     \* the process's current directory
  Targets,     \* paths: where links may lead, and what may be opened
  Links,       \* bound: links in the file system
  maxLinks,    \* links that are followed before ELOOP, here and in the kernel
  PathMax      \* components of the longest path a call takes

Dots == ".."

Directories == {Root} \cup {d[1] : d \in Dirs}

\* Paths are kept as the names between their separators.
Components == Names \cup {Dots} \cup {d[2] : d \in Dirs}
Paths      == [abs : BOOLEAN, comps : Seq(Components)]

ASSUME WorkDirAssumption == WorkDir \in Directories
ASSUME TreeAssumption    == \A d \in Dirs : d[3] \in Directories /\ d[2] # Dots
ASSUME PathsAssumption   == Targets \subseteq Paths
ASSUME BoundsAssumption  == maxLinks \in Nat /\ PathMax \in Nat /\ Links \in Nat

VARIABLES
  links,    \* the links there are: from <<directory, name>> to a path
  file,     \* the entry of the open file, or NoEntry
  asked,    \* the path it was opened by
  path,     \* SyncParent's path, which grows with each link
  hops,
  state,    \* "open", "walk", "done" or "failed"
  synced    \* the directory that was fsynced

vars == <<links, file, asked, path, hops, state, synced>>

-----------------------------------------------------------------------------
(* The kernel. *)

Relative(comps) == [abs |-> FALSE, comps |-> comps]
Absolute(comps) == [abs |-> TRUE,  comps |-> comps]

Parent(dir) == IF dir = Root THEN Root ELSE (CHOOSE d \in Dirs : d[1] = dir)[3]

SubDir(dir, name) == {d[1] : d \in {e \in Dirs : e[3] = dir /\ e[2] = name}}

Failed(why)      == [is |-> why, at |-> <<>>]
IsDir(dir)       == [is |-> "dir", at |-> <<dir>>]
Entry(dir, name) == [is |-> "entry", at |-> <<dir, name>>]
NoEntry          == Failed("none")

Start(p) == IF p.abs THEN Root ELSE WorkDir

\* A walk is in dir and has comps before it; it may follow `left` more links, one
\* in the last component only if `follow`.
Walks == [dir : Directories, comps : Seq(Components), follow : BOOLEAN, left : Nat]

Walk(dir, comps, follow, left) ==
  [dir |-> dir, comps |-> comps, follow |-> follow, left |-> left]

AtDots(w)   == w.comps # <<>> /\ Head(w.comps) = Dots
AtSubDir(w) == w.comps # <<>> /\ SubDir(w.dir, Head(w.comps)) # {}
AtLink(w)   == /\ w.comps # <<>> /\ ~AtDots(w) /\ ~AtSubDir(w)
               /\ <<w.dir, Head(w.comps)>> \in DOMAIN links
               /\ Tail(w.comps) # <<>> \/ w.follow

GoesOn(w) == AtDots(w) \/ AtSubDir(w) \/ (AtLink(w) /\ w.left > 0)

Onward(w) ==
  LET name == Head(w.comps)   rest == Tail(w.comps)   target == links[<<w.dir, name>>] IN
  IF AtDots(w) THEN Walk(Parent(w.dir), rest, w.follow, w.left)
  ELSE IF AtSubDir(w)
       THEN Walk(CHOOSE d \in SubDir(w.dir, name) : TRUE, rest, w.follow, w.left)
  ELSE Walk(IF target.abs THEN Root ELSE w.dir, target.comps \o rest, w.follow, w.left - 1)

EndOf(w) ==
  IF w.comps = <<>> THEN IsDir(w.dir)
  ELSE IF AtLink(w) THEN Failed("ELOOP")
  ELSE IF Tail(w.comps) = <<>> THEN Entry(w.dir, Head(w.comps))
  ELSE Failed("ENOENT")

Arrives[w \in Walks] == IF GoesOn(w) THEN Arrives[Onward(w)] ELSE EndOf(w)

Resolve(p, follow) ==
  IF Len(p.comps) > PathMax THEN Failed("ENAMETOOLONG")
  ELSE Arrives[Walk(Start(p), p.comps, follow, maxLinks)]

\* Of a path's last component: a link, the open file, a directory, or nothing.
Lstat(p) ==
  LET found == Resolve(p, FALSE) IN
  IF found.is # "entry" THEN found
  ELSE IF found.at \in DOMAIN links THEN [found EXCEPT !.is = "link"]
  ELSE IF found = file THEN [found EXCEPT !.is = "file"]
  ELSE Failed("ENOENT")

-----------------------------------------------------------------------------
(* The file is opened, or created where its path leads. *)

\* A path that ends at a directory, or nowhere, opens nothing; SyncParent called
\* with it all the same finds its own way.
Open ==
  /\ state = "open"
  /\ file' = IF Resolve(asked, TRUE).is = "entry" THEN Resolve(asked, TRUE) ELSE NoEntry
  /\ state' = "walk"
  /\ UNCHANGED <<links, asked, path, hops, synced>>

-----------------------------------------------------------------------------
(* SyncParent. *)

\* Mutant: the directory part is cleaned, as filepath.Dir does: a name and the
\* ".." after it go.
rawDirCleaned(p) ==
  LET drop(comps, name) == IF name = Dots /\ comps # <<>> /\ Last(comps) # Dots
                           THEN Front(comps) ELSE Append(comps, name)
  IN [p EXCEPT !.comps = FoldLeft(drop, <<>>, Front(@))]

\* The path up to its last separator, with nothing tidied away.
rawDir(p) == [p EXCEPT !.comps = Front(@)]

\* Mutant: a relative target is taken from where the process is.
JoinedToWorkDir(dir, target) == target

Joined(dir, target) ==
  IF target.abs THEN target ELSE [dir EXCEPT !.comps = @ \o target.comps]

\* Mutant: one link fewer than the kernel follows.
TooManyEarly == hops >= maxLinks

TooMany == hops > maxLinks

Fails == state' = "failed" /\ UNCHANGED <<path, hops, synced>>

\* SyncDir opens the directory, which follows every link, and fsyncs it.
SyncDir(dir) ==
  LET found == Resolve(dir, TRUE) IN
  IF found.is = "dir"
  THEN state' = "done" /\ synced' = found.at /\ UNCHANGED <<path, hops>>
  ELSE Fails

Hop ==
  /\ state = "walk"
  /\ IF TooMany THEN Fails
     ELSE CASE Lstat(path).is \in {"file", "dir"} -> SyncDir(rawDir(path))
            [] Lstat(path).is = "link" ->
                 /\ path' = Joined(rawDir(path), links[Lstat(path).at])
                 /\ hops' = hops + 1
                 /\ UNCHANGED <<state, synced>>
            [] OTHER -> Fails
  /\ UNCHANGED <<links, file, asked>>

-----------------------------------------------------------------------------
Slots == {s \in Directories \X Names : SubDir(s[1], s[2]) = {}}

Init ==
  /\ \E some \in {s \in SUBSET Slots : Cardinality(s) <= Links} : links \in [some -> Targets]
  /\ asked \in Targets
  /\ path = asked
  /\ file = NoEntry
  /\ hops = 0 /\ state = "open" /\ synced = <<>>

Next == Open \/ Hop

Spec == Init /\ [][Next]_vars

-----------------------------------------------------------------------------
(* Properties. *)

\* The directory that is fsynced is the one the kernel put the file's entry in,
\* whatever links and ".." the path leads through.
SyncsTheFilesDirectory ==
  state = "done" /\ file # NoEntry => synced = <<file.at[1]>>

\* A file the kernel opens is never refused for its path, however near to the limit
\* of links it is, but for the one documented case: a relative target that, joined
\* to the directory of its link, is longer than a path may be.
OpensWhatTheKernelOpens ==
  state = "failed" /\ file # NoEntry => Len(path.comps) > PathMax

=============================================================================
