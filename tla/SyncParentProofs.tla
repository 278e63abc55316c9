--------------------------- MODULE SyncParentProofs ---------------------------
(***************************************************************************)
(* SyncParent syncs the directory of the file, and refuses no file that    *)
(* the kernel opens, proved for every tree of directories, every set of    *)
(* links, cycles too, and every path.                                      *)
(*                                                                         *)
(* The kernel follows a link where it stands, with the links it has left;  *)
(* SyncParent starts from the top after each, with all of them again.      *)
(* That the two meet rests on what a walk along the first components of a  *)
(* path does: it ends in one directory, having used some number of links,  *)
(* whatever comes after and however many are left (Reaches).               *)
(***************************************************************************)
EXTENDS SyncParent, SequenceTheorems, WellFoundedInduction, TLAPS

-----------------------------------------------------------------------------
(* Induction over walks: by the links that are left, then by the components. *)

LEMMA LeastNumber ==
  ASSUME NEW T \in SUBSET Nat, T # {}
  PROVE  \E n \in T : \A m \in T : n <= m
<1>1. PICK R : R = {ss \in Nat \X Nat : ss[1] < ss[2]} /\ IsWellFoundedOn(R, Nat)
  BY NatLessThanWellFounded DEF OpToRel
<1>2. PICK n \in T : \A m \in T : ~ (<<m, n>> \in R)
  BY <1>1, WFMin, Zenon
<1>3. ASSUME NEW m \in T PROVE n <= m
  <2>1. m \in Nat /\ n \in Nat
    OBVIOUS
  <2>2. m < n => <<m, n>> \in R
    BY <1>1, <2>1
  <2> QED BY <1>2, <2>1, <2>2
<1> QED BY <1>3, Zenon

Before(v, w) == v.left < w.left \/ (v.left = w.left /\ Len(v.comps) < Len(w.comps))

LEMMA WalkHas ==
  ASSUME NEW w \in Walks
  PROVE  /\ w.dir \in Directories /\ w.comps \in Seq(Components) /\ w.follow \in BOOLEAN
         /\ w.left \in Nat /\ Len(w.comps) \in Nat
         /\ w = Walk(w.dir, w.comps, w.follow, w.left)
BY LenProperties DEF Walks, Walk

LEMMA BeforeIsTransitive ==
  ASSUME NEW u \in Walks, NEW v \in Walks, NEW w \in Walks, Before(u, v), Before(v, w)
  PROVE  Before(u, w)
BY WalkHas DEF Before

LEMMA WalkInduction ==
  ASSUME NEW T \in SUBSET Walks,
         \A w \in Walks : (\A v \in Walks : Before(v, w) => v \in T) => w \in T
  PROVE  T = Walks
<1> SUFFICES ASSUME Walks \ T # {} PROVE FALSE
  OBVIOUS
<1>1. PICK U : U = Walks \ T
  OBVIOUS
<1>2. PICK left \in {w.left : w \in U} : \A n \in {w.left : w \in U} : left <= n
  <2>1. {w.left : w \in U} \in SUBSET Nat /\ {w.left : w \in U} # {}
    BY <1>1, WalkHas
  <2> QED BY <2>1, LeastNumber, Zenon
<1>3. PICK V : V = {w \in U : w.left = left}
  OBVIOUS
<1>4. PICK n \in {Len(w.comps) : w \in V} : \A m \in {Len(w.comps) : w \in V} : n <= m
  <2>1. V # {}
    BY <1>2, <1>3
  <2>2. \A w \in V : w \in Walks /\ Len(w.comps) \in Nat
    BY <1>1, <1>3, WalkHas
  <2>3. {Len(w.comps) : w \in V} \in SUBSET Nat /\ {Len(w.comps) : w \in V} # {}
    <3>1. \A n \in {Len(w.comps) : w \in V} : n \in Nat
      BY <2>2
    <3>2. PICK w \in V : Len(w.comps) \in {Len(x.comps) : x \in V}
      BY <2>1
    <3> QED BY <3>1, <3>2, Zenon
  <2> QED BY <2>3, LeastNumber, Zenon
<1>5. PICK w \in V : n = Len(w.comps)
  BY <1>4
<1>6. w \in Walks /\ w \notin T /\ w.left = left
  BY <1>1, <1>3, <1>5
<1>7. ASSUME NEW v \in Walks, Before(v, w) PROVE v \in T
  <2>1. SUFFICES ASSUME v \in U PROVE FALSE
    BY <1>1
  <2>2. left <= v.left /\ v.left \in Nat /\ left \in Nat
    BY <1>2, <1>6, <2>1, WalkHas
  <2>3. v.left = left /\ Len(v.comps) < n
    BY <1>5, <1>6, <1>7, <2>2 DEF Before
  <2>4. n <= Len(v.comps) /\ Len(v.comps) \in Nat /\ n \in Nat
    BY <1>3, <1>4, <1>5, <2>1, <2>3, WalkHas
  <2> QED BY <2>3, <2>4
<1> QED BY <1>6, <1>7

-----------------------------------------------------------------------------
(* Arrives is a recursive function: it is there, and unfolds. *)

LinksOk == \A at \in DOMAIN links : links[at] \in Paths

LEMMA TreeIs ==
  /\ \A dir \in Directories : Parent(dir) \in Directories
  /\ \A dir, name : SubDir(dir, name) \subseteq Directories
<1>1. ASSUME NEW dir \in Directories PROVE Parent(dir) \in Directories
  <2>1. CASE dir = Root
    BY <2>1 DEF Parent, Directories
  <2>2. CASE dir # Root
    <3>1. \E d \in Dirs : d[1] = dir
      BY <2>2 DEF Directories
    <3>2. (CHOOSE d \in Dirs : d[1] = dir) \in Dirs
      BY <3>1
    <3> QED BY <2>2, <3>2, TreeAssumption DEF Parent
  <2> QED BY <2>1, <2>2
<1>2. ASSUME NEW dir, NEW name PROVE SubDir(dir, name) \subseteq Directories
  BY DEF SubDir, Directories
<1> QED BY <1>1, <1>2

LEMMA OnwardIsBefore ==
  ASSUME LinksOk, NEW w \in Walks, GoesOn(w)
  PROVE  Onward(w) \in Walks /\ Before(Onward(w), w)
<1>1. /\ w.dir \in Directories /\ w.comps \in Seq(Components) /\ w.follow \in BOOLEAN
      /\ w.left \in Nat /\ Len(w.comps) \in Nat
  BY WalkHas
<1>2. w.comps # <<>>
  BY DEF GoesOn, AtDots, AtSubDir, AtLink
<1>3. PICK rest \in Seq(Components) : rest = Tail(w.comps) /\ Len(rest) = Len(w.comps) - 1
  BY <1>1, <1>2, HeadTailProperties
<1>4. PICK n \in Nat : n = Len(rest) /\ Len(w.comps) = n + 1
  <2>1. Len(rest) \in Nat
    BY LenProperties
  <2>2. Len(w.comps) = Len(rest) + 1
    BY <1>1, <1>3
  <2> QED BY <2>1, <2>2, Zenon
<1>5. ASSUME NEW dir \in Directories
      PROVE  /\ Walk(dir, rest, w.follow, w.left) \in Walks
             /\ Before(Walk(dir, rest, w.follow, w.left), w)
  <2>1. n < n + 1
    OBVIOUS
  <2>2. Walk(dir, rest, w.follow, w.left) \in Walks
    BY <1>1 DEF Walk, Walks
  <2> QED BY <1>4, <2>1, <2>2 DEF Walk, Before
<1>6. CASE AtDots(w)
  BY <1>1, <1>3, <1>5, <1>6, TreeIs DEF Onward
<1>7. CASE ~AtDots(w) /\ AtSubDir(w)
  <2>1. PICK d \in Directories : d = CHOOSE e \in SubDir(w.dir, Head(w.comps)) : TRUE
    BY <1>7, TreeIs DEF AtSubDir
  <2>2. Onward(w) = Walk(d, rest, w.follow, w.left)
    BY <1>3, <1>7, <2>1 DEF Onward
  <2> QED BY <1>5, <2>2
<1>8. CASE ~AtDots(w) /\ ~AtSubDir(w)
  <2>1. AtLink(w) /\ w.left > 0
    BY <1>8 DEF GoesOn
  <2>2. PICK target \in Paths : target = links[<<w.dir, Head(w.comps)>>]
    BY <2>1 DEF AtLink, LinksOk
  <2>3. PICK dir \in Directories : dir = IF target.abs THEN Root ELSE w.dir
    BY <1>1 DEF Directories
  <2>4. target.comps \o rest \in Seq(Components)
    BY ConcatProperties DEF Paths
  <2>5. w.left - 1 \in Nat /\ w.left - 1 < w.left
    BY <1>1, <2>1
  <2>6. Onward(w) = Walk(dir, target.comps \o rest, w.follow, w.left - 1)
    BY <1>3, <1>8, <2>2, <2>3 DEF Onward
  <2>7. Onward(w) \in Walks
    BY <1>1, <2>4, <2>5, <2>6 DEF Walk, Walks
  <2> QED BY <2>5, <2>6, <2>7 DEF Walk, Before
<1> QED BY <1>6, <1>7, <1>8

Body(f, w)     == IF GoesOn(w) THEN f[Onward(w)] ELSE EndOf(w)
Upto(w)        == {v \in Walks : Before(v, w)}
Solves(f, S)   == f = [v \in S |-> Body(f, v)]
Solution(w)    == CHOOSE f : Solves(f, Upto(w))

LEMMA SolutionsAgree ==
  ASSUME LinksOk, NEW w \in Walks, NEW x \in Walks, NEW f, NEW g,
         Solves(f, Upto(w)), Solves(g, Upto(x)), NEW v \in Upto(w), v \in Upto(x)
  PROVE  f[v] = g[v]
<1> DEFINE T == {u \in Walks : u \in Upto(w) /\ u \in Upto(x) => f[u] = g[u]}
<1>1. ASSUME NEW u \in Walks, \A t \in Walks : Before(t, u) => t \in T,
             u \in Upto(w), u \in Upto(x)
      PROVE  f[u] = g[u]
  <2>1. f[u] = Body(f, u) /\ g[u] = Body(g, u)
    BY <1>1, Zenon DEF Solves
  <2>2. CASE GoesOn(u)
    <3>1. PICK t \in Walks : t = Onward(u) /\ Before(t, u)
      BY <2>2, OnwardIsBefore
    <3>2. t \in Upto(w) /\ t \in Upto(x)
      BY <1>1, <3>1, BeforeIsTransitive DEF Upto
    <3>3. f[t] = g[t]
      BY <1>1, <3>1, <3>2
    <3> QED BY <2>1, <2>2, <3>1, <3>3 DEF Body
  <2>3. CASE ~GoesOn(u)
    BY <2>1, <2>3 DEF Body
  <2> QED BY <2>2, <2>3
<1>2. T = Walks
  <2>1. T \in SUBSET Walks
    OBVIOUS
  <2>2. \A u \in Walks : (\A t \in Walks : Before(t, u) => t \in T) => u \in T
    BY <1>1
  <2> HIDE DEF T
  <2> QED BY <2>1, <2>2, WalkInduction
<1>3. v \in Walks
  BY DEF Upto
<1> QED BY <1>2, <1>3

\* What is solved before every walk of a set is solved for the set.
LEMMA SolutionsMeet ==
  ASSUME LinksOk, NEW S \in SUBSET Walks,
         \A w \in S : \A v \in Walks : Before(v, w) => v \in S,
         \A w \in S : \E f : Solves(f, Upto(w))
  PROVE  \E f : Solves(f, S)
<1> DEFINE h == [w \in S |-> Body(Solution(w), w)]
<1>1. ASSUME NEW w \in S PROVE Solves(Solution(w), Upto(w))
  BY Zenon DEF Solution
<1>2. ASSUME NEW w \in S PROVE h[w] = Body(h, w)
  <2>1. h[w] = Body(Solution(w), w)
    OBVIOUS
  <2>2. CASE GoesOn(w)
    <3>1. PICK v \in Walks : v = Onward(w) /\ Before(v, w) /\ v \in S /\ v \in Upto(w)
      BY <2>2, OnwardIsBefore DEF Upto
    <3>2. Body(h, w) = h[v] /\ h[v] = Body(Solution(v), v)
      BY <2>2, <3>1 DEF Body
    <3>3. Body(Solution(w), w) = Solution(w)[v]
      BY <2>2, <3>1 DEF Body
    <3>4. Solution(w)[v] = Body(Solution(w), v)
      <4>1. Solves(Solution(w), Upto(w))
        BY <1>1
      <4> QED BY <3>1, <4>1, Zenon DEF Solves
    <3>5. Body(Solution(w), v) = Body(Solution(v), v)
      <4>1. CASE GoesOn(v)
        <5>1. PICK u \in Walks : u = Onward(v) /\ Before(u, v)
          BY <4>1, OnwardIsBefore
        <5>2. u \in Upto(v) /\ u \in Upto(w)
          BY <3>1, <5>1, BeforeIsTransitive DEF Upto
        <5>3. Solution(w)[u] = Solution(v)[u]
          <6>1. Solves(Solution(w), Upto(w)) /\ Solves(Solution(v), Upto(v))
            BY <1>1, <3>1
          <6>2. PICK f, g : f = Solution(w) /\ g = Solution(v)
            OBVIOUS
          <6>3. w \in Walks /\ LinksOk /\ Solves(f, Upto(w)) /\ Solves(g, Upto(v))
            BY <6>1, <6>2
          <6>4. f[u] = g[u]
            BY <5>2, <6>3, SolutionsAgree
          <6> QED BY <6>2, <6>4
        <5> QED BY <4>1, <5>1, <5>3 DEF Body
      <4>2. CASE ~GoesOn(v)
        BY <4>2 DEF Body
      <4> QED BY <4>1, <4>2
    <3> QED BY <2>1, <3>2, <3>3, <3>4, <3>5
  <2>3. CASE ~GoesOn(w)
    BY <2>1, <2>3 DEF Body
  <2> QED BY <2>2, <2>3
<1>3. h = [w \in S |-> h[w]]
  OBVIOUS
<1> HIDE DEF h
<1>4. Solves(h, S)
  BY <1>2, <1>3, Zenon DEF Solves
<1> QED BY <1>4

LEMMA ArrivesUnfolds ==
  ASSUME LinksOk, NEW w \in Walks
  PROVE  Arrives[w] = IF GoesOn(w) THEN Arrives[Onward(w)] ELSE EndOf(w)
<1> DEFINE T == {v \in Walks : \E f : Solves(f, Upto(v))}
<1>1. ASSUME NEW v \in Walks, \A u \in Walks : Before(u, v) => u \in T
      PROVE  \E f : Solves(f, Upto(v))
  <2>1. Upto(v) \in SUBSET Walks
    BY DEF Upto
  <2>2. \A t \in Upto(v) : \A u \in Walks : Before(u, t) => u \in Upto(v)
    BY BeforeIsTransitive DEF Upto
  <2>3. \A t \in Upto(v) : \E f : Solves(f, Upto(t))
    BY <1>1 DEF Upto
  <2> QED BY <2>1, <2>2, <2>3, SolutionsMeet, Zenon
<1>2. T = Walks
  <2>1. T \in SUBSET Walks
    OBVIOUS
  <2>2. \A v \in Walks : (\A u \in Walks : Before(u, v) => u \in T) => v \in T
    BY <1>1
  <2> HIDE DEF T
  <2> QED BY <2>1, <2>2, WalkInduction
<1>3. \E f : Solves(f, Walks)
  <2>1. \A v \in Walks : \E f : Solves(f, Upto(v))
    BY <1>2
  <2> QED BY <2>1, SolutionsMeet, Zenon
<1>4. \E f : f = [v \in Walks |-> IF GoesOn(v) THEN f[Onward(v)] ELSE EndOf(v)]
  BY <1>3 DEF Solves, Body
<1>5. Arrives = [v \in Walks |-> IF GoesOn(v) THEN Arrives[Onward(v)] ELSE EndOf(v)]
  BY <1>4, Zenon DEF Arrives
<1> QED BY <1>5, Zenon

-----------------------------------------------------------------------------
(* One component of a walk.                                                *)

Passes(dir, name) == name = Dots \/ SubDir(dir, name) # {}
To(dir, name)     == IF name = Dots THEN Parent(dir) ELSE CHOOSE d \in SubDir(dir, name) : TRUE
IsLink(dir, name) == ~Passes(dir, name) /\ <<dir, name>> \in DOMAIN links
From(dir, name)   == IF links[<<dir, name>>].abs THEN Root ELSE dir
Led(dir, name)    == links[<<dir, name>>].comps

LEMMA PlacesAre ==
  ASSUME LinksOk, NEW dir \in Directories, NEW name
  PROVE  /\ Passes(dir, name) => To(dir, name) \in Directories
         /\ IsLink(dir, name) => From(dir, name) \in Directories /\ Led(dir, name) \in Seq(Components)
<1>1. Passes(dir, name) => To(dir, name) \in Directories
  <2>1. CASE name = Dots
    BY <2>1, TreeIs DEF To
  <2>2. CASE name # Dots /\ SubDir(dir, name) # {}
    <3>1. (CHOOSE d \in SubDir(dir, name) : TRUE) \in SubDir(dir, name)
      BY <2>2
    <3> QED BY <2>2, <3>1, TreeIs DEF To
  <2> QED BY <2>1, <2>2 DEF Passes
<1>2. ASSUME IsLink(dir, name) PROVE From(dir, name) \in Directories /\ Led(dir, name) \in Seq(Components)
  <2>1. links[<<dir, name>>] \in Paths /\ Root \in Directories
    BY <1>2 DEF IsLink, LinksOk, Directories
  <2> QED BY <2>1 DEF From, Led, Paths
<1> QED BY <1>1, <1>2

LEMMA NoEntries ==
  /\ Failed("ELOOP").is # "entry" /\ Failed("ENOENT").is # "entry"
  /\ Failed("ENAMETOOLONG").is # "entry" /\ NoEntry.is # "entry"
  /\ \A dir : IsDir(dir).is # "entry"
BY DEF Failed, IsDir, NoEntry

LEMMA AtTheEnd ==
  ASSUME LinksOk, NEW dir \in Directories, NEW follow \in BOOLEAN, NEW left \in Nat
  PROVE  Arrives[Walk(dir, <<>>, follow, left)] = IsDir(dir)
<1>1. PICK w : w = Walk(dir, <<>>, follow, left)
  OBVIOUS
<1>2. w.dir = dir /\ w.comps = <<>> /\ w \in Walks
  <2>1. <<>> \in Seq(Components)
    BY EmptySeq
  <2> QED BY <1>1, <2>1 DEF Walk, Walks
<1>3. ~GoesOn(w) /\ EndOf(w) = IsDir(dir)
  BY <1>2 DEF GoesOn, AtDots, AtSubDir, AtLink, EndOf
<1> QED BY <1>1, <1>2, <1>3, ArrivesUnfolds

LEMMA OneComponent ==
  ASSUME LinksOk, NEW dir \in Directories, NEW comps \in Seq(Components), comps # <<>>,
         NEW follow \in BOOLEAN, NEW left \in Nat
  PROVE  /\ Passes(dir, Head(comps))
              => Arrives[Walk(dir, comps, follow, left)]
                   = Arrives[Walk(To(dir, Head(comps)), Tail(comps), follow, left)]
         /\ IsLink(dir, Head(comps)) /\ (Tail(comps) # <<>> \/ follow)
              => Arrives[Walk(dir, comps, follow, left)]
                   = IF left = 0 THEN Failed("ELOOP")
                     ELSE Arrives[Walk(From(dir, Head(comps)), Led(dir, Head(comps)) \o Tail(comps),
                                       follow, left - 1)]
         /\ ~Passes(dir, Head(comps)) /\ ~ (IsLink(dir, Head(comps)) /\ (Tail(comps) # <<>> \/ follow))
              => Arrives[Walk(dir, comps, follow, left)]
                   = IF Tail(comps) = <<>> THEN Entry(dir, Head(comps)) ELSE Failed("ENOENT")
<1>1. PICK w, name, tail :
        w = Walk(dir, comps, follow, left) /\ name = Head(comps) /\ tail = Tail(comps)
  OBVIOUS
<1>2. /\ w.dir = dir /\ w.comps = comps /\ w.follow = follow /\ w.left = left /\ w \in Walks
  BY <1>1 DEF Walk, Walks
<1>3. Arrives[w] = IF GoesOn(w) THEN Arrives[Onward(w)] ELSE EndOf(w)
  BY <1>1, <1>2, ArrivesUnfolds
<1>4. CASE Passes(dir, name)
  <2>1. AtDots(w) \/ AtSubDir(w)
    BY <1>1, <1>2, <1>4 DEF Passes, AtDots, AtSubDir
  <2>2. Onward(w) = Walk(To(dir, name), tail, follow, left)
    BY <1>1, <1>2, <1>4, <2>1 DEF Onward, To, AtDots, AtSubDir, Passes
  <2> QED BY <1>1, <1>3, <1>4, <2>1, <2>2 DEF GoesOn, IsLink
<1>5. ASSUME ~Passes(dir, name) PROVE ~AtDots(w) /\ ~AtSubDir(w)
  BY <1>1, <1>2, <1>5 DEF Passes, AtDots, AtSubDir
<1>6. CASE IsLink(dir, name) /\ (tail # <<>> \/ follow)
  <2>1. AtLink(w) /\ ~AtDots(w) /\ ~AtSubDir(w)
    BY <1>1, <1>2, <1>5, <1>6 DEF AtLink, IsLink
  <2>2. Onward(w) = Walk(From(dir, name), Led(dir, name) \o tail, follow, left - 1)
    BY <1>1, <1>2, <2>1 DEF Onward, From, Led
  <2>3. EndOf(w) = Failed("ELOOP")
    BY <1>1, <1>2, <2>1 DEF EndOf
  <2>4. GoesOn(w) <=> left # 0
    BY <1>1, <1>2, <2>1 DEF GoesOn
  <2> QED BY <1>1, <1>3, <1>6, <2>2, <2>3, <2>4 DEF IsLink
<1>7. CASE ~Passes(dir, name) /\ ~ (IsLink(dir, name) /\ (tail # <<>> \/ follow))
  <2>1. ~AtLink(w) /\ ~AtDots(w) /\ ~AtSubDir(w)
    BY <1>1, <1>2, <1>5, <1>7 DEF AtLink, IsLink
  <2>2. EndOf(w) = IF tail = <<>> THEN Entry(dir, name) ELSE Failed("ENOENT")
    BY <1>1, <1>2, <2>1 DEF EndOf
  <2> QED BY <1>1, <1>3, <1>7, <2>1, <2>2 DEF GoesOn
<1> QED BY <1>4, <1>6, <1>7 DEF IsLink

LEMMA GoesTo ==
  ASSUME LinksOk, NEW dir \in Directories, NEW comps \in Seq(Components), comps # <<>>,
         NEW follow \in BOOLEAN, NEW left \in Nat, Passes(dir, Head(comps))
  PROVE  Arrives[Walk(dir, comps, follow, left)]
           = Arrives[Walk(To(dir, Head(comps)), Tail(comps), follow, left)]
BY OneComponent

LEMMA Associate ==
  ASSUME NEW a \in Seq(Components), NEW b \in Seq(Components), NEW c \in Seq(Components)
  PROVE  (a \o b) \o c = a \o (b \o c)
BY ConcatAssociative

LEMMA HeadAndTail ==
  ASSUME NEW comps \in Seq(Components), NEW rest \in Seq(Components), comps # <<>>
  PROVE  /\ Head(comps) \in Components
         /\ Tail(comps) \in Seq(Components) /\ Len(Tail(comps)) < Len(comps)
         /\ comps \o rest \in Seq(Components) /\ comps \o rest # <<>>
         /\ Head(comps \o rest) = Head(comps) /\ Tail(comps \o rest) = Tail(comps) \o rest
         /\ rest # <<>> => Tail(comps) \o rest # <<>>
<1>1. /\ Head(comps) \in Components /\ Tail(comps) \in Seq(Components)
      /\ Len(Tail(comps)) = Len(comps) - 1
      /\ comps = <<Head(comps)>> \o Tail(comps)
  BY HeadTailProperties
<1>2. PICK h \in Components, t \in Seq(Components) :
        h = Head(comps) /\ t = Tail(comps) /\ comps = <<h>> \o t
  BY <1>1
<1>3. PICK b : b \in Seq(Components) /\ b = t \o rest
  BY ConcatProperties
<1>4. comps \o rest = <<h>> \o b
  <2>1. PICK a \in Seq(Components) : a = <<h>>
    <3>1. <<h>> \in Seq(Components)
      OBVIOUS
    <3> QED BY <3>1, Zenon
  <2>2. (a \o t) \o rest = a \o (t \o rest)
    BY ConcatAssociative
  <2> QED BY <1>2, <1>3, <2>1, <2>2, Zenon
<1>5. /\ Len(<<h>> \o b) = 1 + Len(b) /\ Len(b) \in Nat /\ (<<h>> \o b) \in Seq(Components)
      /\ (<<h>> \o b)[1] = h /\ \A i \in 1 .. Len(b) : (<<h>> \o b)[i + 1] = b[i]
  BY <1>3, LenProperties
<1>6. Head(<<h>> \o b) = h /\ Tail(<<h>> \o b) = b /\ <<h>> \o b # <<>>
  <2>1. <<h>> \o b # <<>>
    BY <1>5
  <2>2. PICK s \in Seq(Components) : s = <<h>> \o b /\ s # <<>>
    BY <1>5, <2>1
  <2>3. /\ Tail(s) \in Seq(Components) /\ Len(Tail(s)) = Len(s) - 1
        /\ \A i \in 1 .. Len(Tail(s)) : Tail(s)[i] = s[i + 1]
    BY <2>2, HeadTailProperties
  <2>4. Len(Tail(s)) = Len(b)
    BY <1>5, <2>2, <2>3
  <2>5. Tail(s) = b
    BY <1>5, <2>2, <2>3, <2>4, SeqEqual
  <2>6. Head(s) = h
    BY <1>5, <2>2
  <2> QED BY <2>2, <2>5, <2>6
<1>7. rest # <<>> => b # <<>>
  BY <1>3, ConcatEqualIffEmpty
<1>8. Len(Tail(comps)) < Len(comps)
  BY <1>1, LenProperties
<1> QED BY <1>1, <1>2, <1>3, <1>4, <1>5, <1>6, <1>7, <1>8

-----------------------------------------------------------------------------
(* Walks along the first components of a path.                             *)

\* From dir along comps a walk comes to d, having followed k links, whatever comes
\* after comps and however many links, k at least, it may follow.
Reaches(dir, comps, d, k) ==
  \A left \in Nat, follow \in BOOLEAN, rest \in Seq(Components) :
    left >= k /\ (rest # <<>> \/ follow)
      => Arrives[Walk(dir, comps \o rest, follow, left)] = Arrives[Walk(d, rest, follow, left - k)]

\* With no more than `left` links it comes to no entry, whatever comes after comps.
StopsShort(dir, comps, left) ==
  \A follow \in BOOLEAN, rest \in Seq(Components) :
    rest # <<>> => Arrives[Walk(dir, comps \o rest, follow, left)].is # "entry"

LEMMA NoComponents ==
  ASSUME NEW dir
  PROVE  Reaches(dir, <<>>, dir, 0)
<1> SUFFICES ASSUME NEW left \in Nat, NEW follow \in BOOLEAN, NEW rest \in Seq(Components)
             PROVE  Arrives[Walk(dir, <<>> \o rest, follow, left)]
                      = Arrives[Walk(dir, rest, follow, left - 0)]
  BY DEF Reaches
<1>1. <<>> \o rest = rest /\ left - 0 = left
  BY ConcatEmptySeq
<1> QED BY <1>1

\* One component, of a path that goes on.
LEMMA PassesOn ==
  ASSUME LinksOk, NEW dir \in Directories, NEW comps \in Seq(Components), comps # <<>>,
         NEW rest \in Seq(Components), NEW follow \in BOOLEAN, NEW left \in Nat,
         Passes(dir, Head(comps))
  PROVE  Arrives[Walk(dir, comps \o rest, follow, left)]
           = Arrives[Walk(To(dir, Head(comps)), Tail(comps) \o rest, follow, left)]
<1>1. PICK whole \in Seq(Components) :
        /\ whole = comps \o rest /\ whole # <<>>
        /\ Head(whole) = Head(comps) /\ Tail(whole) = Tail(comps) \o rest
  BY HeadAndTail
<1>2. Passes(dir, Head(whole)) /\ LinksOk
  BY <1>1
<1>3. Arrives[Walk(dir, whole, follow, left)]
        = Arrives[Walk(To(dir, Head(whole)), Tail(whole), follow, left)]
  BY <1>1, <1>2, OneComponent, ZenonT(40)
<1> QED BY <1>1, <1>3

LEMMA FollowsOn ==
  ASSUME LinksOk, NEW dir \in Directories, NEW comps \in Seq(Components), comps # <<>>,
         NEW rest \in Seq(Components), NEW follow \in BOOLEAN, NEW left \in Nat,
         IsLink(dir, Head(comps)), rest # <<>> \/ follow, left # 0
  PROVE  Arrives[Walk(dir, comps \o rest, follow, left)]
           = Arrives[Walk(From(dir, Head(comps)), (Led(dir, Head(comps)) \o Tail(comps)) \o rest,
                          follow, left - 1)]
<1>1. PICK whole \in Seq(Components) :
        /\ whole = comps \o rest /\ whole # <<>>
        /\ Head(whole) = Head(comps) /\ Tail(whole) = Tail(comps) \o rest
        /\ rest # <<>> => Tail(comps) \o rest # <<>>
  BY HeadAndTail
<1>2. IsLink(dir, Head(whole)) /\ (Tail(whole) # <<>> \/ follow) /\ LinksOk
  BY <1>1
<1>3. Arrives[Walk(dir, whole, follow, left)]
        = Arrives[Walk(From(dir, Head(whole)), Led(dir, Head(whole)) \o Tail(whole), follow, left - 1)]
  BY <1>1, <1>2, OneComponent, ZenonT(40)
<1>4. Led(dir, Head(comps)) \in Seq(Components) /\ Tail(comps) \in Seq(Components)
  BY PlacesAre, HeadAndTail
<1>5. (Led(dir, Head(comps)) \o Tail(comps)) \o rest = Led(dir, Head(comps)) \o (Tail(comps) \o rest)
  BY <1>4, Associate, ZenonT(40)
<1> QED BY <1>1, <1>3, <1>5

LEMMA FollowsLink ==
  ASSUME LinksOk, NEW dir \in Directories, NEW comps \in Seq(Components), comps # <<>>,
         IsLink(dir, Head(comps)), NEW left \in Nat
  PROVE  IF left = 0 THEN Arrives[Walk(dir, comps, TRUE, left)] = Failed("ELOOP")
         ELSE Arrives[Walk(dir, comps, TRUE, left)]
                = Arrives[Walk(From(dir, Head(comps)), Led(dir, Head(comps)) \o Tail(comps), TRUE, left - 1)]
<1>1. CASE left = 0
  BY <1>1, OneComponent
<1>2. CASE left # 0
  BY <1>2, OneComponent
<1> QED BY <1>1, <1>2

LEMMA EndsThere ==
  ASSUME LinksOk, NEW dir \in Directories, NEW comps \in Seq(Components), comps # <<>>,
         NEW rest \in Seq(Components), NEW follow \in BOOLEAN, NEW left \in Nat,
         ~Passes(dir, Head(comps)), ~IsLink(dir, Head(comps)) \/ left = 0, rest # <<>>
  PROVE  Arrives[Walk(dir, comps \o rest, follow, left)].is # "entry"
<1>1. PICK whole \in Seq(Components) :
        /\ whole = comps \o rest /\ whole # <<>> /\ Tail(whole) # <<>>
        /\ Head(whole) = Head(comps)
  <2>1. /\ comps \o rest \in Seq(Components) /\ comps \o rest # <<>>
        /\ Tail(comps \o rest) # <<>> /\ Head(comps \o rest) = Head(comps)
    <3>1. /\ comps \o rest \in Seq(Components) /\ comps \o rest # <<>>
          /\ Head(comps \o rest) = Head(comps) /\ Tail(comps \o rest) = Tail(comps) \o rest
      BY HeadAndTail
    <3>2. Tail(comps) \o rest # <<>>
      BY HeadAndTail
    <3> QED BY <3>1, <3>2, Zenon
  <2> QED BY <2>1, Zenon
<1>2. ~Passes(dir, Head(whole)) /\ LinksOk
  BY <1>1
<1>3. CASE IsLink(dir, Head(whole))
  <2>1. left = 0
    BY <1>1, <1>3
  <2>2. Arrives[Walk(dir, whole, follow, left)] = Failed("ELOOP")
    BY <1>1, <1>2, <1>3, <2>1, OneComponent, ZenonT(60)
  <2> QED BY <1>1, <2>2 DEF Failed
<1>4. CASE ~IsLink(dir, Head(whole))
  <2>1. Arrives[Walk(dir, whole, follow, left)] = Failed("ENOENT")
    BY <1>1, <1>2, <1>4, OneComponent
  <2> QED BY <1>1, <2>1 DEF Failed
<1> QED BY <1>3, <1>4

LEMMA PassingReaches ==
  ASSUME LinksOk, NEW dir \in Directories, NEW comps \in Seq(Components), comps # <<>>,
         Passes(dir, Head(comps)), NEW d, NEW k \in Nat,
         Reaches(To(dir, Head(comps)), Tail(comps), d, k)
  PROVE  Reaches(dir, comps, d, k)
<1> SUFFICES ASSUME NEW left \in Nat, NEW follow \in BOOLEAN, NEW rest \in Seq(Components),
                    left >= k, rest # <<>> \/ follow
             PROVE  Arrives[Walk(dir, comps \o rest, follow, left)]
                      = Arrives[Walk(d, rest, follow, left - k)]
  BY DEF Reaches
<1>1. Arrives[Walk(dir, comps \o rest, follow, left)]
        = Arrives[Walk(To(dir, Head(comps)), Tail(comps) \o rest, follow, left)]
  BY PassesOn
<1>2. Arrives[Walk(To(dir, Head(comps)), Tail(comps) \o rest, follow, left)]
        = Arrives[Walk(d, rest, follow, left - k)]
  BY DEF Reaches
<1> QED BY <1>1, <1>2

LEMMA FollowingReaches ==
  ASSUME LinksOk, NEW dir \in Directories, NEW comps \in Seq(Components), comps # <<>>,
         IsLink(dir, Head(comps)), NEW d, NEW k \in Nat,
         Reaches(From(dir, Head(comps)), Led(dir, Head(comps)) \o Tail(comps), d, k)
  PROVE  Reaches(dir, comps, d, k + 1)
<1> SUFFICES ASSUME NEW left \in Nat, NEW follow \in BOOLEAN, NEW rest \in Seq(Components),
                    left >= k + 1, rest # <<>> \/ follow
             PROVE  Arrives[Walk(dir, comps \o rest, follow, left)]
                      = Arrives[Walk(d, rest, follow, left - (k + 1))]
  BY DEF Reaches
<1>1. PICK less \in Nat : less = left - 1 /\ left # 0 /\ less >= k /\ less - k = left - (k + 1)
  OBVIOUS
<1>2. PICK from, on : from = From(dir, Head(comps)) /\ on = Led(dir, Head(comps)) \o Tail(comps)
  OBVIOUS
<1>3. Arrives[Walk(dir, comps \o rest, follow, left)] = Arrives[Walk(from, on \o rest, follow, less)]
  BY <1>1, <1>2, FollowsOn
<1>4. Arrives[Walk(from, on \o rest, follow, less)] = Arrives[Walk(d, rest, follow, less - k)]
  BY <1>1, <1>2 DEF Reaches
<1> QED BY <1>1, <1>3, <1>4

LEMMA FollowingStops ==
  ASSUME LinksOk, NEW dir \in Directories, NEW comps \in Seq(Components), comps # <<>>,
         IsLink(dir, Head(comps)), NEW left \in Nat, left # 0,
         StopsShort(From(dir, Head(comps)), Led(dir, Head(comps)) \o Tail(comps), left - 1)
  PROVE  StopsShort(dir, comps, left)
<1> SUFFICES ASSUME NEW follow \in BOOLEAN, NEW rest \in Seq(Components), rest # <<>>
             PROVE  Arrives[Walk(dir, comps \o rest, follow, left)].is # "entry"
  BY DEF StopsShort
<1>1. PICK from, on, less :
        from = From(dir, Head(comps)) /\ on = Led(dir, Head(comps)) \o Tail(comps) /\ less = left - 1
  OBVIOUS
<1>2. Arrives[Walk(dir, comps \o rest, follow, left)] = Arrives[Walk(from, on \o rest, follow, less)]
  BY <1>1, FollowsOn
<1>3. StopsShort(from, on, less)
  BY <1>1
<1> QED BY <1>2, <1>3 DEF StopsShort

\* Along the first components of a path a walk comes to a directory, or stops.
LEMMA WalkSplits ==
  ASSUME LinksOk, NEW dir \in Directories, NEW comps \in Seq(Components), NEW left \in Nat
  PROVE  \/ \E d \in Directories, k \in 0 .. left : Reaches(dir, comps, d, k)
         \/ StopsShort(dir, comps, left)
<1> DEFINE Splits(w) == \/ \E d \in Directories, k \in 0 .. w.left : Reaches(w.dir, w.comps, d, k)
                        \/ StopsShort(w.dir, w.comps, w.left)
           T == {w \in Walks : Splits(w)}
<1>1. ASSUME NEW w \in Walks, \A v \in Walks : Before(v, w) => v \in T PROVE Splits(w)
  <2>1. /\ w.dir \in Directories /\ w.comps \in Seq(Components) /\ w.left \in Nat
        /\ 0 \in 0 .. w.left
    BY WalkHas
  <2>2. CASE w.comps = <<>>
    BY <2>1, <2>2, NoComponents
  <2>3. CASE w.comps # <<>>
    <3>1. PICK name \in Components, tail \in Seq(Components) :
            name = Head(w.comps) /\ tail = Tail(w.comps) /\ Len(tail) < Len(w.comps)
      BY <2>1, <2>3, HeadAndTail, EmptySeq
    <3>2. CASE Passes(w.dir, name)
      <4>1. PICK v \in Walks : v = Walk(To(w.dir, name), tail, TRUE, w.left)
        BY <2>1, <3>2, PlacesAre DEF Walk, Walks
      <4>2. /\ v.dir = To(w.dir, name) /\ v.comps = tail /\ v.left = w.left
        BY <4>1 DEF Walk
      <4>3. Splits(v)
        BY <1>1, <3>1, <4>2 DEF Before
      <4>4. CASE StopsShort(v.dir, v.comps, v.left)
        <5>1. ASSUME NEW follow \in BOOLEAN, NEW rest \in Seq(Components), rest # <<>>
              PROVE  Arrives[Walk(w.dir, w.comps \o rest, follow, w.left)].is # "entry"
          <6>1. Arrives[Walk(w.dir, w.comps \o rest, follow, w.left)]
                  = Arrives[Walk(v.dir, v.comps \o rest, follow, v.left)]
            BY <2>1, <2>3, <3>1, <3>2, <4>2, PassesOn
          <6> QED BY <4>4, <5>1, <6>1 DEF StopsShort
        <5> QED BY <5>1 DEF StopsShort
      <4>5. ASSUME NEW d \in Directories, NEW k \in 0 .. v.left, Reaches(v.dir, v.comps, d, k)
            PROVE  Splits(w)
        <5>1. Reaches(w.dir, w.comps, d, k)
          BY <2>1, <2>3, <3>1, <3>2, <4>2, <4>5, PassingReaches
        <5> QED BY <4>2, <5>1
      <4> QED BY <4>3, <4>4, <4>5
    <3>3. CASE IsLink(w.dir, name) /\ w.left # 0
      <4>1. PICK led \in Seq(Components) : led = Led(w.dir, name)
        BY <2>1, <3>3, PlacesAre
      <4>2. PICK on \in Seq(Components) : on = led \o tail
        BY ConcatProperties
      <4>3. PICK less \in Nat : less = w.left - 1 /\ less < w.left /\ less + 1 = w.left
        <5>1. PICK left1 \in Nat : left1 = w.left /\ left1 # 0
          BY <2>1, <3>3
        <5>2. left1 - 1 \in Nat /\ left1 - 1 < left1 /\ (left1 - 1) + 1 = left1
          BY <5>1
        <5> QED BY <5>1, <5>2
      <4>4. PICK v \in Walks : v = Walk(From(w.dir, name), on, TRUE, less)
        BY <2>1, <3>3, PlacesAre DEF Walk, Walks
      <4>5. /\ v.dir = From(w.dir, name) /\ v.comps = on /\ v.left = less
        BY <4>4 DEF Walk
      <4>6. Splits(v)
        BY <1>1, <4>3, <4>5 DEF Before
      <4>7. CASE StopsShort(v.dir, v.comps, v.left)
        <5>1. StopsShort(From(w.dir, name), Led(w.dir, name) \o tail, w.left - 1)
          BY <4>1, <4>2, <4>3, <4>5, <4>7
        <5> QED BY <2>1, <2>3, <3>1, <3>3, <5>1, FollowingStops
      <4>8. ASSUME NEW d \in Directories, NEW k \in 0 .. v.left, Reaches(v.dir, v.comps, d, k)
            PROVE  Splits(w)
        <5>1. k \in Nat /\ k + 1 \in 0 .. w.left
          BY <4>3, <4>5
        <5>2. Reaches(From(w.dir, name), Led(w.dir, name) \o tail, d, k)
          BY <4>1, <4>2, <4>5, <4>8
        <5>3. Reaches(w.dir, w.comps, d, k + 1)
          BY <2>1, <2>3, <3>1, <3>3, <5>1, <5>2, FollowingReaches
        <5> QED BY <5>1, <5>3
      <4> QED BY <4>6, <4>7, <4>8
    <3>4. CASE ~Passes(w.dir, name) /\ ~ (IsLink(w.dir, name) /\ w.left # 0)
      <4>1. ASSUME NEW follow \in BOOLEAN, NEW rest \in Seq(Components), rest # <<>>
            PROVE  Arrives[Walk(w.dir, w.comps \o rest, follow, w.left)].is # "entry"
        BY <2>1, <2>3, <3>1, <3>4, <4>1, EndsThere
      <4> QED BY <4>1 DEF StopsShort
    <3> QED BY <3>2, <3>3, <3>4
  <2> QED BY <2>2, <2>3
<1>2. T = Walks
  <2>1. T \in SUBSET Walks
    OBVIOUS
  <2>2. \A w \in Walks : (\A v \in Walks : Before(v, w) => v \in T) => w \in T
    BY <1>1
  <2> HIDE DEF T
  <2> QED BY <2>1, <2>2, WalkInduction
<1>3. PICK w \in Walks : w = Walk(dir, comps, TRUE, left)
  BY DEF Walk, Walks
<1>4. w.dir = dir /\ w.comps = comps /\ w.left = left /\ Splits(w)
  BY <1>2, <1>3 DEF Walk
<1> QED BY <1>4

\* What is found with some links left is found with more.
LEMMA MoreLinksLeft ==
  ASSUME LinksOk, NEW dir \in Directories, NEW comps \in Seq(Components),
         NEW left \in Nat, NEW more \in Nat, left <= more,
         Arrives[Walk(dir, comps, TRUE, left)].is = "entry"
  PROVE  Arrives[Walk(dir, comps, TRUE, more)] = Arrives[Walk(dir, comps, TRUE, left)]
<1> DEFINE Same(d, cs, n) ==
             \A m \in Nat : n <= m /\ Arrives[Walk(d, cs, TRUE, n)].is = "entry"
                              => Arrives[Walk(d, cs, TRUE, m)] = Arrives[Walk(d, cs, TRUE, n)]
           T == {w \in Walks : Same(w.dir, w.comps, w.left)}
<1>1. ASSUME NEW w \in Walks, \A v \in Walks : Before(v, w) => v \in T,
             NEW d \in Directories, NEW cs \in Seq(Components), NEW n \in Nat,
             d = w.dir, cs = w.comps, n = w.left
      PROVE  Same(d, cs, n)
  <2>1. SUFFICES ASSUME NEW m \in Nat, n <= m, Arrives[Walk(d, cs, TRUE, n)].is = "entry"
                 PROVE  Arrives[Walk(d, cs, TRUE, m)] = Arrives[Walk(d, cs, TRUE, n)]
    OBVIOUS
  <2>2. ASSUME NEW e \in Directories, NEW rest \in Seq(Components), NEW k \in Nat,
               k < n \/ (k = n /\ Len(rest) < Len(cs))
        PROVE  Same(e, rest, k)
    <3>1. PICK v \in Walks : v = Walk(e, rest, TRUE, k)
      BY DEF Walk, Walks
    <3>2. v.dir = e /\ v.comps = rest /\ v.left = k
      BY <3>1 DEF Walk
    <3>3. v \in T
      BY <1>1, <2>2, <3>2 DEF Before
    <3> QED BY <3>2, <3>3
  <2>3. cs # <<>>
    <3>1. LinksOk
      OBVIOUS
    <3>2. Arrives[Walk(d, <<>>, TRUE, n)] = IsDir(d)
      BY <3>1, AtTheEnd
    <3> QED BY <2>1, <3>2, NoEntries, Zenon
  <2>4. PICK name \in Components, tail \in Seq(Components) :
          name = Head(cs) /\ tail = Tail(cs) /\ Len(tail) < Len(cs)
    <3>1. Head(cs) \in Components /\ Tail(cs) \in Seq(Components) /\ Len(Tail(cs)) < Len(cs)
      BY <2>3, HeadAndTail
    <3> QED BY <3>1, Zenon
  <2>5. CASE Passes(d, name)
    <3>1. PICK e \in Directories : e = To(d, name)
      BY <2>5, PlacesAre
    <3>2. Passes(d, Head(cs)) /\ LinksOk
      BY <2>4, <2>5
    <3>3. Arrives[Walk(d, cs, TRUE, n)] = Arrives[Walk(e, tail, TRUE, n)]
      BY <2>3, <2>4, <3>1, <3>2, GoesTo
    <3>4. Arrives[Walk(d, cs, TRUE, m)] = Arrives[Walk(e, tail, TRUE, m)]
      BY <2>3, <2>4, <3>1, <3>2, GoesTo
    <3>5. Same(e, tail, n)
      BY <2>2, <2>4
    <3> QED BY <2>1, <3>3, <3>4, <3>5
  <2>6. CASE IsLink(d, name)
    <3>1. PICK e \in Directories, on \in Seq(Components) :
            e = From(d, name) /\ on = Led(d, name) \o tail
      <4>1. From(d, name) \in Directories /\ Led(d, name) \in Seq(Components)
        BY <2>6, PlacesAre
      <4>2. Led(d, name) \o tail \in Seq(Components)
        BY <4>1, ConcatProperties
      <4> QED BY <4>1, <4>2, Zenon
    <3>2. IsLink(d, Head(cs)) /\ LinksOk
      BY <2>4, <2>6
    <3>3. \A k \in Nat : Arrives[Walk(d, cs, TRUE, k)]
                           = IF k = 0 THEN Failed("ELOOP") ELSE Arrives[Walk(e, on, TRUE, k - 1)]
      <4>1. ASSUME NEW k \in Nat
            PROVE  IF k = 0 THEN Arrives[Walk(d, cs, TRUE, k)] = Failed("ELOOP")
                   ELSE Arrives[Walk(d, cs, TRUE, k)]
                     = Arrives[Walk(From(d, Head(cs)), Led(d, Head(cs)) \o Tail(cs), TRUE, k - 1)]
        BY <2>3, <3>2, FollowsLink
      <4> QED BY <2>4, <3>1, <4>1
    <3>4. n # 0
      <4>1. n = 0 => Arrives[Walk(d, cs, TRUE, n)] = Failed("ELOOP")
        BY <3>3
      <4> QED BY <2>1, <4>1, NoEntries, Zenon
    <3>5. PICK k \in Nat, l \in Nat : k = n - 1 /\ k < n /\ l = m - 1 /\ k <= l /\ m # 0
      BY <2>1, <3>4
    <3>6. Same(e, on, k)
      BY <2>2, <3>5, ZenonT(40)
    <3>7. Arrives[Walk(d, cs, TRUE, n)] = Arrives[Walk(e, on, TRUE, k)]
      BY <3>3, <3>4, <3>5
    <3>8. Arrives[Walk(d, cs, TRUE, m)] = Arrives[Walk(e, on, TRUE, l)]
      BY <3>3, <3>5
    <3> QED BY <2>1, <3>5, <3>6, <3>7, <3>8
  <2>7. CASE ~Passes(d, name) /\ ~IsLink(d, name)
    <3>1. ~Passes(d, Head(cs)) /\ ~IsLink(d, Head(cs)) /\ LinksOk
      BY <2>4, <2>7
    <3>2. \A k \in Nat : Arrives[Walk(d, cs, TRUE, k)]
                           = IF Tail(cs) = <<>> THEN Entry(d, Head(cs)) ELSE Failed("ENOENT")
      BY <2>3, <3>1, OneComponent, ZenonT(40)
    <3> QED BY <3>2
  <2> QED BY <2>5, <2>6, <2>7
<1>2. T = Walks
  <2>1. T \in SUBSET Walks
    OBVIOUS
  <2>2. ASSUME NEW w \in Walks, \A v \in Walks : Before(v, w) => v \in T PROVE w \in T
    <3>1. w.dir \in Directories /\ w.comps \in Seq(Components) /\ w.left \in Nat
      BY WalkHas
    <3>2. PICK d \in Directories, cs \in Seq(Components), n \in Nat :
            d = w.dir /\ cs = w.comps /\ n = w.left
      BY <3>1
    <3>3. Same(d, cs, n)
      <4> HIDE DEF Same, T
      <4> QED BY <1>1, <2>2, <3>2, ZenonT(40)
    <3>4. Same(w.dir, w.comps, w.left)
      BY <3>2, <3>3
    <3> HIDE DEF Same
    <3> QED BY <3>4
  <2> HIDE DEF T
  <2> QED BY <2>1, <2>2, WalkInduction
<1>3. PICK w \in Walks : w = Walk(dir, comps, TRUE, left)
  BY DEF Walk, Walks
<1>4. w.dir = dir /\ w.comps = comps /\ w.left = left /\ w \in T
  BY <1>2, <1>3 DEF Walk
<1> QED BY <1>4

\* The last component, followed to an entry: a link that leads there, or the entry.
LEMMA LastComponent ==
  ASSUME LinksOk, NEW d \in Directories, NEW name \in Components, NEW left \in Nat,
         Arrives[Walk(d, <<name>>, TRUE, left)].is = "entry"
  PROVE  /\ \A n \in Nat : Arrives[Walk(d, <<name>>, FALSE, n)] = Entry(d, name)
         /\ IF <<d, name>> \in DOMAIN links
            THEN /\ IsLink(d, name) /\ left # 0
                 /\ Arrives[Walk(d, <<name>>, TRUE, left)]
                      = Arrives[Walk(From(d, name), Led(d, name), TRUE, left - 1)]
            ELSE Arrives[Walk(d, <<name>>, TRUE, left)] = Entry(d, name)
<1>1. PICK comps \in Seq(Components) :
        comps = <<name>> /\ comps # <<>> /\ Head(comps) = name /\ Tail(comps) = <<>>
  <2>1. <<name>> \in Seq(Components) /\ <<name>> # <<>> /\ Head(<<name>>) = name
        /\ Tail(<<name>>) = <<>>
    OBVIOUS
  <2> QED BY <2>1, Zenon
<1>2. ~Passes(d, name)
  <2>1. SUFFICES ASSUME Passes(d, name) PROVE FALSE
    OBVIOUS
  <2>2. To(d, name) \in Directories /\ Passes(d, Head(comps)) /\ LinksOk
    BY <1>1, <2>1, PlacesAre
  <2>3. Arrives[Walk(d, comps, TRUE, left)] = Arrives[Walk(To(d, name), <<>>, TRUE, left)]
    <3>1. Arrives[Walk(d, comps, TRUE, left)]
            = Arrives[Walk(To(d, Head(comps)), Tail(comps), TRUE, left)]
      BY <1>1, <2>2, OneComponent
    <3> QED BY <1>1, <3>1
  <2>4. Arrives[Walk(To(d, name), <<>>, TRUE, left)] = IsDir(To(d, name))
    BY <2>2, AtTheEnd
  <2> QED BY <1>1, <2>3, <2>4, NoEntries
<1>3. ~Passes(d, Head(comps)) /\ LinksOk
  BY <1>1, <1>2
<1>4. ASSUME NEW n \in Nat PROVE Arrives[Walk(d, comps, FALSE, n)] = Entry(d, name)
  <2>1. Arrives[Walk(d, comps, FALSE, n)]
          = IF Tail(comps) = <<>> THEN Entry(d, Head(comps)) ELSE Failed("ENOENT")
    BY <1>1, <1>3, OneComponent
  <2> QED BY <1>1, <2>1
<1>5. CASE <<d, name>> \in DOMAIN links
  <2>1. IsLink(d, name) /\ IsLink(d, Head(comps))
    BY <1>1, <1>2, <1>5 DEF IsLink
  <2>2. Arrives[Walk(d, comps, TRUE, left)]
          = IF left = 0 THEN Failed("ELOOP")
            ELSE Arrives[Walk(From(d, Head(comps)), Led(d, Head(comps)) \o Tail(comps), TRUE, left - 1)]
    BY <1>1, <1>3, <2>1, OneComponent
  <2>3. Led(d, name) \o <<>> = Led(d, name)
    BY <2>1, PlacesAre, ConcatEmptySeq
  <2>4. left # 0
    <3>1. left = 0 => Arrives[Walk(d, comps, TRUE, left)] = Failed("ELOOP")
      BY <2>2
    <3> QED BY <1>1, <3>1, NoEntries, Zenon
  <2> QED BY <1>1, <1>4, <1>5, <2>1, <2>2, <2>3, <2>4
<1>6. CASE <<d, name>> \notin DOMAIN links
  <2>1. ~IsLink(d, Head(comps))
    BY <1>1, <1>6 DEF IsLink
  <2>2. Arrives[Walk(d, comps, TRUE, left)]
          = IF Tail(comps) = <<>> THEN Entry(d, Head(comps)) ELSE Failed("ENOENT")
    BY <1>1, <1>3, <2>1, OneComponent
  <2> QED BY <1>1, <1>4, <1>6, <2>2
<1> QED BY <1>5, <1>6

LEMMA FrontAndLast ==
  ASSUME NEW comps \in Seq(Components), comps # <<>>
  PROVE  /\ Front(comps) \in Seq(Components) /\ Last(comps) \in Components
         /\ Len(Front(comps)) <= Len(comps)
         /\ <<Last(comps)>> \in Seq(Components)
         /\ comps = Front(comps) \o <<Last(comps)>>
<1>1. PICK n \in Nat : n = Len(comps) /\ n # 0
  BY EmptySeq, LenProperties
<1>2. \A i \in 1 .. n : comps[i] \in Components
  BY <1>1, ElementOfSeq
<1>3. SubSeq(comps, 1, n - 1) \in Seq(Components) /\ Len(SubSeq(comps, 1, n - 1)) <= n
  <2>1. \A i \in 1 .. n - 1 : comps[i] \in Components
    BY <1>2
  <2>2. 1 \in Int /\ n - 1 \in Int
    OBVIOUS
  <2>3. /\ SubSeq(comps, 1, n - 1) \in Seq(Components)
        /\ Len(SubSeq(comps, 1, n - 1)) = IF 1 <= n - 1 THEN (n - 1) - 1 + 1 ELSE 0
    BY <2>1, <2>2, SubSeqProperties
  <2> QED BY <1>1, <2>3
<1>4. comps[n] \in Components
  BY <1>1, <1>2
<1>5. SubSeq(comps, 1, n) = SubSeq(comps, 1, n - 1) \o <<comps[n]>>
  <2>1. 1 \in 1 .. Len(comps) /\ n \in 1 .. Len(comps)
    BY <1>1
  <2> QED BY <2>1, SubSeqRecursiveSecond
<1>6. SubSeq(comps, 1, n) = comps
  BY <1>1, SubSeqFull
<1>7. Front(comps) = SubSeq(comps, 1, n - 1) /\ Last(comps) = comps[n]
  BY <1>1 DEF Front, Last
<1>8. <<comps[n]>> \in Seq(Components)
  BY <1>4
<1> QED BY <1>1, <1>3, <1>4, <1>5, <1>6, <1>7, <1>8

-----------------------------------------------------------------------------
(* The loop.                                                               *)

LEMMA ArrivesStays ==
  ASSUME UNCHANGED links
  PROVE  Arrives' = Arrives
BY DEF Arrives, GoesOn, Onward, EndOf, AtDots, AtSubDir, AtLink

LEMMA NotTooLong ==
  ASSUME NEW p, NEW follow, Len(p.comps) \in Nat, Len(p.comps) <= PathMax
  PROVE  Resolve(p, follow) = Arrives[Walk(Start(p), p.comps, follow, maxLinks)]
<1>1. ~ (Len(p.comps) > PathMax)
  BY BoundsAssumption
<1> QED BY <1>1, Zenon DEF Resolve

\* Where the walk of the whole path and the one of its directory part come, when the
\* file is found with the links that are left.
LEMMA LastStep ==
  ASSUME LinksOk, NEW p \in Paths, NEW n \in 0 .. maxLinks, Len(p.comps) <= PathMax,
         Arrives[Walk(Start(p), p.comps, TRUE, n)].is = "entry"
  PROVE  \E d \in Directories, name \in Components, k \in 0 .. n :
           /\ Front(p.comps) \in Seq(Components)
           /\ Reaches(Start(p), Front(p.comps), d, k)
           /\ Resolve(p, FALSE) = Entry(d, name)
           /\ Resolve(rawDir(p), TRUE) = IsDir(d)
           /\ IF <<d, name>> \in DOMAIN links
              THEN /\ IsLink(d, name) /\ n - k # 0
                   /\ Arrives[Walk(Start(p), p.comps, TRUE, n)]
                        = Arrives[Walk(From(d, name), Led(d, name), TRUE, (n - k) - 1)]
              ELSE Arrives[Walk(Start(p), p.comps, TRUE, n)] = Entry(d, name)
<1>1. PICK from \in Directories, comps \in Seq(Components) :
        from = Start(p) /\ comps = p.comps
  BY WorkDirAssumption DEF Start, Directories, Paths
<1>2. n \in Nat /\ maxLinks \in Nat /\ PathMax \in Nat /\ n <= maxLinks /\ LinksOk
  BY BoundsAssumption
<1>3. comps # <<>>
  <2>1. SUFFICES ASSUME comps = <<>> PROVE FALSE
    OBVIOUS
  <2>2. Arrives[Walk(from, <<>>, TRUE, n)] = IsDir(from)
    BY <1>2, AtTheEnd
  <2> QED BY <1>1, <2>1, <2>2, NoEntries
<1>4. PICK front \in Seq(Components), name \in Components, last \in Seq(Components) :
        /\ front = Front(comps) /\ name = Last(comps) /\ last = <<name>>
        /\ comps = front \o last /\ Len(front) <= Len(comps)
  <2>1. /\ Front(comps) \in Seq(Components) /\ Last(comps) \in Components
        /\ <<Last(comps)>> \in Seq(Components)
        /\ comps = Front(comps) \o <<Last(comps)>> /\ Len(Front(comps)) <= Len(comps)
    BY <1>3, FrontAndLast
  <2> QED BY <2>1, Zenon
<1>5. last # <<>>
  BY <1>4
<1>6. PICK d \in Directories, k \in 0 .. n : Reaches(from, front, d, k)
  <2>1. ~StopsShort(from, front, n)
    BY <1>1, <1>4, <1>5 DEF StopsShort
  <2> QED BY <1>2, <2>1, WalkSplits
<1>7. k \in Nat /\ k <= n /\ n - k \in Nat /\ maxLinks - k \in Nat /\ maxLinks >= k
  BY <1>2
<1>8. Arrives[Walk(from, comps, TRUE, n)] = Arrives[Walk(d, last, TRUE, n - k)]
  BY <1>2, <1>4, <1>5, <1>6, <1>7, ZenonT(40) DEF Reaches
<1>9. Resolve(p, FALSE) = Arrives[Walk(d, last, FALSE, maxLinks - k)]
  <2>1. Resolve(p, FALSE) = Arrives[Walk(from, comps, FALSE, maxLinks)]
    <3>1. Len(p.comps) \in Nat
      BY <1>1, LenProperties
    <3>2. Resolve(p, FALSE) = Arrives[Walk(Start(p), p.comps, FALSE, maxLinks)]
      BY <3>1, NotTooLong
    <3> QED BY <1>1, <3>2
  <2>2. Arrives[Walk(from, front \o last, FALSE, maxLinks)]
          = Arrives[Walk(d, last, FALSE, maxLinks - k)]
    BY <1>2, <1>5, <1>6, <1>7 DEF Reaches
  <2> QED BY <1>4, <2>1, <2>2
<1>10. Resolve(rawDir(p), TRUE) = IsDir(d)
  <2>1. rawDir(p).abs = p.abs /\ rawDir(p).comps = front
    BY <1>1, <1>4 DEF rawDir, Paths
  <2>2. Start(rawDir(p)) = from
    BY <1>1, <2>1 DEF Start
  <2>3. Len(front) <= PathMax /\ Len(front) \in Nat
    <3>1. Len(front) \in Nat /\ Len(comps) \in Nat
      BY LenProperties
    <3>2. Len(comps) <= PathMax /\ Len(front) <= Len(comps)
      BY <1>1, <1>4
    <3> QED BY <1>2, <3>1, <3>2
  <2>4. Resolve(rawDir(p), TRUE) = Arrives[Walk(from, front, TRUE, maxLinks)]
    <3>1. Resolve(rawDir(p), TRUE)
            = Arrives[Walk(Start(rawDir(p)), rawDir(p).comps, TRUE, maxLinks)]
      BY <2>1, <2>3, NotTooLong
    <3> QED BY <2>1, <2>2, <3>1
  <2>5. Arrives[Walk(from, front \o <<>>, TRUE, maxLinks)] = Arrives[Walk(d, <<>>, TRUE, maxLinks - k)]
    <3>1. <<>> \in Seq(Components)
      BY EmptySeq
    <3> QED BY <1>2, <1>6, <1>7, <3>1 DEF Reaches
  <2>6. front \o <<>> = front
    BY ConcatEmptySeq
  <2>7. Arrives[Walk(d, <<>>, TRUE, maxLinks - k)] = IsDir(d)
    BY <1>2, <1>7, AtTheEnd
  <2> QED BY <2>4, <2>5, <2>6, <2>7
<1>11. PICK left \in Nat, full \in Nat : left = n - k /\ full = maxLinks - k
  BY <1>7
<1>12. Arrives[Walk(d, <<name>>, TRUE, left)].is = "entry"
  BY <1>1, <1>4, <1>8, <1>11
<1>13. /\ Arrives[Walk(d, <<name>>, FALSE, full)] = Entry(d, name)
       /\ IF <<d, name>> \in DOMAIN links
          THEN /\ IsLink(d, name) /\ left # 0
               /\ Arrives[Walk(d, <<name>>, TRUE, left)]
                    = Arrives[Walk(From(d, name), Led(d, name), TRUE, left - 1)]
          ELSE Arrives[Walk(d, <<name>>, TRUE, left)] = Entry(d, name)
  BY <1>2, <1>12, LastComponent
<1>14. /\ Resolve(p, FALSE) = Entry(d, name)
       /\ IF <<d, name>> \in DOMAIN links
          THEN /\ IsLink(d, name) /\ n - k # 0
               /\ Arrives[Walk(Start(p), p.comps, TRUE, n)]
                    = Arrives[Walk(From(d, name), Led(d, name), TRUE, (n - k) - 1)]
          ELSE Arrives[Walk(Start(p), p.comps, TRUE, n)] = Entry(d, name)
  BY <1>1, <1>4, <1>8, <1>9, <1>11, <1>13
<1> QED BY <1>1, <1>4, <1>6, <1>10, <1>14

\* The path that grows by a link's target leads where the link does.
LEMMA JoinedLeads ==
  ASSUME LinksOk, NEW p \in Paths, NEW d \in Directories, NEW name \in Components,
         NEW n \in Nat, NEW k \in 0 .. n, n - k # 0,
         Front(p.comps) \in Seq(Components), Reaches(Start(p), Front(p.comps), d, k),
         IsLink(d, name),
         Arrives[Walk(From(d, name), Led(d, name), TRUE, (n - k) - 1)].is = "entry",
         NEW q, q = Joined(rawDir(p), links[<<d, name>>])
  PROVE  /\ q \in Paths
         /\ Arrives[Walk(Start(q), q.comps, TRUE, n - 1)]
              = Arrives[Walk(From(d, name), Led(d, name), TRUE, (n - k) - 1)]
<1>1. PICK front \in Seq(Components), target \in Paths, led \in Seq(Components) :
        /\ front = Front(p.comps) /\ target = links[<<d, name>>]
        /\ led = target.comps /\ led = Led(d, name)
  <2>1. links[<<d, name>>] \in Paths
    BY DEF IsLink, LinksOk
  <2>2. links[<<d, name>>].comps \in Seq(Components)
    BY <2>1 DEF Paths
  <2> QED BY <2>1, <2>2, Zenon DEF Led
<1>2. PICK less \in Nat, few \in Nat :
        less = n - 1 /\ few = (n - k) - 1 /\ few <= less /\ less >= k /\ less - k = few
  OBVIOUS
<1>3. q = Joined(rawDir(p), target)
  BY <1>1
<1>4. CASE target.abs
  <2>1. q = target
    BY <1>3, <1>4 DEF Joined
  <2>2. From(d, name) = Root /\ Start(q) = Root /\ Root \in Directories
    BY <1>1, <1>4, <2>1 DEF From, Start, Directories
  <2>3. Arrives[Walk(Root, led, TRUE, few)].is = "entry" /\ Root \in Directories /\ LinksOk
    BY <1>1, <1>2, <2>2
  <2>4. Arrives[Walk(Root, led, TRUE, less)] = Arrives[Walk(Root, led, TRUE, few)]
    BY <1>2, <2>3, MoreLinksLeft, ZenonT(40)
  <2>5. q.comps = led
    BY <1>1, <2>1
  <2>6. Arrives[Walk(Start(q), q.comps, TRUE, less)]
          = Arrives[Walk(From(d, name), Led(d, name), TRUE, few)]
    BY <1>1, <2>2, <2>4, <2>5
  <2> QED BY <1>1, <1>2, <1>3, <2>1, <2>6
<1>5. CASE ~target.abs
  <2>1. q = [abs |-> p.abs, comps |-> front \o led]
    BY <1>1, <1>3, <1>5 DEF Joined, rawDir, Paths
  <2>2. front \o led \in Seq(Components)
    BY ConcatProperties
  <2>3. q \in Paths /\ q.comps = front \o led /\ Start(q) = Start(p)
    BY <2>1, <2>2 DEF Paths, Start
  <2>4. Arrives[Walk(Start(p), front \o led, TRUE, less)] = Arrives[Walk(d, led, TRUE, less - k)]
    BY <1>1, <1>2 DEF Reaches
  <2>5. From(d, name) = d
    BY <1>1, <1>5 DEF From
  <2>6. Arrives[Walk(Start(q), q.comps, TRUE, less)]
          = Arrives[Walk(From(d, name), Led(d, name), TRUE, few)]
    BY <1>1, <1>2, <2>3, <2>4, <2>5
  <2> QED BY <1>1, <1>2, <1>3, <2>3, <2>6
<1> QED BY <1>4, <1>5

-----------------------------------------------------------------------------
(* The invariant.                                                          *)

\* SyncParent's path leads to the file with the links it may still follow.
Aimed ==
  state = "walk" /\ file # NoEntry =>
    /\ path \in Paths /\ hops <= maxLinks /\ file.is = "entry"
    /\ Arrives[Walk(Start(path), path.comps, TRUE, maxLinks - hops)] = file

Untouched == state = "open" => path = asked /\ hops = 0 /\ file = NoEntry

Placed == LinksOk /\ asked \in Paths /\ hops \in Nat

Inv == /\ Placed
       /\ Untouched
       /\ Aimed
       /\ SyncsTheFilesDirectory
       /\ OpensWhatTheKernelOpens

LEMMA InitInv == Init => Inv
<1> SUFFICES ASSUME Init PROVE Inv
  OBVIOUS
<1>1. LinksOk
  BY PathsAssumption DEF Init, LinksOk
<1> QED BY <1>1, PathsAssumption
      DEF Init, Inv, Placed, Untouched, Aimed, SyncsTheFilesDirectory, OpensWhatTheKernelOpens

LEMMA OpenInv ==
  ASSUME Inv, Open
  PROVE  Inv'
<1>1. UNCHANGED links /\ Placed /\ Placed'
  BY DEF Inv, Placed, Open, LinksOk
<1>2. Arrives' = Arrives
  BY <1>1, ArrivesStays
<1>3. state' = "walk" /\ path' = asked /\ asked \in Paths /\ hops' = 0
  BY DEF Inv, Placed, Untouched, Open
<1>4. ASSUME file' # NoEntry PROVE Aimed'
  <2>1. file' = Resolve(asked, TRUE) /\ file'.is = "entry"
    BY <1>4 DEF Open
  <2>2. Len(asked.comps) \in Nat /\ PathMax \in Nat /\ maxLinks \in Nat
    BY <1>3, LenProperties, BoundsAssumption DEF Paths
  <2>3. Len(asked.comps) <= PathMax
    <3>1. Len(asked.comps) > PathMax => Resolve(asked, TRUE) = Failed("ENAMETOOLONG")
      BY Zenon DEF Resolve
    <3>2. ~ (Len(asked.comps) > PathMax)
      BY <2>1, <3>1, NoEntries, Zenon
    <3> QED BY <2>2, <3>2
  <2>4. file' = Arrives[Walk(Start(asked), asked.comps, TRUE, maxLinks)]
    BY <2>1, <2>2, <2>3, NotTooLong
  <2>5. maxLinks - 0 = maxLinks /\ 0 <= maxLinks
    BY <2>2
  <2>6. Start(asked)' = Start(asked')
    BY DEF Start
  <2> QED BY <1>2, <1>3, <2>1, <2>4, <2>5 DEF Aimed, Start, Walk
<1>5. Aimed'
  BY <1>4 DEF Aimed, NoEntry, Failed
<1> QED BY <1>1, <1>3, <1>5
      DEF Inv, Untouched, SyncsTheFilesDirectory, OpensWhatTheKernelOpens

\* What a turn of the loop finds at the end of a path that is not too long.
LEMMA FindsFile ==
  ASSUME Inv, state = "walk", file # NoEntry, Len(path.comps) <= PathMax
  PROVE  \/ /\ Lstat(path).is = "file" /\ Resolve(rawDir(path), TRUE) = IsDir(file.at[1])
         \/ /\ Lstat(path).is = "link" /\ hops + 1 <= maxLinks
            /\ Joined(rawDir(path), links[Lstat(path).at]) \in Paths
            /\ LET q == Joined(rawDir(path), links[Lstat(path).at]) IN
                 Arrives[Walk(Start(q), q.comps, TRUE, maxLinks - (hops + 1))] = file
<1>1. /\ LinksOk /\ hops \in Nat /\ path \in Paths /\ hops <= maxLinks /\ file.is = "entry"
      /\ Arrives[Walk(Start(path), path.comps, TRUE, maxLinks - hops)] = file
      /\ maxLinks \in Nat
  BY BoundsAssumption DEF Inv, Placed, Aimed
<1>2. PICK n \in 0 .. maxLinks :
        n = maxLinks - hops /\ n - 1 = maxLinks - (hops + 1) /\ (n # 0 => hops + 1 <= maxLinks)
  BY <1>1
<1>3. PICK d \in Directories, name \in Components, k \in 0 .. n :
        /\ Front(path.comps) \in Seq(Components)
        /\ Reaches(Start(path), Front(path.comps), d, k)
        /\ Resolve(path, FALSE) = Entry(d, name)
        /\ Resolve(rawDir(path), TRUE) = IsDir(d)
        /\ IF <<d, name>> \in DOMAIN links
           THEN /\ IsLink(d, name) /\ n - k # 0
                /\ file = Arrives[Walk(From(d, name), Led(d, name), TRUE, (n - k) - 1)]
           ELSE file = Entry(d, name)
  BY <1>1, <1>2, LastStep, ZenonT(40)
<1>4. Entry(d, name).is = "entry" /\ Entry(d, name).at = <<d, name>>
  BY DEF Entry
<1>5. CASE <<d, name>> \in DOMAIN links
  <2>1. Lstat(path).is = "link" /\ Lstat(path).at = <<d, name>>
    BY <1>3, <1>4, <1>5 DEF Lstat, Entry
  <2>2. n \in Nat /\ n # 0
    BY <1>1, <1>3, <1>5
  <2>3. PICK q : q = Joined(rawDir(path), links[<<d, name>>])
    OBVIOUS
  <2>4. IsLink(d, name) /\ n - k # 0 /\ LinksOk /\ path \in Paths
        /\ file = Arrives[Walk(From(d, name), Led(d, name), TRUE, (n - k) - 1)]
    BY <1>1, <1>3, <1>5
  <2>5. Arrives[Walk(From(d, name), Led(d, name), TRUE, (n - k) - 1)].is = "entry"
    BY <1>1, <2>4
  <2>6. /\ q \in Paths
        /\ Arrives[Walk(Start(q), q.comps, TRUE, n - 1)]
             = Arrives[Walk(From(d, name), Led(d, name), TRUE, (n - k) - 1)]
    <3>1. Front(path.comps) \in Seq(Components) /\ Reaches(Start(path), Front(path.comps), d, k)
      BY <1>3
    <3>2. IsLink(d, name) /\ n - k # 0 /\ LinksOk /\ path \in Paths /\ n \in Nat
      BY <2>2, <2>4
    <3>3. d \in Directories /\ name \in Components /\ k \in 0 .. n
      OBVIOUS
    <3> QED BY <2>3, <2>5, <3>1, <3>2, <3>3, JoinedLeads, ZenonT(120)
  <2> QED BY <1>2, <2>1, <2>2, <2>3, <2>4, <2>6
<1>6. CASE <<d, name>> \notin DOMAIN links
  <2>1. Lstat(path).is = "file"
    BY <1>3, <1>4, <1>6 DEF Lstat, Entry
  <2>2. file.at[1] = d
    BY <1>3, <1>4, <1>6
  <2> QED BY <1>3, <2>1, <2>2
<1> QED BY <1>5, <1>6

LEMMA HopInv ==
  ASSUME Inv, Hop
  PROVE  Inv'
<1>1. UNCHANGED links /\ Placed /\ state = "walk" /\ file' = file /\ asked' = asked
  BY DEF Inv, Placed, Hop
<1>2. Arrives' = Arrives
  BY <1>1, ArrivesStays
<1>3. state' \in {"walk", "failed", "done"} /\ Placed'
  <2>1. \/ Fails \/ SyncDir(rawDir(path)) \/ (hops' = hops + 1 /\ state' = state)
    BY DEF Hop
  <2>2. hops' \in {hops, hops + 1} /\ state' \in {"walk", "failed", "done"}
    BY <1>1, <2>1 DEF Fails, SyncDir
  <2>3. hops' \in Nat
    BY <1>1, <2>2 DEF Placed
  <2> QED BY <1>1, <2>2, <2>3 DEF Placed, LinksOk
<1>4. CASE file = NoEntry
  BY <1>1, <1>3, <1>4
     DEF Inv, Untouched, Aimed, SyncsTheFilesDirectory, OpensWhatTheKernelOpens, NoEntry, Failed
<1>5. CASE file # NoEntry /\ Len(path.comps) > PathMax
  <2>1. Lstat(path) = Failed("ENAMETOOLONG") /\ Lstat(path).is = "ENAMETOOLONG"
    BY <1>5, NoEntries DEF Lstat, Resolve, Failed
  <2>2. Fails
    BY <1>1, <2>1 DEF Hop
  <2> QED BY <1>1, <1>3, <1>5, <2>2
       DEF Fails, Inv, Untouched, Aimed, SyncsTheFilesDirectory, OpensWhatTheKernelOpens
<1>6. CASE file # NoEntry /\ ~ (Len(path.comps) > PathMax)
  <2>1. /\ ~TooMany /\ Len(path.comps) <= PathMax
    <3>1. /\ path \in Paths /\ hops \in Nat /\ hops <= maxLinks /\ maxLinks \in Nat
          /\ PathMax \in Nat
      BY <1>1, <1>6, BoundsAssumption DEF Inv, Aimed, Placed
    <3>2. Len(path.comps) \in Nat
      BY <3>1, LenProperties DEF Paths
    <3> QED BY <1>6, <3>1, <3>2 DEF TooMany
  <2>2. CASE Lstat(path).is = "file" /\ Resolve(rawDir(path), TRUE) = IsDir(file.at[1])
    <3>1. SyncDir(rawDir(path))
      BY <1>1, <2>1, <2>2 DEF Hop
    <3>2. PICK d : d = file.at[1]
      OBVIOUS
    <3>3. Resolve(rawDir(path), TRUE) = IsDir(d) /\ IsDir(d).is = "dir" /\ IsDir(d).at = <<d>>
      BY <2>2, <3>2 DEF IsDir
    <3>4. state' = "done" /\ synced' = <<d>>
      BY <3>1, <3>3 DEF SyncDir
    <3> QED BY <1>1, <1>3, <3>2, <3>4
         DEF Inv, Untouched, Aimed, SyncsTheFilesDirectory, OpensWhatTheKernelOpens
  <2>3. ASSUME /\ Lstat(path).is = "link" /\ hops + 1 <= maxLinks
               /\ Joined(rawDir(path), links[Lstat(path).at]) \in Paths,
               LET q == Joined(rawDir(path), links[Lstat(path).at]) IN
                 Arrives[Walk(Start(q), q.comps, TRUE, maxLinks - (hops + 1))] = file
        PROVE  Inv'
    <3>1. PICK q : q = Joined(rawDir(path), links[Lstat(path).at])
      OBVIOUS
    <3>2. path' = q /\ hops' = hops + 1 /\ state' = "walk"
      BY <1>1, <2>1, <2>3, <3>1 DEF Hop
    <3>3. q \in Paths /\ hops' <= maxLinks
      BY <2>3, <3>1, <3>2
    <3>4. Arrives[Walk(Start(q), q.comps, TRUE, maxLinks - hops')] = file
      BY <2>3, <3>1, <3>2
    <3>5. file'.is = "entry"
      BY <1>1, <1>6 DEF Inv, Aimed
    <3>6. Aimed'
      BY <1>1, <1>2, <3>2, <3>3, <3>4, <3>5 DEF Aimed, Start, Walk
    <3> QED BY <1>3, <3>2, <3>6
         DEF Inv, Untouched, SyncsTheFilesDirectory, OpensWhatTheKernelOpens
  <2> QED BY <1>1, <1>6, <2>1, <2>2, <2>3, FindsFile
<1> QED BY <1>4, <1>5, <1>6

LEMMA Unmoved ==
  ASSUME Inv, UNCHANGED vars
  PROVE  Inv'
<1>1. UNCHANGED links
  BY DEF vars
<1>2. Arrives' = Arrives
  BY <1>1, ArrivesStays
<1> QED BY <1>2 DEF Inv, Placed, LinksOk, Untouched, Aimed, SyncsTheFilesDirectory,
                    OpensWhatTheKernelOpens, vars, Start, Walk

\* While SyncParent follows links its path leads to the file that was opened, by the
\* kernel's own walk, with as many links as it may still follow.
THEOREM InvHolds == Spec => []Inv
<1>1. Inv /\ [Next]_vars => Inv'
  BY OpenInv, HopInv, Unmoved DEF Next
<1> QED BY <1>1, InitInv, PTL DEF Spec

\* Whatever links, cycles of links and ".." the path leads through, the directory that
\* SyncParent fsyncs is the one that holds the entry of the file that was opened.
THEOREM TheFilesDirectoryIsSynced == Spec => []SyncsTheFilesDirectory
BY InvHolds, PTL DEF Inv

\* SyncParent fails for no path by which the kernel opened a file, but for one that
\* grew, by a relative target joined to it, over the length that a path may have.
THEOREM WhatOpensIsNotRefused == Spec => []OpensWhatTheKernelOpens
BY InvHolds, PTL DEF Inv

=============================================================================
