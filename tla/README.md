# scutedb in TLA+

TLA+ models of [scutedb](../src), a database written from scratch in Go, with TLC runs
that check them on small instances and TLAPS proofs that hold for every size. Today the
repository is a set of storage layers, each tested by itself: a crash-safe page store, an
in-memory B+tree, the page layouts of tree nodes and fixed-size records, and encodings.
The engine that will join them does not exist yet (`storage.Engine` is an interface with
no implementation), so the layers are modelled one by one. The compositions that there are
in the code are modelled too: a child process that drives a page store until it is killed,
and rows that the demo encodes, decodes and filters by hand with three of the packages.

## 1. The system

| component | state | operations | depends on |
|---|---|---|---|
| page store `internal/pagestore` | the durable meta record, root, `nextPage`, `filePages`, the lists `free`, `pending`, `listPage`, a status per page, `dirty`, `poisoned` | `Create`, `Open`, `Read`, `Write`, `Allocate`, `Free`, `SetRoot`, `Sync`, `Checkpoint`, `Close`, `Discard`, `Verify` | page, fileio |
| file `internal/fileio`, `page.File` | bytes of a file; beneath it the kernel's cache and the drive | positional read and write, grow, size, fsync, `SyncParent` | the operating system |
| B+tree `internal/btree` | nodes joined by child and leaf-chain pointers, a count | `Put`, `Delete`, `Get`, `Scan`, `Iterator.Next/Close`, `Validate` | nothing |
| node page `internal/nodepage` | one page: slots growing up, cells growing down | append, search, route to a child, `Validate` | page |
| record slots `internal/slots` | one page of equal slots | `NewLayout`, `Put`, `Get` | page |
| codec `internal/codec` | none (pure functions) | varints, prefixed strings, words, keys that sort as numbers do | nothing |
| null bitmap `internal/nullbits` | the bits of one record | `SetNull`, `IsNull`, `Count`; three-valued logic | nothing |
| naive `internal/naive` | an appended text file and a write buffer | `Put`, `Get`, `Compact`, `Close` | the operating system |
| demo `cmd/scutedb-demo` | a parent and a child process | the `kill -9` loop, the racing writers; the rest prints | all of them |

Nothing here takes a lock: each structure belongs to one goroutine, but for the demo's two
writers that race to show what comes of it. What makes the code hard is elsewhere.

- **Crashes.** A process can die, and the power fail, between any two I/O calls. What was
  written since the last fsync lands in any combination, a page may be torn between its
  sectors, and a failed fsync drops what it did not write and says nothing more about it.
- **Order.** A checkpoint is right only if its pages are on the drive before the list pages
  that account for them, and those before the meta page.
- **Ownership.** A page is the client's, free, freed but still in the last checkpoint, or part
  of the stored free list. The list is stored in pages it itself lists. A mistake shows several
  checkpoints later, as a page with two owners or none.
- **Partial failure.** Every call that writes must leave memory as it was if the write fails,
  or poison the store when it cannot know.
- **Structure changed under a reader.** An iterator keeps a leaf and an index while `Put`
  splits the leaf or `Delete` merges it away.
- **Edges.** The last chunk of a full file, nodes of the least size, cells that fill a page to
  the byte, sums next to the largest int, the last byte of a varint.
- **Names.** A file is durable only if its directory entry is, and the path it was opened by may
  lead through links to another directory.

What makes each component correct:

- *page store*: a file that opens shows exactly one checkpoint, whole; nothing of it is
  overwritten before the next is durable; no page leaks or has two owners; a file the store wrote
  always opens; after a failed fsync nothing is written.
- *B+tree*: it is an ordered map; it stays balanced within its bounds; a scan shows each key of
  its range once and in order; an open iterator misses nothing that is only moved by splits, and
  ends after a `Delete` too.
- *node page, slots*: what is written reads back, capacity is exactly what the arithmetic
  says, and a damaged page is either refused or safe to read.
- *kill loop*: the file is never behind what was reported durable, and a child that lives goes on.
- *SyncParent*: the directory that is synced is the one that holds the file.
- *naive*: what a flush promised is there; a crash takes only the end of the log; `Compact` never
  changes the map. The first and the last hold but for carriage returns at the end of a value, which its
  scanner takes off.
- *codec, null bitmap*: decoding inverts encoding and refuses everything else; keys sort as their
  values; a condition never keeps a row that it might not keep.
- *racing writers*: how much they can lose, and that no record they leave is torn.

`PROJECT.json` lists every component with its status and, under `hazards`, the lines where
these difficulties bite and the properties that watch them.

## 2. The modules

```
Disk ── PageStore ──┬── PageStoreProps ──┬── MCDamaged         (TLC)
                    │       │            └── PageStoreInv
                    │       └─ INSTANCE DurableStore
                    └── KillNine

PageStoreInv ── PageStoreProofs ──┐   (TLAPS)
                  KillNine ───────┴── KillNineProofs

BTree ── BTreeProps ── MCBTree           Codec ─────────────┬── Rows ──┬── MCRows
             └─ INSTANCE OrderedMap      INSTANCE NullBits ─┘          └── RowsProofs
NodePage ─┬─ MCNodePage                  Naive ──────┬─ MCNaive
          └─ NodePageProofs                          └─ NaiveProofs
Slots ── SlotsProofs                     SyncParent ─┬─ MCSyncParent
Race ── RaceProofs                                   └─ SyncParentProofs
```

| module | models | grain |
|---|---|---|
| `Disk` | a file in front of a drive: `page.File`, `fileio.File` as the tests' `memFile` simulates it | a page |
| `PageStore` | `pagestore.go`, all operations | checkpoint and open one I/O per step |
| `PageStoreProps` | its properties and refinement mapping | |
| `PageStoreInv` | the inductive invariant of the page store | |
| `PageStoreProofs`, `KillNineProofs`, `NodePageProofs`, `SlotsProofs`, `RowsProofs`, `RaceProofs`, `NaiveProofs`, `SyncParentProofs` | proofs, see section 4 | |
| `DurableStore` | the abstract store: work, one saved checkpoint, at most one in doubt | what a client may rely on |
| `KillNine` | the child and its parent over `PageStore`: `storeChild`, `storeRestarts`, `killnine_test.go` | a call of the child |
| `SyncParent` | `fileio.SyncParent` over the kernel's path resolution | one turn of its loop |
| `BTree` | `btree.go` and `delete.go`, and one iterator | whole calls |
| `OrderedMap` | the abstract map, `index.Index` | whole calls |
| `NodePage`, `Slots` | `nodepage.go`, `slots.go` | bytes of one page |
| `Naive` | `naive.go` | one system call; bytes of the log |
| `Codec`, `NullBits` | `codec/*.go`, `nullbits/*.go` | functions on small words |
| `Rows` | a record from encoding to condition: `expEncode`, `expNulls` | one field |
| `Race` | `racyDB` and `expRace` | one load, write or store |

### 2.1 Page store

`drive`, `cache` and `pend` are what a power cut leaves, what a read returns and what has been
written since the last fsync; the test's `memFile` has the same three as `durable`, `live` and
`log`. The variables of `PageStore` from `durable` to `poisoned` are the fields of `Store` by
name. `pc`, `caller`, `ck` and `walk` are the place and local variables of a `Checkpoint` or `Open`
in progress. `held`, `saved`, `doubt` and `clobbered` record what the client was told and occur in no
guard but that of `Write`, where they say which pages a client that never writes in place may write
(`InPlace` turns that off). `clobbered` holds the pages of the last checkpoint written in place since.
In `DurableStore` these are `loose`: the promise still covers that the page is there, and not what it
reads as, which may even change by itself (`Waver`: a failed fsync left bytes in the cache that are not
on the drive, and the cache drops them), until a checkpoint has made it fast.

A client call that at most writes once is one action (`SetRoot`, `Write`, `AllocateReused`,
`AllocateNew`, `Free`, `Sync`, `Discard`) with a disjunct for each I/O that may fail in it.
`Checkpoint` and `Close` start a chain of steps, one per I/O:

| step | code |
|---|---|
| `CkSync` | fsync of the client's pages |
| `CkTake`, `CkTaken` | the loop that takes pages for the new list, growing the file if it must |
| `CkList` | the write of one list page |
| `CkListSync` | fsync of the list |
| `CkMeta`, `CkMetaSync` | the write and fsync of the meta page, then the Store adopts the new lists |

`Open` is `OpenBlank` (a new or all-zero file is initialised by a checkpoint of its own) or
`OpenLoad`, `WalkPage` for each page of the chain, `WalkDone`, then `LdMeta` and `LdSync`, which write
the meta page back and sync it, and `Parent`. `Kill`, `PowerCut` and `Evict` may come between any two.

Abstractions, each with its reason:

- Contents of pages are records: a meta record, a list page, a client's value, zeros, a torn page.
  Encodings of these and page ids inside pages are not modelled; a page's slot and id agree by
  construction in `Write`.
- The meta record lies in one sector, so page 0 is never torn; any other page may be. Zeros written
  over zeros leave zeros.
- A failed `WriteAt` leaves the page as it was or torn. A failed growth leaves a prefix of its
  pages. A failed fsync lands any subset of what was pending and marks the rest clean, as Linux does.
- The kernel may drop a clean page from its cache at any moment; a read then shows the drive.
- A read that fails makes a call return an error without changing anything. Between calls that is no
  step; in `Open` it discards the Store, which is what `Kill` does there.
- A file whose length is not a whole number of pages, `Stats` and the text of errors are left out.
- `verifyLive` is not run inside `Open` in the model: there it compares a Store with what it was just
  loaded from. Run `crash` checks all of `Verify` whenever the store is usable instead.

`Create` refuses a file that holds data before it touches it, and otherwise does what `Open` does with a blank
file, so `OpenBlank` stands for both.

### 2.2 Kill loop

`KillNine` extends `PageStore` with the child (`child` is its next step), the last number it
printed (`told`), its two variables, and the file's name in its directory: `none`, `cached` or
`durable`. The name is safe when `SyncParent` has returned, the last step of `Create` and `Open`; a
power cut before that keeps it or takes the file. The child dies at any step, by a kill, an error or a
power cut; the parent opens the file, which may itself fail, and then starts the next run on a new
file. The stamp that the child writes in its root page is the number of the coming checkpoint.

### 2.3 SyncParent

The file system is a tree of directories with links in it, and `Resolve` follows a path through it as
the kernel does, component by component with a budget of links: `Arrives` is a function of walks, of which each goes
`Onward` to the next until it is at its end (`EndOf`). `Open` finds the entry; `Hop` is one turn of
`SyncParent`'s loop, which looks only at the last component, joins a link's target to `rawDir` without
tidying either, and has the kernel resolve the rest. Permissions, a directory that cannot be fsynced, and
others who move things meanwhile are left out. In `KillNine` all of this is one step.

### 2.4 B+tree

Nodes are records in `heap`; a pointer is a place in it. After each step nodes that neither the tree nor the
iterator reaches are dropped and the rest renumbered in the order of the tree, so that trees of one shape
are one state. A leaf merged away survives while the iterator holds it, which is the case worth modelling:
its `next` still leads back to the chain. `splitLeaf`, `splitInternal`, `borrowFromLeft`, `borrowFromRight`,
`merge`, `repair` and `collapsed` are the functions of those names. `order` is a variable that never
changes, so that one run covers two orders. `scan` is what the iterator's client has seen. A `Delete`
ends that record: nothing in the code says what an open scan shows from then on, and of such a scan only
`ChainEnds` speaks. The zero-value `Tree`, which is `New` with order 64, `Stats`, `Dump`, `LeafFill` and `Separators` are left out; keys are
numbers, so the copies the code makes of key slices are not visible.

### 2.5 Node page and slots

`NodePage` keeps the bytes of a page from the slot array on, and the header's fields as a record. Slot
values are two bytes, big-endian, as in the file, so damage may be done to one slot field at a time.
`AppendTo` is `AppendLeaf` and `AppendInternal`, `SetLink` is `SetNext` and `SetFirstChild`; `Damage` is
what `TestValidateCatchesCorruption` does, at every field and value of the small page. `sort.Search` is
given by what it finds in sorted keys.

`Slots` keeps Go's int at a width of `IntBits` so that `Align` can overflow: the third check of
`NewLayout` exists for alignments near the largest int, and the model has them.

### 2.6 Naive

`file` is the bytes under the path, so that a kill may fall inside a line and the next `Put` be glued to
what is left. A line is known by the place of its first byte: `RawLine` is what stands there up to the newline, and `Text`
what the scanner gives of it. `Records` are the lines with a tab, and `Get` takes the last of a key's.

`Text` is not the whole line: `bufio.ScanLines` takes one carriage return off its end (`dropCR`), off the last line
too when it has no newline. So a value that ends in a return is not read as it was put: of `x` and a return there is
`x`, and a value that is one return is not found. `Compact` reads by the same scanner and writes what it read, and thus
takes off another: of `x` and two returns `Get` finds `x` and one before it and `x` after it, and a value that is two
returns is gone. The properties say as much and no more: `ButForReturns` holds of what is read and a value when
they are the same short of returns at the end of the value, so a value that does not end in one is read exactly.

`buf` is `bufio.Writer`'s: `Handed` gives the bytes a `WriteString` passes on, and `err` the
error it keeps for good. `Compact` is a chain of steps from `CompactRead` to `CompactReopen`, each of which
may fail or be the last before a kill. `log`, `told`, `smeared` and `synced` are what the client knows:
every byte sent, the map it expects, the keys whose line was glued to a torn one, and whether a flush has
succeeded since the last `Put`. Nothing in the package syncs, so a power cut is left out and promises
nothing.

### 2.7 Codec, null bitmap, rows

Words have 9 bits and bytes 3, chosen as 64 and 8 are: a word is a whole number of bytes, and the last byte
of the longest varint carries one bit (`BitsAssumption`). A key that is cut short is refused as in the code
(`KeyUint64`, `KeyInt64`, `KeyFloat64`). `uint` and `int` are Go's conversions, modulo the
word. `AppendUvarint`, `Uvarint` and `KeyUint64` are recursive functions (`Groups`, `Carried`, `FromBigEndian`), one
byte per step as in the code's loops. A float is its bits, with sign, exponent and mantissa. `Rows` writes the fields of one row, nulls in
the bitmap and values on the page, lets the record be cut or a byte of it change, and reads it back field by
field; then it builds conditions from comparisons with `Not`, `And` and `Or`. `cond.truth` says, for each
way to replace the nulls by values, what ordinary logic makes of the condition, which is what three-valued
logic is measured against.

### 2.8 Racing writers

`Put` of `racyDB` is `ReadOffset`, `Write`, `SetOffset`, each atomic, for two writers of a few records each.
`WriteAt` writes the whole record: the demo discards its error, and one that fails or is short would leave a hole or
half a record without any race, which is left out.

## 3. What the runs check

Bounds are constants named in each `.cfg`.

| run | instance | states | shows |
|---|---|---|---|
| `crash` | 3 usable pages, chunks of 3 so that the last is short, 1 id per list page, 3 checkpoints, any 2 failures, evictions anywhere | 517,000 | `TypeOK`, `SlicesInBounds`, `VerifyPasses`, `BelievesTheDrive`, `NothingLeaks`, `RecoversTheCheckpoint`, `OpenNeverRefuses`, `PoisonedIsSilent`, `FullOnlyWhenFull` |
| `durable` | 2 usable pages, one client value, writes in place too, 3 checkpoints, 2 failures | 940,000 | `PageStore` implements `DurableStore`; `CommittedIntact` |
| `damaged` | any root, list head, next page and file size, list counts up to 2, over 2 pages of zeros, data or lists of up to 2 ids | 229,000 | what Open accepts passes `Verify`; Open returns (`CallsReturn`) |
| `killnine` | 4 usable pages, 8 checkpoints, 3 failures | 9,230 | `NeverBehind`, `RootIsStamped`; with fairness, `KeepsGoing` |
| `sync_parent` | up to 3 links named a or b in 3 directories, 10 paths, limit of 3 links, paths of 5 components | 745,000 | `SyncsTheFilesDirectory`, `OpensWhatTheKernelOpens` |
| `btree` | order 3 with 9 keys, one with two rows; order 4 with 8 keys | 34,400 | every tree reachable is `TreeValid` and implements `OrderedMap` |
| `btree_scan` | order 3, 5 keys, one with two rows, ranges up to 3 or unbounded | 350,000 | `ScanIsExact` of undisturbed scans; `NothingMissed` and `ShowsWhatIsThere` with any `Put` between two `Next`; `ChainEnds` with any `Put` or `Delete` |
| `node_page` | 21 bytes for entries, 4 keys of 3 lengths, links, 2 damaged fields | 5,700,000 | `ReadsBack`, `ValidIffAscending`, `FillsToMaxKeys`, `ValidateIsSound`, `LookupsAgree` |
| `slots` | 10 bytes for records, 7-bit ints, every size and alignment; whole, short and dirty pages | 136,000 | `LayoutIsTight`, `RecordsKeep`, `HeaderCoversRecords` |
| `naive` | 2 keys; a delete, a value of 2 letters and one of 2 returns; a buffer of 4 bytes, 13 bytes of log, 2 failures or kills | 743,000 | `FlushedIsThere`, `LosesOnlyTheTail`, `CompactKeepsMap` |
| `rows` | rows of 5 nullable fields in 14 bytes, 9-bit words, cuts anywhere, 1 damaged byte of the body (the bitmap stays whole), conditions of 2 comparisons | 589,000 | `RowsReadBack`, `DecodingIsExact`, `KeysKeepOrder`, `LogicIsCautious` |
| `race` | 2 writers of 5 records of 2 bytes | 87,000 | `LosesWholeRecords` |

Why the bounds are enough to be worth something:

- **Pages.** The cases of the page store are: list empty, list on one page, list on several, list longer
  than the free pages, file full, last chunk short. With a capacity of one id per list page all of them fall
  within three usable pages; the real 4096-byte page holds about a thousand ids and the real store 2^32-1
  pages.
- **Checkpoints.** A page freed under one checkpoint is reusable after the next and overwritten before the
  third, so a mistake about its life shows within three. `durable` keeps contents to two pages and one
  value, since every value multiplies the states; a page there is written, committed, written in place,
  freed, reused and lost in any order.
- **Failures.** Two are needed: one to reach a state in doubt (a failed final fsync, a power cut after the
  meta page was written) and one to strike while it is being settled. `damaged`, with liveness, has none;
  `killnine`, a smaller model, has any three.
- **`killnine`.** The child lives on four usable pages: its page, the one before, and a list page twice.
  With three it fills the file, which TLC shows when `MaxPages` is lowered to 4.
- **`sync_parent`.** Three links make a chain as long as the limit, and a loop is longer than any limit; the
  targets have relative, absolute, nested and `..` paths, and a directory reached by a link, from which `..`
  leads elsewhere than the text of the path says.
- **Trees.** At order 3 the least node has one key, so a merge can empty an internal node and a delete can
  cascade to the root; nine keys give four levels. Order 4 splits unevenly. `Ranges` and `MaxStray` (leaves
  only the iterator still holds) keep scans finite; a client that deletes more than two leaves away under
  one iterator is not explored.
- **Node page.** Two damaged fields are the least that can be consistent with one another (a slot and
  `freeEnd`), which is where a weak `Validate` would be fooled.
- **Naive.** A line is 3 or 5 bytes, so a buffer of 4 keeps a line, splits the second, and passes one that does
  not fit straight on; 13 bytes are two lines and a delete, enough for an overwrite, a deleted key and a torn line
  with one glued to it. Of the value of two returns the scanner takes one and `Compact` the other, so that it is
  read short, shortened and lost. Two failures: one that tears or closes the file, and one in what follows.
- **Rows.** Five fields need two bytes of bitmap with padding; the ints take one, four and five bytes of
  varint, the longest there is; 14 bytes fill up, so that a value is refused. `KeysKeepOrder` compares a
  value read with every word there is, and damage makes other floats of the value, both zeros and several NaNs
  among them.
- **Race.** An earlier version said that half of one writer's records and one more are left, as TLC had found for
  three, five and six records. Seven refute it: four are left of twice seven. `n * (n + 3) >= 4 * Records` is what
  the proof gave (4.8), and TLC found it attained at seven; five makes the run short.

Deadlock is checked, except in `node_page`, `slots`, `sync_parent`, `rows` and `race`, where a full node, a
layout that was refused, a path that was walked, a condition of full length or two finished writers have no
operation left.

**Fairness.** A goroutine that called runs on until its call returns: `damaged` has weak fairness of
`StoreStep`, and `CallsReturn` says that Open comes back even on a list that loops. The child of the kill
loop is a loop without waiting: `killnine` has weak fairness of `ChildStep` and `StoreRuns`, and none of the
parent, the kernel or the power. `KeepsGoing` says that it goes from checkpoint to checkpoint unless it is
killed, although every checkpoint takes pages for its list and the file is small. Nothing else makes a
client call anything: every other property is a safety property, and its run has no fairness.

Each property has in `PROJECT.json` a mutant, a definition in the modules marked `Mutant:`, that puts a
plausible bug in the code it is about; TLC finds the property violated with it.

## 4. What is proved

Proved are all the safety properties that the runs check but those of the tree: for every value of the constants, so
for every `MaxPages`, `ChunkPages`, `FreeListCapacity`, page size, buffer size, width of an int, a word or a byte, schema,
tree of directories, limit of links, number of records and number of failures. The proofs assume
only the `ASSUME`s of the modules they are about, which TLC evaluates in the runs: sizes that are at least one, a
chunk no larger than the file, `Fresh` no client value, stamps of the kill loop that are values, two writers, keys and
values without tabs and newlines (carriage returns are allowed), a word that is a whole number of bytes and of a varint's last byte one bit, fields that
have one of the four kinds and values that Go's type of that kind has. One kind of
them is there for the prover's sake: it knows nothing of powers, so `Slots` and `Codec` state of `2 ^ e` what their proofs
use (`PowersAssumption`), for the exponents there are. It is arithmetic, true of all constants.

| theorem | states | module |
|---|---|---|
| `TypeCorrect` | `Spec => []TypeOK` | `PageStoreProofs` |
| `PoisonedStaysSilent` | `Spec => PoisonedIsSilent` | |
| `SlicesStayInBounds` | `Spec => []SlicesInBounds` | |
| `InvariantHolds` | `Spec => []IInv` | |
| `NothingEverLeaks` | `Spec => []NothingLeaks` | |
| `ReopensAtACheckpoint` | `Spec => []RecoversTheCheckpoint` | |
| `NeverRefused` | `Spec => []OpenNeverRefuses` | |
| `DriveIsBelieved` | `Spec => []BelievesTheDrive` | |
| `CommittedStaysIntact` | `Spec => []CommittedIntact` | |
| `VerifyAlwaysPasses` | `Spec => []VerifyPasses` | |
| `FullIsRightly` | `Spec => FullOnlyWhenFull` | |
| `StoreIsDurable` | `Spec => ImplementsDurable` | |
| `KillNineInvariant` | `KSpec => []KInv` | `KillNineProofs` |
| `FileNeverBehind` | `KSpec => []NeverBehind` | |
| `RootKeepsItsStamp` | `KSpec => []RootIsStamped` | |
| `NodeIsSound` | `Spec => []Inv` | `NodePageProofs` |
| `AppendedReadsBack` | `Spec => []ReadsBack` | |
| `NodeFillsToMaxKeys` | `Spec => []FillsToMaxKeys` | |
| `ValidPagesAreSound` | `Spec => []ValidateIsSound` | |
| `LookupsAreRight` | `Spec => []LookupsAgree` | |
| `ValidateIsExact` | `Spec => []ValidIffAscending` | |
| `SlotsInvariant` | `Spec => []Inv` | `SlotsProofs` |
| `LayoutsAreTight` | `Spec => []LayoutIsTight` | |
| `RecordsAreKept` | `Spec => []RecordsKeep` | |
| `HeadersCoverRecords` | `Spec => []HeaderCoversRecords` | |
| `LogicStaysCautious` | `Spec => []LogicIsCautious` | `RowsProofs` |
| `RowsAlwaysReadBack` | `Spec => []RowsReadBack` | |
| `DecodingStaysExact` | `Spec => []DecodingIsExact` | |
| `KeysAlwaysKeepOrder` | `Spec => []KeysKeepOrder` | |
| `RaceInvariant` | `Spec => []Inv` | `RaceProofs` |
| `RaceLosesWholeRecords` | `Spec => []LosesWholeRecords` | |
| `InvHolds` | `Spec => []Inv` | `NaiveProofs` |
| `CompactedReadsTheSame` | `Get` finds in `Compacted(bytes)` what it finds in `bytes`, but for returns at the end of a value | |
| `OnlyTheTailIsLost` | `Spec => []LosesOnlyTheTail` | |
| `FlushIsKept` | `Spec => []FlushedIsThere` | |
| `FlushIsExact` | after a flush a value that does not end in a return is read as it was put | |
| `CompactAlwaysKeepsMap` | `Spec => CompactKeepsMap` | |
| `InvHolds` | `Spec => []Inv` | `SyncParentProofs` |
| `TheFilesDirectoryIsSynced` | `Spec => []SyncsTheFilesDirectory` | |
| `WhatOpensIsNotRefused` | `Spec => []OpensWhatTheKernelOpens` | |

### 4.1 Types, poisoning, list pages (`PageStoreProofs`)

- `TypeCorrect`: the type invariant is inductive by itself. It is more than bookkeeping:
  `nextPage`, `filePages` and `ck.file` never pass `MaxPages` because of the cap in `growTo`, and what Open
  takes from a list page has a page id's type only because every page ever written, torn or landed has a
  kind that tells its fields (`ContentKinds`, `KindTells`). One lemma per action, joined in `NextType`.
- `PoisonedStaysSilent`: `PoisonInv` (a poisoned store is between calls) is needed: without it a checkpoint
  already in progress could still write.
- `SlicesStayInBounds`: the list shrinks while pages are taken from it, so the number of list pages needed falls
  as they are found. `ListPagesInv` says that the pages taken so far, but for the last, are full, and once
  enough were taken, that they hold every entry; the arithmetic of rounding up is in `MultiplyMonotonic` and
  `PagesForBounds`.

### 4.2 The invariant of the page store (`PageStoreInv`, and most of `PageStoreProofs`)

None of the properties of the store is inductive: each speaks of a state in which nothing is in progress, and
what makes it true there has to be known at every I/O before. `IInv` says it, in parts:

- `DriveInv` holds whoever runs. Its core is `MetaInv`: whichever meta page a power cut may leave, or a read
  show (the one in the cache, the one on the drive, any that is pending), *backs* a checkpoint the client was
  told of or has to reckon with. `Backs` is what Open needs to accept a file and to find `saved` or `doubt` in it:
  the record's numbers fit, the chain of list pages is on the drive with nothing pending on it, the pages in no
  list are those of the snapshot. `IntactInv` is `CommittedIntact` without its allowance for pending writes.
  `FileInv` and `BlankInv` say what a file may look like before the first checkpoint has returned, which is what
  `isBlank` relies on.
- `WalkInv` and `LoadInv`: what Open has read so far is a prefix of a list that backs the meta record it read.
- `ListsInv`: free, pending, list pages and `held` divide the pages below `nextPage`, and `status` agrees.
  `BaseInv`: the last checkpoint still backs `saved`, with the store's `listPage` as its chain, and only pages
  that were free in it are free now. This is why a page that was freed may not be reused before the checkpoint.
- `CleanInv`: what has no write pending is on the drive, until an fsync has failed. A kernel that drops a page
  from its cache changes nothing of that, and a poisoned store asks for nothing of it.
- `TakeInv`, `ListInv`, `CommitInv` follow a checkpoint: the pages taken and those left divide the free list
  and what was added at the end of the file; the list pages written so far say what the new list says, and once
  synced the new meta record backs the snapshot of what the client holds; while the meta page is on its way the
  file backs both.

The second part of `PageStoreProofs` has what a drive does to such facts (an fsync, a failed one, a power cut and an
eviction are *quiet*: what is stable stays so; a write disturbs only the pages it goes to) and facts about lists of
pages, `StatusOf` and list slices. After it come the client's calls and the checkpoint, and then Open, the
theorems and the refinement. Each action has one lemma, `InvariantNext` joins them.
`VerifyAlwaysPasses` also needs that cutting a list into slices and joining them gives it back: `FlattenSlices`,
by the folds of the community modules and not by induction over a recursive operator.

`FullIsRightly` has an invariant of its own, `RoomInv`: at each turn of the loop the list that would be left was
too long for the pages taken, and pages come off the end of the file only when the free list is used up.

### 4.3 The refinement (end of `PageStoreProofs`)

`DurableStore` has a snapshot `work` that a client changes, `saved`, `doubt` and `loose`. The mapping is that of
`PageStoreProps`. `ContentsInv`, inductive together with `IInv`, says that pages of the client and of checkpoints
hold what a client can have there. Then every step of `Next` is a step of `Durable!Next` or leaves its variables
alone:

| step of the store | step of the abstract store |
|---|---|
| `SetRoot`, `Free`, `Write`, `AllocateReused`, `AllocateNew` | the same for the work, or none when the I/O failed |
| a checkpoint up to its list's fsync | none |
| `CkMeta` | `Announce`; in a new file `Initialise` |
| `CkMetaSync` | `Commit`; in a new file `Settle` |
| `LdSync` | `Settle` |
| `Parent` | `Open` |
| a failed I/O in a checkpoint, `Close`, `Discard`, `Kill`, `PowerCut` | `Lose`, or none when there was no work |
| `Evict` | `Waver` for pages written in place, otherwise none |

### 4.4 The kill loop (`KillNineProofs`)

The steps of the loop are steps of the store, but for the child's death, which may come when no failure is left
to count, a lost file and a new one; so `IInv` carries over (`StoreGoesOn`). `RunInv` adds what the loop knows: the
file is at `told` or one ahead, and in doubt only at `told`; a checkpoint begins at `told`; the page just
allocated is none of the last checkpoint; the root that goes into a checkpoint holds its stamp; the parent makes
no checkpoint of its own. `KInv` is that or the file is lost, which the child must have said nothing of.

### 4.5 The node page (`NodePageProofs`)

`Inv` is about an undamaged page: its header is one that `NewLeaf` or `NewInternal` wrote, slots end where
`freeStart` says and below every cell, each cell ends where the one before it starts (`Chained`), and holds the key
and payload appended (`LaidOut`). `ReadsBack` follows, with what two big-endian bytes say (a slot is written as
`n \div 256` and `n % 256`); `FillsToMaxKeys` needs also that cells of one length leave the free end at a multiple of
it (`Even`), since `MaxKeys` divides and `Fits` subtracts.

`ValidateIsSound` and `LookupsAgree` are about any bytes and so not about steps: whatever page passes `Valid` has these
properties. `Valid` sorts the cells by their start; that consecutive ones meet, the first at `freeEnd` and the last
at the end of the page, gives cells that are apart only by going along the sorted list (`LeastNumber` stands for the
induction), and that a search on sorted keys counts what is below the key needs that the strict order of
consecutive keys is one of all. Conversely, for `ValidIffAscending`, the cells of a sound page are sorted by reversing them.
`SortedCells` is the set of all orders that sort them and `CellsTile` asks for one that meets: `sort.Slice` does not say
which it picks, and all are the same for cells that meet.

### 4.6 Record slots (`SlotsProofs`)

`LayoutIsTight` is arithmetic: `Align` rounds up to the least multiple (`AlignIsLeast`), for powers of two that divide
each other (`PowersDivide`), and `NewLayout` refuses what would wrap. The heart is `IntHolds`: a sum of two ints that
wraps comes out negative and a wrapped round-up comes out below what was rounded, so the three checks of the code
between them see all of it, at every width; the converse is that they refuse nothing that had room (`RoomForSlots`,
`NoRoomForSlots`). `Inv` says of the page that each stored record is in its slot with zeros behind (`Kept`), and that the
header's count and free start are those of the last slot used with one stale value behind them (`Covered`); a `Put`
disturbs no other slot because slots are apart (`SlotsApart`).

### 4.7 Records, codec and conditions (`RowsProofs`)

*Conditions.* `Inv` ties the condition to the row: an answer that is true, or false, is so of every completion of what was decoded
(`Cautious`), and is not unknown unless the bitmap says null or a term was none of the three values (`Decided`). It
needs of the reader that it decodes a field into one value at most, and that once it has passed a field that is not
null in the bitmap there is a value (`ReaderInv`); and that after the last field neither reader nor bitmap moves. One
comparison is right by `SaysCautiously`, and `Not`, `And`, `Or` keep it by `Connectives`, in each of the sixteen cases with an
answer that is none of the three among them.

*The codec.* What it computes, it computes byte by byte, so its definitions are recursive functions. TLA+ gives such a
function its equation only if some function has it; `Stepwise` and `GroupsExist` prove that one does, by induction, and
then it unfolds. On that rest three chains of lemmas, none of them about steps:

- *Keys.* `BytesCompare`: the bytes of two words, the highest first, compare at the first that differs as the words do,
  since what is above it is equal (`Upper`). Ints are words moved by `signBit`. For floats, `Number` grows with the bits of
  the magnitude, from the subnormals through each power of two (`Num`), a negative number is turned round by its
  complement, and zeros and NaNs are made one first.
- *Varints.* `UvarintIs` says what the loop returns by the first byte that ends it, and `VarintReads` that it reads what
  `Groups` wrote, whatever follows; `VarintCut` that a part of that is "truncated" and nothing else. Modulo the word, the
  bytes carried are the number they come to (`Sums`) unless the tenth byte has more than its bit; `GroupsAreShort` says that
  no sequence of bytes for a number is shorter than the one written.
- *Values.* `ValueReads`: a value of any kind that was appended is read, with as many bytes as it took, whatever follows,
  and any proper part of them is an error. `AnyBytes` and `DecodeBounded` hold of bytes that nobody wrote: what is decoded
  lies within them.

*The record.* Beside `Inv` there are `PageInv`, bytes are bytes and the reader is within them; `BitsInv`, the bit of a
field is set exactly if the field is null (a call for another field, or for the padding, changes no other bit:
`BitsApart`); `ItemsInv`, the page has counted the values present, and with it `Count` the nulls (`NullsCounted`, by a
bijection); and `ReadInv`. The last says that there are a record and places in it where its fields end (`Laid`, `FieldAt`),
that the page holds the record but for what was cut off its end, and that the reader is where a field ends and has decoded
the row up to there. Then a cut strikes in some field, at which the reader stops with an error.

### 4.8 Racing writers (`RaceProofs`)

The file is always whole records side by side, one `Put` each (`FullPlaces`), and offsets are those of places
(`Placed`). How many puts a file of `t` places can stand for is the hard part: an offset that is set back lets records be
written over, as often as the slower writer is behind. `PutsFit` bounds twice the puts so far by `t (t + 3)` less a
potential, `Left`, of the two places at which the writers will write next: what they could still write before a place
is added. Every step keeps the bound; with both writers done it says `n (n + 3) >= 4 * Records`.

### 4.9 The naive store (`NaiveProofs`)

The first half is about files and not about steps. `LineAdded`: a whole line put at the end of a file that ends with a line
changes what is found under its key and nothing else. `LineGlued`: one put behind a torn line changes it for the key that the
two together have, at most. `CompactedReadsTheSame`: the first line of each live key, with its last value, is all that a
reader needs; by induction over the places of the file, what has been copied up to a place answers as the file does for
the keys that appear before it (`Copied`).

All of them go through `dropCR`. A key stands before the tab, so it is never what a return is taken from
(`SameKey`), and a value loses its last return or nothing (`DroppedIsRead`). That alone would say little of a line
that is read, compacted and read again; but `ButForReturns` is transitive (`ReadsOn`), so it holds of what is left after
any number of compactions and the value that was put. If that value does not end in a return, nothing is missing
(`NothingMissing`), which is `FlushIsExact`.

`Inv` joins them. `LogAnswers`: the log answers each key as the client was told, but for returns at the end of the
value, unless its line was glued to a torn one
(`smeared`). `LosesOnlyTheTail` is a part of it: file and buffer together are the log until a write fails, and the file is
a prefix of it always. `NothingWaits` says what a store that is down, or closed by a failed `Compact`, may still have in its
buffer; `CompactInv`, that what Compact has in hand, in memory or in the file beside, is what is live in the file. `FlushIsKept` follows: flushed and alive, the file is the log.

### 4.10 SyncParent (`SyncParentProofs`)

The kernel follows a link where it stands, with what is left of its budget; SyncParent puts the target into the path,
starts from the top again, and has the whole budget at each turn. `Reaches(dir, comps, d, k)` is what makes them one: the
components lead from one directory to another with `k` links, and so they do whatever comes after them and however many
links are left, if they are `k` (`WalkSplits`, `MoreLinksLeft`). `LastStep` is the kernel at the last component, and
`JoinedLeads` says that the path joined by one turn of the loop leads where the one before led, with a link less. The
invariant is that: while it walks, the path leads to the file, with as many links as SyncParent will still follow
(`Aimed`). Hence the limit of SyncParent is the kernel's: one link fewer and a file that opens would be refused.

Both are inductions over walks, which always end although links may form cycles: each step has fewer links left, or as
many and fewer components (`WalkInduction`). `Arrives` is recursive over the same order and unfolds by `ArrivesUnfolds`.

### 4.11 How the invariants were found, and what is not proved

`IInv`, `ContentsInv` and the conjuncts of `RunInv` were checked with TLC as invariants before they were proved:
the first two over the instances of `crash` (517,000 states) and `durable` (940,000 states), `RunInv` over that of
`killnine`; so were those of `NodePage`, `Slots`, `Rows`, `Naive` and `SyncParent`, over
the instances of their runs, and of `Race`, for three records. The quantifier over lists
in `Backed` ranges over `Seq(PageIDs)`, which TLC cannot enumerate; for that check it was cut to lists without
repetition, `ReadInv` was given the record and its places instead of looking for them, and the sums of unlike values in
`RowInv` were left out. They are no runs of their own, because the theorems say more.

The prover has no induction over data: the library's induction theorems take an operator as a parameter. Wherever one is
needed it is the least element of a *set* of numbers, which the library has for sets (`WFMin` with
`NatLessThanWellFounded`): each module has its `LeastNumber` or `Induction`.

Only model-checked:

- liveness (`CallsReturn`, `KeepsGoing`), which is out of the prover's reach;
- what Open does with a file that no store wrote (`damaged`);
- the tree and its iterator (`TreeValid`, the refinement of `OrderedMap`, `ScanIsExact`, `NothingMissed`,
  `ShowsWhatIsThere`, `ChainEnds`). Splits, repairs and the renumbering of nodes recur along the paths of a heap that they
  change as they go, so that each stage needs an invariant of a tree with one node out of its limits; TLC checks what the
  stages come to, every tree of the instances.

## 5. What is not modelled

- `index`, `storage`, `core`: interface and type declarations; `OrderedMap` is what `index.Index` promises,
  and `storage.Engine` has no implementation.
- What only reports: the `describe.go` files, `Stats`, `Dump`, `String`, and the demo but for its kill loop,
  its racing writers and the rows it encodes. They have no state.
- `page.File.Allocate`, which only the demo calls and the page store replaces by its own growth; the
  accessors of `page.Page` by themselves.
- Whether a slice that was decoded is a view of its source or a copy: the models have values, not memory.
- A power cut under `naive`: the package never syncs and its documentation promises nothing.
- Strings as keys, which are their own bytes; lines of a megabyte or more in `naive`; keys and values that
  hold its tab or newline. Those with carriage returns are modelled.
- A `WriteAt` of the racing writers that fails or is short; damage to the null bitmap of a row; what a scan shows
  after a `Delete` while it is open.
- A file that is not a whole number of pages, and permission errors of paths.
- One hazard has no property: `Compact` of `naive` renames without a sync, so that a power cut may leave
  neither file (see the item on power cuts).

## 6. Plan

In the order in which they were or will be written; done so far: 1 to 12.

1. `Disk`, `PageStore`, `PageStoreProps`: the core, with crashes. 2. `DurableStore` and the refinement.
3. `PageStoreProofs`: types, poisoning, list slices. 4. `BTree`, `OrderedMap`, scans. 5. `KillNine`.
6. `NodePage`, `Slots`. 7. `Codec`, `NullBits` and `Rows`. 8. `SyncParent`. 9. `Naive` and `Race`.

10. Proofs of the page store: `PageStoreInv` and `PageStoreProofs`, with the refinement, and the kill loop in
`KillNineProofs`.

11. Proofs of smaller components: `NodePageProofs`, `SlotsProofs`, `RaceProofs`, and the conditions in `RowsProofs`.

12. Proofs about data: `NaiveProofs`, `SyncParentProofs`, and records, varints and keys in `RowsProofs`, after what
they fold or recur over was written as functions the prover can reason about.

13. Not begun: proofs of the tree, by labels (a height and an interval of keys for each node) that make its validity a
condition on each node alone.
