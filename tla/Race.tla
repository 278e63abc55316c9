-------------------------------- MODULE Race ---------------------------------
(***************************************************************************)
(* Two goroutines append records to one file through an offset that no     *)
(* lock guards (racyDB and expRace of cmd/scutedb-demo/main.go): Put reads *)
(* the offset, writes there, and sets the offset past what it wrote, and   *)
(* the other writer may take any steps between.                            *)
(*                                                                         *)
(* All records are RecordLen bytes long.  WriteAt is one step, as a write  *)
(* of a few bytes is to a file; so is a read or a write of the offset, an  *)
(* aligned word.  A WriteAt that fails or is short is left out: Put drops  *)
(* its error and moves the offset past what was written.                   *)
(***************************************************************************)
EXTENDS Integers, FiniteSets

CONSTANTS
  Writers,      \* the goroutines
  Records,      \* how many each of them writes
  RecordLen     \* bytes of a record

ASSUME WritersAssumption == \E a, b \in Writers : a # b /\ Writers = {a, b}
ASSUME RecordsAssumption == Records \in Nat /\ RecordLen \in Nat \ {0}

VARIABLES
  file,      \* offset -> the byte there: which one of which record of which writer
  offset,    \* racyDB.offset
  off,       \* writer -> the offset its Put has read
  pc,        \* writer -> where its Put is: "read", "write", "set"
  done       \* writer -> its records that are put

vars == <<file, offset, off, pc, done>>

Running(w) == done[w] < Records

ReadOffset(w) ==
  /\ Running(w) /\ pc[w] = "read"
  /\ off' = [off EXCEPT ![w] = offset]
  /\ pc' = [pc EXCEPT ![w] = "write"]
  /\ UNCHANGED <<file, offset, done>>

\* The file with record n of writer w at `at`.
WriteAt(w, n, at) ==
  [b \in DOMAIN file \cup at .. at + RecordLen - 1 |->
     IF b \in at .. at + RecordLen - 1 THEN <<w, n, b - at>> ELSE file[b]]

Write(w) ==
  /\ pc[w] = "write"
  /\ file' = WriteAt(w, done[w] + 1, off[w])
  /\ pc' = [pc EXCEPT ![w] = "set"]
  /\ UNCHANGED <<offset, off, done>>

\* Mutant: the offset is moved on from where it is now.
PastFromNow(w) == offset + RecordLen

Past(w) == off[w] + RecordLen

SetOffset(w) ==
  /\ pc[w] = "set"
  /\ offset' = Past(w)
  /\ done' = [done EXCEPT ![w] = @ + 1]
  /\ pc' = [pc EXCEPT ![w] = "read"]
  /\ UNCHANGED <<file, off>>

Init ==
  /\ file = [b \in {} |-> 0]
  /\ offset = 0
  /\ off = [w \in Writers |-> 0]
  /\ pc = [w \in Writers |-> "read"]
  /\ done = [w \in Writers |-> 0]

Next == \E w \in Writers : ReadOffset(w) \/ Write(w) \/ SetOffset(w)

Spec == Init /\ [][Next]_vars

-----------------------------------------------------------------------------
(* What is left. *)

\* The k-th place for a record holds one, whole.
Whole(k) ==
  \E w \in Writers, n \in 1 .. Records : \A i \in 0 .. RecordLen - 1 :
    k * RecordLen + i \in DOMAIN file /\ file[k * RecordLen + i] = <<w, n, i>>

Places == 0 .. Cardinality(DOMAIN file) \div RecordLen - 1

Survivors == {<<file[k * RecordLen][1], file[k * RecordLen][2]>> : k \in Places}

\* Records are lost, and nothing tells it: the file has no hole, and every record in
\* it is whole.  When both writers are done, n records are left with n * (n + 3) at least
\* four times what one of them wrote, however their steps fall: of twice 500 at least 44,
\* of twice 7 at least 4, and no more than 4 may be left of them.
LosesWholeRecords ==
  /\ DOMAIN file = 0 .. Cardinality(DOMAIN file) - 1
  /\ Cardinality(DOMAIN file) % RecordLen = 0
  /\ \A k \in Places : Whole(k)
  /\ (\A w \in Writers : ~Running(w)) =>
       LET n == Cardinality(Survivors) IN n * (n + 3) >= 4 * Records

=============================================================================
