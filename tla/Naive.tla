-------------------------------- MODULE Naive --------------------------------
(***************************************************************************)
(* The database of internal/naive/naive.go: a text file of lines, each a   *)
(* key, a tab and a value, appended through a buffer and rewritten by      *)
(* Compact.  A later line hides an earlier one of its key, and an empty    *)
(* value deletes.                                                          *)
(*                                                                         *)
(* The scanner takes a carriage return off the end of a line.  A value     *)
(* that ends in one is read without it, and each Compact takes one more.   *)
(*                                                                         *)
(* The file is the sequence of its bytes, as a crash may cut a line, and   *)
(* the next Put is then glued to what is left of it.  A write that fails   *)
(* or is cut short leaves a prefix of its bytes.  Compact is taken one     *)
(* system call at a time.                                                  *)
(*                                                                         *)
(* Left out: calls that fail before they change anything, lines over the   *)
(* scanner's limit of a megabyte, and keys and values that hold a tab or a *)
(* newline of their own.  Nothing is ever synced, so no property speaks of *)
(* a power cut.                                                            *)
(***************************************************************************)
EXTENDS Integers, Sequences, FiniteSetsExt, SequencesExt, Functions

CONSTANTS
  Keys, Values,   \* sequences of letters; an empty value deletes
  BufSize,        \* bytes the writer holds
  MaxBytes,       \* bound: bytes sent to the log
  MaxTrouble      \* bound: failed system calls and kills

Newline == 0
Tab     == 1
Return  == 2

\* A carriage return is a letter like any other, to those who put it.
ASSUME LettersAssumption ==
  Keys \cup Values \subseteq Seq(Nat \ {Newline, Tab})
ASSUME SizeAssumption == BufSize \in Nat \ {0} /\ MaxBytes \in Nat /\ MaxTrouble \in Nat

VARIABLES
  file,      \* the bytes under the database's path
  tmp,       \* the bytes under the path that Compact writes to
  isOpen,    \* whether db.f is an open file, and that under the path
  buf, err,  \* what db.w holds, and whether a write of it ever failed
  pc,        \* "down", "idle", or the next system call of Compact
  out,       \* what Compact writes
  (* what the client has been told, for the properties *)
  log,       \* every byte sent since the file was opened or compacted, after what was there
  told,      \* the value each key should have
  smeared,   \* keys whose line is glued to a torn one
  synced,    \* Flush returned nil and there was no Put since
  trouble

fileVars == <<file, tmp, isOpen>>
bufVars  == <<buf, err>>
toldVars == <<log, told, smeared, synced>>
vars     == <<fileVars, bufVars, pc, out, toldVars, trouble>>

-----------------------------------------------------------------------------
(* Reading a file. *)

Line(key, value) == key \o <<Tab>> \o value \o <<Newline>>

\* A line is known by the place of its first byte.  The scanner finds one at the
\* start of the file and after every newline; the last may lack its own.
Lines(bytes) == {i \in DOMAIN bytes : i = 1 \/ bytes[i - 1] = Newline}

\* Where the scanner stops: at the newline of the line, or past the last byte.
NewlineOf(bytes, i) ==
  Min({j \in i .. Len(bytes) + 1 : j = Len(bytes) + 1 \/ bytes[j] = Newline})

RawLine(bytes, i) == SubSeq(bytes, i, NewlineOf(bytes, i) - 1)

\* Of a line that lacks its newline too.
dropCR(line) == IF line # <<>> /\ Last(line) = Return THEN Front(line) ELSE line

Text(bytes, i) == dropCR(RawLine(bytes, i))

\* Lines without a tab are passed over.
HasTab(text)   == Tab \in Range(text)
Records(bytes) == {i \in Lines(bytes) : HasTab(Text(bytes, i))}

TabOf(text)   == Min({i \in DOMAIN text : text[i] = Tab})
KeyOf(text)   == SubSeq(text, 1, TabOf(text) - 1)
ValueOf(text) == SubSeq(text, TabOf(text) + 1, Len(text))

KeyAt(bytes, i) == KeyOf(Text(bytes, i))
KeysOf(bytes)   == {KeyAt(bytes, i) : i \in Records(bytes)}

\* The value of a key: that of its last line, and empty when it is not there.
Get(bytes, key) ==
  LET of == {i \in Records(bytes) : KeyAt(bytes, i) = key} IN
  IF of = {} THEN <<>> ELSE ValueOf(Text(bytes, Max(of)))

\* Whether a key first appears in the i-th byte's line.
IsFirst(bytes, i) ==
  /\ i \in Records(bytes)
  /\ \A j \in Records(bytes) : KeyAt(bytes, j) = KeyAt(bytes, i) => i <= j

\* What the compacted file has for the i-th byte: the line of a live key.
LiveLine(bytes, i) ==
  IF IsFirst(bytes, i) /\ Get(bytes, KeyAt(bytes, i)) # <<>>
  THEN Line(KeyAt(bytes, i), Get(bytes, KeyAt(bytes, i))) ELSE <<>>

\* The live keys in the order in which they first appear, one line each.
Compacted(bytes) == FlattenSeq([i \in DOMAIN bytes |-> LiveLine(bytes, i)])

-----------------------------------------------------------------------------
(* Writing through the buffer. *)

Trouble == trouble < MaxTrouble /\ trouble' = trouble + 1

FirstBytes(bytes, n) == SubSeq(bytes, 1, n)

\* The bytes that WriteString hands to the file before it returns, when line is
\* written to a buffer that holds buf: none if it fits, else a full buffer; all if
\* what is over does not fit either, or if the buffer was empty.
Handed(line) ==
  LET all == buf \o line IN
  IF Len(all) <= BufSize THEN <<>>
  ELSE IF buf = <<>> \/ Len(all) > 2 * BufSize THEN all
  ELSE FirstBytes(all, BufSize)

Rest(bytes, line) == SubSeq(buf \o line, Len(bytes) + 1, Len(buf) + Len(line))

\* Mutant: the bytes of a failed write stay in the buffer to be written again.
WriteFailsRetried(bytes) ==
  /\ bytes # <<>>
  /\ Trouble /\ \E n \in 0 .. Len(bytes) - 1 : file' = file \o FirstBytes(bytes, n)
  /\ buf' = bytes /\ err' = FALSE

\* Mutant: a failed write is reported and forgotten, and its bytes with it.
WriteFailsForgotten(bytes) ==
  /\ bytes # <<>>
  /\ \/ ~isOpen /\ UNCHANGED <<file, trouble>>
     \/ Trouble /\ UNCHANGED file
  /\ buf' = <<>> /\ err' = FALSE

\* A write to a closed file fails, and any other may.  The writer then keeps its
\* error for good, and what it has not written is never written.
WriteFails(bytes) ==
  /\ bytes # <<>>
  /\ \/ ~isOpen /\ UNCHANGED <<file, trouble>>
     \/ isOpen /\ Trouble
        /\ \E n \in 0 .. Len(bytes) - 1 : file' = file \o FirstBytes(bytes, n)
  /\ buf' = <<>> /\ err' = TRUE

\* A flush of an empty buffer asks nothing of the file.
Writes(bytes) ==
  /\ isOpen \/ bytes = <<>>
  /\ file' = file \o bytes
  /\ UNCHANGED <<err, trouble>>

-----------------------------------------------------------------------------
(* Calls.  One made after a failed write returns its error, and is no step. *)

Torn(bytes) == bytes # <<>> /\ Last(bytes) # Newline

\* The client is told that key now has this value.  After a torn line the put is
\* part of that one instead.
Tells(key, value) ==
  IF Torn(log)
  THEN /\ smeared' = {key, KeyAt(log \o Line(key, value), Max(Lines(log)))} \cap Keys
       /\ UNCHANGED told
  ELSE /\ told' = [told EXCEPT ![key] = value]
       /\ smeared' = smeared \ {key}

Put(key, value) ==
  LET line == Line(key, value) IN
  /\ pc = "idle" /\ ~err
  /\ Len(log) + Len(line) <= MaxBytes
  /\ \/ /\ Writes(Handed(line))
        /\ buf' = Rest(Handed(line), line)
        /\ Tells(key, value)
     \/ /\ WriteFails(Handed(line))
        /\ UNCHANGED <<told, smeared>>
  /\ log' = log \o line
  /\ synced' = FALSE
  /\ UNCHANGED <<tmp, isOpen, pc, out>>

\* Flush, and Get and Stats, which begin with it and then only read.
Flush ==
  /\ pc = "idle" /\ ~err
  /\ \/ Writes(buf) /\ buf' = <<>> /\ synced' = TRUE
     \/ WriteFails(buf) /\ synced' = FALSE
  /\ UNCHANGED <<tmp, isOpen, pc, out, log, told, smeared>>

Close ==
  /\ pc = "idle"
  /\ \/ ~err /\ Writes(buf)
     \/ ~err /\ WriteFails(buf)
     \/ err /\ UNCHANGED <<file, trouble>>
  /\ buf' = <<>> /\ err' = FALSE /\ isOpen' = FALSE
  /\ pc' = "down"
  /\ synced' = FALSE
  /\ UNCHANGED <<tmp, out, log, told, smeared>>

Open ==
  /\ pc = "down"
  /\ pc' = "idle"
  /\ isOpen' = TRUE
  /\ log' = file
  /\ told' = [key \in Keys |-> Get(file, key)]
  /\ smeared' = {}
  /\ synced' = TRUE
  /\ UNCHANGED <<file, tmp, bufVars, out, trouble>>

-----------------------------------------------------------------------------
(* Compact.  One whose first flush fails is Flush.                         *)

\* The log is flushed and what is live in it read.
CompactRead ==
  /\ pc = "idle" /\ ~err
  /\ Writes(buf)
  /\ buf' = <<>>
  /\ out' = Compacted(file')
  /\ pc' = "create"
  /\ synced' = TRUE
  /\ UNCHANGED <<tmp, isOpen, log, told, smeared>>

BackTo(where) == pc' = where /\ out' = <<>>

CompactCreate ==
  /\ pc = "create"
  /\ \/ tmp' = <<>> /\ pc' = "write" /\ UNCHANGED <<out, trouble>>
     \/ Trouble /\ BackTo("idle") /\ UNCHANGED tmp
  /\ UNCHANGED <<file, isOpen, bufVars, toldVars>>

\* Mutant: what is in the buffer of the new file is not flushed before the rename.
CompactWriteUnflushed ==
  /\ pc = "write" /\ pc' = "close"
  /\ UNCHANGED <<fileVars, bufVars, out, toldVars, trouble>>

CompactWrite ==
  /\ pc = "write"
  /\ \/ tmp' = out /\ pc' = "close" /\ UNCHANGED <<out, trouble>>
     \/ /\ Trouble
        /\ \E n \in 0 .. Len(out) : tmp' = FirstBytes(out, n)
        /\ BackTo("idle")
  /\ UNCHANGED <<file, isOpen, bufVars, toldVars>>

CompactClose ==
  /\ pc = "close"
  /\ isOpen' = FALSE
  /\ pc' = "rename"
  /\ UNCHANGED <<file, tmp, bufVars, out, toldVars, trouble>>

\* When it fails the database is left with a closed file.
CompactRename ==
  /\ pc = "rename"
  /\ \/ /\ file' = tmp /\ tmp' = <<>>
        /\ log' = tmp
        /\ pc' = "reopen" /\ UNCHANGED <<out, trouble>>
     \/ /\ Trouble
        /\ BackTo("idle")
        /\ UNCHANGED <<file, tmp, log>>
  /\ UNCHANGED <<isOpen, bufVars, told, smeared, synced>>

CompactReopen ==
  /\ pc = "reopen"
  /\ \/ isOpen' = TRUE /\ buf' = <<>> /\ err' = FALSE /\ UNCHANGED trouble
     \/ Trouble /\ UNCHANGED <<isOpen, bufVars>>
  /\ BackTo("idle")
  /\ UNCHANGED <<file, tmp, toldVars>>

-----------------------------------------------------------------------------
(* The process dies: between two calls, or with a write of its log half done. *)

Dies ==
  /\ Trouble
  /\ BackTo("down")
  /\ isOpen' = FALSE /\ buf' = <<>> /\ err' = FALSE
  /\ synced' = FALSE
  /\ UNCHANGED <<tmp, told, smeared>>

Kill == pc # "down" /\ Dies /\ UNCHANGED <<file, log>>

Starts(bytes) == \E n \in 1 .. Len(bytes) : file' = file \o FirstBytes(bytes, n)

\* In a Flush or a Put.
KillInWrite ==
  /\ pc = "idle" /\ isOpen /\ ~err
  /\ \/ Starts(buf) /\ UNCHANGED log
     \/ \E key \in Keys, value \in Values :
          /\ Len(log) + Len(Line(key, value)) <= MaxBytes
          /\ Starts(Handed(Line(key, value)))
          /\ log' = log \o Line(key, value)
  /\ Dies

-----------------------------------------------------------------------------
Init ==
  /\ file = <<>> /\ tmp = <<>> /\ isOpen = FALSE
  /\ buf = <<>> /\ err = FALSE
  /\ pc = "down" /\ out = <<>>
  /\ log = <<>> /\ told = [key \in Keys |-> <<>>] /\ smeared = {} /\ synced = FALSE
  /\ trouble = 0

Next ==
  \/ \E key \in Keys, value \in Values : Put(key, value)
  \/ Flush \/ Close \/ Open
  \/ CompactRead \/ CompactCreate \/ CompactWrite \/ CompactClose
  \/ CompactRename \/ CompactReopen
  \/ Kill \/ KillInWrite

Spec == Init /\ [][Next]_vars

-----------------------------------------------------------------------------
(* Properties. *)

\* What is read is the value, short of carriage returns at its end at most: the value
\* itself when it does not end in one.
ButForReturns(read, value) ==
  /\ Len(read) <= Len(value)
  /\ \A i \in 1 .. Len(value) : value[i] = IF i <= Len(read) THEN read[i] ELSE Return

\* When Flush returns nil the file answers for every Put since it was opened, also
\* after compactions, failed ones too.  A line torn by a crash costs the next
\* Put, which is glued to it, and nothing more.  Of a value that ends in carriage
\* returns some may be missing there, and never anything else.
FlushedIsThere ==
  synced => \A key \in Keys \ smeared : ButForReturns(Get(file, key), told[key])

\* What a crash or a failed write takes is the end of what was sent: the file is
\* always a prefix of it, and while no write has failed the rest is in the buffer.
LosesOnlyTheTail ==
  /\ IsPrefix(file, log)
  /\ pc # "down" /\ ~err => file \o buf = log

\* Wherever Compact fails or the process is killed in it, a reader of the file finds
\* the same keys and values as before, but for carriage returns at the end of a value.
CompactKeepsMap ==
  [][pc \notin {"down", "idle"} =>
       \A key \in KeysOf(file) \cup KeysOf(file') :
         ButForReturns(Get(file', key), Get(file, key))]_vars

=============================================================================
