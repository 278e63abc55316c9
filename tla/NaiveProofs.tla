----------------------------- MODULE NaiveProofs -----------------------------
(***************************************************************************)
(* What a reader of the naive store's file finds, proved for every file,   *)
(* every buffer size and all keys and values: a line that is added is the  *)
(* one thing that changes, compaction changes nothing, a crash takes only  *)
(* the end of what was sent, and what a flush promised is there.  All of   *)
(* this is but for the carriage returns at the end of a value, which the   *)
(* scanner takes off one at a time (ButForReturns).                        *)
(***************************************************************************)
EXTENDS Naive, SequenceTheorems, WellFoundedInduction, TLAPS

USE DEF Newline, Tab, Return

Bytes   == Seq(Nat)
Letters == Seq(Nat \ {Newline, Tab})     \* what a key is made of
OneLine == Seq(Nat \ {Newline})          \* what a value of a line is made of

-----------------------------------------------------------------------------
(* Numbers. *)

\* The least-number principle, for sets, and what Min is.
LEMMA LeastNumber ==
  ASSUME NEW T \in SUBSET Nat, T # {}
  PROVE  Min(T) \in T /\ \A m \in T : Min(T) <= m
<1>1. PICK R : R = {ss \in Nat \X Nat : ss[1] < ss[2]} /\ IsWellFoundedOn(R, Nat)
  BY NatLessThanWellFounded DEF OpToRel
<1>2. PICK n \in T : \A m \in T : ~ (<<m, n>> \in R)
  BY <1>1, WFMin, Zenon
<1>3. ASSUME NEW m \in T PROVE n <= m
  <2>1. m \in Nat /\ n \in Nat
    OBVIOUS
  <2>2. m < n => <<m, n>> \in R
    BY <1>1, <2>1
  <2> QED BY <1>2, <2>1, <2>2
<1> QED BY <1>3, Zenon DEF Min

\* The greatest of numbers that have a bound.
LEMMA GreatestNumber ==
  ASSUME NEW bound \in Nat, NEW T \in SUBSET (0 .. bound), T # {}
  PROVE  Max(T) \in T /\ \A m \in T : m <= Max(T)
<1> DEFINE D == {bound - m : m \in T}
<1>1. D \in SUBSET Nat /\ D # {}
  <2>1. \A m \in T : bound - m \in Nat
    OBVIOUS
  <2>2. PICK m \in T : TRUE
    OBVIOUS
  <2> QED BY <2>1, <2>2
<1>2. Min(D) \in D /\ \A d \in D : Min(D) <= d
  <2> HIDE DEF D
  <2> QED BY <1>1, LeastNumber
<1>3. PICK n \in T : Min(D) = bound - n
  BY <1>2
<1>4. ASSUME NEW m \in T PROVE n >= m
  <2>1. bound - n <= bound - m
    BY <1>2, <1>3
  <2> QED BY <2>1
<1>5. \E x \in T : \A y \in T : x >= y
  BY <1>4
<1>6. Max(T) \in T /\ \A y \in T : Max(T) >= y
  BY <1>5, Zenon DEF Max
<1> QED BY <1>6

\* Induction, for sets.
LEMMA Induction ==
  ASSUME NEW T \in SUBSET Nat, 0 \in T, \A n \in T : n + 1 \in T
  PROVE  T = Nat
<1> SUFFICES ASSUME T # Nat PROVE FALSE
  OBVIOUS
<1>1. Nat \ T # {} /\ Nat \ T \in SUBSET Nat
  OBVIOUS
<1>2. PICK n \in Nat \ T : \A m \in Nat \ T : n <= m
  BY <1>1, LeastNumber, Zenon
<1>3. n # 0 /\ n - 1 \in Nat /\ n - 1 \in T
  BY <1>2
<1>4. (n - 1) + 1 \in T /\ (n - 1) + 1 = n
  BY <1>3
<1> QED BY <1>2, <1>4

-----------------------------------------------------------------------------
(* FlattenSeq is a recursive function: it is there, and unfolds. *)

Concatenates(f, s, n) ==
  f = [i \in 1 .. n |-> IF i = 1 THEN s[i] ELSE f[i - 1] \o s[i]]

LEMMA FlattenExists ==
  ASSUME NEW s, NEW n \in Nat
  PROVE  \E f : Concatenates(f, s, n)
<1> DEFINE T == {m \in Nat : \E f : Concatenates(f, s, m)}
<1>1. 0 \in T
  <2>1. Concatenates([i \in 1 .. 0 |-> 0], s, 0)
    BY DEF Concatenates
  <2> QED BY <2>1
<1>2. ASSUME NEW m \in T PROVE m + 1 \in T
  <2>1. PICK f : Concatenates(f, s, m)
    OBVIOUS
  <2> DEFINE g == [i \in 1 .. m + 1 |->
                     IF i = m + 1 THEN IF i = 1 THEN s[i] ELSE f[i - 1] \o s[i] ELSE f[i]]
  <2>2. ASSUME NEW i \in 1 .. m + 1
        PROVE  g[i] = IF i = 1 THEN s[i] ELSE g[i - 1] \o s[i]
    <3>1. CASE i = m + 1
      <4>1. i # 1 => i - 1 \in 1 .. m + 1 /\ i - 1 # m + 1
        BY <3>1
      <4>2. i # 1 => g[i - 1] = f[i - 1]
        BY <4>1
      <4> QED BY <4>2, <3>1
    <3>2. CASE i # m + 1
      <4>1. i \in 1 .. m
        BY <3>2
      <4>2. f[i] = IF i = 1 THEN s[i] ELSE f[i - 1] \o s[i]
        BY <2>1, <4>1 DEF Concatenates
      <4>3. i # 1 => i - 1 \in 1 .. m + 1 /\ i - 1 # m + 1
        BY <4>1
      <4>4. i # 1 => g[i - 1] = f[i - 1]
        BY <4>3
      <4> QED BY <3>2, <4>2, <4>4
    <3> QED BY <3>1, <3>2
  <2>3. Concatenates(g, s, m + 1)
    <3>1. g = [i \in 1 .. m + 1 |-> g[i]]
      OBVIOUS
    <3> HIDE DEF g
    <3> QED BY <2>2, <3>1, Zenon DEF Concatenates
  <2> QED BY <2>3
<1>3. T = Nat
  <2> HIDE DEF T
  <2>1. T \in SUBSET Nat
    BY DEF T
  <2> QED BY <1>1, <1>2, <2>1, Induction
<1> QED BY <1>3

LEMMA FlattenUnfolds ==
  ASSUME NEW s, Len(s) \in Nat \ {0}
  PROVE  \E f : Concatenates(f, s, Len(s)) /\ FlattenSeq(s) = f[Len(s)]
<1>1. \E f : f = [i \in 1 .. Len(s) |-> IF i = 1 THEN s[i] ELSE f[i - 1] \o s[i]]
  BY FlattenExists DEF Concatenates
<1> DEFINE F == CHOOSE f : f = [i \in 1 .. Len(s) |-> IF i = 1 THEN s[i] ELSE f[i - 1] \o s[i]]
<1>2. F = [i \in 1 .. Len(s) |-> IF i = 1 THEN s[i] ELSE F[i - 1] \o s[i]]
  BY <1>1, Zenon
<1>3. FlattenSeq(s) = F[Len(s)]
  BY DEF FlattenSeq
<1> QED BY <1>2, <1>3, Zenon DEF Concatenates

-----------------------------------------------------------------------------
(* Lines. *)

LEMMA EndOfLine ==
  ASSUME NEW b \in Bytes, NEW i \in DOMAIN b
  PROVE  /\ NewlineOf(b, i) \in i .. Len(b) + 1
         /\ NewlineOf(b, i) = Len(b) + 1 \/ b[NewlineOf(b, i)] = Newline
         /\ \A j \in i .. NewlineOf(b, i) - 1 : b[j] # Newline
<1>1. PICK n \in Nat : n = Len(b) /\ DOMAIN b = 1 .. n
  BY LenProperties DEF Bytes
<1>2. i \in 1 .. n
  BY <1>1
<1> DEFINE T == {j \in i .. n + 1 : j = n + 1 \/ b[j] = Newline}
<1>3. NewlineOf(b, i) = Min(T)
  BY <1>1 DEF NewlineOf
<1>4. n + 1 \in T /\ T \in SUBSET Nat
  BY <1>2
<1>5. Min(T) \in T /\ \A m \in T : Min(T) <= m
  <2> HIDE DEF T
  <2> QED BY <1>4, LeastNumber
<1>6. PICK e : e = Min(T)
  OBVIOUS
<1>7. e \in i .. n + 1 /\ (e = n + 1 \/ b[e] = Newline)
  BY <1>5, <1>6
<1>8. ASSUME NEW j \in i .. e - 1 PROVE b[j] # Newline
  <2>1. j \in T => e <= j
    <3> HIDE DEF T
    <3> QED BY <1>5, <1>6
  <2>2. ~ (e <= j) /\ j \in i .. n + 1
    BY <1>7, <1>2
  <2> QED BY <2>1, <2>2
<1> QED BY <1>1, <1>3, <1>6, <1>7, <1>8

\* There is no other such place.
LEMMA EndOfLineIs ==
  ASSUME NEW b \in Bytes, NEW i \in DOMAIN b, NEW e \in i .. Len(b) + 1,
         e = Len(b) + 1 \/ b[e] = Newline,
         \A j \in i .. e - 1 : b[j] # Newline
  PROVE  NewlineOf(b, i) = e
<1>1. PICK n \in Nat : n = Len(b) /\ DOMAIN b = 1 .. n
  BY LenProperties DEF Bytes
<1>2. PICK d : d = NewlineOf(b, i)
  OBVIOUS
<1>3. /\ d \in i .. n + 1
      /\ d = n + 1 \/ b[d] = Newline
      /\ \A j \in i .. d - 1 : b[j] # Newline
  BY <1>1, <1>2, EndOfLine
<1>4. i \in 1 .. n /\ e \in i .. n + 1
  BY <1>1
<1>5. ~ (d < e)
  <2>1. ASSUME d < e PROVE FALSE
    <3>1. d \in i .. e - 1 /\ d # n + 1
      BY <1>3, <1>4, <2>1
    <3> QED BY <1>3, <3>1
  <2> QED BY <2>1
<1>6. ~ (e < d)
  <2>1. ASSUME e < d PROVE FALSE
    <3>1. e \in i .. d - 1 /\ e # n + 1
      BY <1>3, <1>4, <2>1
    <3> QED BY <1>1, <1>3, <3>1
  <2> QED BY <2>1
<1> QED BY <1>2, <1>3, <1>4, <1>5, <1>6

LEMMA RawOfLine ==
  ASSUME NEW b \in Bytes, NEW i \in DOMAIN b
  PROVE  /\ RawLine(b, i) \in OneLine
         /\ Len(RawLine(b, i)) = NewlineOf(b, i) - i
         /\ \A j \in 1 .. NewlineOf(b, i) - i : RawLine(b, i)[j] = b[i + j - 1]
<1>1. PICK n \in Nat : n = Len(b) /\ DOMAIN b = 1 .. n /\ b \in [1 .. n -> Nat]
  BY LenProperties DEF Bytes
<1>2. PICK e : e = NewlineOf(b, i)
  OBVIOUS
<1>3. e \in i .. n + 1 /\ \A j \in i .. e - 1 : b[j] # Newline
  BY <1>1, <1>2, EndOfLine
<1>4. i \in 1 .. n
  BY <1>1
<1>5. i \in Int /\ e - 1 \in Int /\ \A j \in i .. e - 1 : b[j] \in Nat \ {Newline}
  BY <1>1, <1>3, <1>4
<1>6. /\ SubSeq(b, i, e - 1) \in Seq(Nat \ {Newline})
      /\ Len(SubSeq(b, i, e - 1)) = IF i <= e - 1 THEN (e - 1) - i + 1 ELSE 0
      /\ \A j \in 1 .. (e - 1) - i + 1 : SubSeq(b, i, e - 1)[j] = b[i + j - 1]
  BY <1>5, SubSeqProperties
<1>7. (IF i <= e - 1 THEN (e - 1) - i + 1 ELSE 0) = e - i /\ (e - 1) - i + 1 = e - i
  BY <1>3, <1>4
<1> QED BY <1>2, <1>6, <1>7 DEF RawLine, OneLine

-----------------------------------------------------------------------------
(* Keys and values. *)

\* The first tab of a line, wherever it is found.
LEMMA FirstTab ==
  ASSUME NEW text \in Bytes, NEW p \in 1 .. Len(text), text[p] = Tab,
         \A j \in 1 .. p - 1 : text[j] # Tab
  PROVE  HasTab(text) /\ TabOf(text) = p
<1>1. PICK n \in Nat : n = Len(text) /\ DOMAIN text = 1 .. n
  BY LenProperties DEF Bytes
<1>2. p \in 1 .. n
  BY <1>1
<1>3. HasTab(text)
  BY <1>1, <1>2 DEF HasTab, Range
<1> DEFINE T == {i \in DOMAIN text : text[i] = Tab}
<1>4. T \in SUBSET Nat /\ p \in T
  BY <1>1, <1>2
<1>5. Min(T) \in T /\ \A m \in T : Min(T) <= m
  <2> HIDE DEF T
  <2> QED BY <1>4, LeastNumber
<1>6. PICK q : q = Min(T)
  OBVIOUS
<1>7. q \in 1 .. n /\ q <= p /\ text[q] = Tab
  <2>1. q \in T /\ q <= p
    <3> HIDE DEF T
    <3> QED BY <1>4, <1>5, <1>6
  <2> QED BY <1>1, <2>1
<1>8. q = p
  <2>1. q < p => q \in 1 .. p - 1
    BY <1>2, <1>7
  <2> QED BY <1>2, <1>7, <2>1
<1> QED BY <1>3, <1>6, <1>8 DEF TabOf

LEMMA TabOfLine ==
  ASSUME NEW text \in Bytes, HasTab(text)
  PROVE  /\ TabOf(text) \in 1 .. Len(text) /\ text[TabOf(text)] = Tab
         /\ \A j \in 1 .. TabOf(text) - 1 : text[j] # Tab
<1>1. PICK n \in Nat : n = Len(text) /\ DOMAIN text = 1 .. n
  BY LenProperties DEF Bytes
<1> DEFINE T == {i \in DOMAIN text : text[i] = Tab}
<1>2. T \in SUBSET Nat /\ T # {}
  BY <1>1 DEF HasTab, Range
<1>3. Min(T) \in T /\ \A m \in T : Min(T) <= m
  <2> HIDE DEF T
  <2> QED BY <1>2, LeastNumber
<1>4. PICK q : q = Min(T)
  OBVIOUS
<1>5. q \in 1 .. n /\ text[q] = Tab
  BY <1>1, <1>3, <1>4
<1>6. ASSUME NEW j \in 1 .. q - 1 PROVE text[j] # Tab
  <2>1. j \in DOMAIN text /\ ~ (q <= j)
    BY <1>1, <1>5
  <2>2. j \in T => q <= j
    <3> HIDE DEF T
    <3> QED BY <1>3, <1>4
  <2> QED BY <2>1, <2>2
<1>7. TabOf(text) = q
  BY <1>4 DEF TabOf
<1> QED BY <1>1, <1>5, <1>6, <1>7

\* Lines that agree up to the first tab of one have one key.
LEMMA SameKey ==
  ASSUME NEW s \in Bytes, NEW t \in Bytes, HasTab(s), TabOf(s) <= Len(t),
         \A j \in 1 .. TabOf(s) : t[j] = s[j]
  PROVE  HasTab(t) /\ TabOf(t) = TabOf(s) /\ KeyOf(t) = KeyOf(s)
<1>1. PICK p : p = TabOf(s) /\ p \in 1 .. Len(s) /\ s[p] = Tab /\ \A j \in 1 .. p - 1 : s[j] # Tab
  BY TabOfLine
<1>2. PICK n \in Nat, m \in Nat : n = Len(s) /\ m = Len(t)
  BY LenProperties DEF Bytes
<1>3. p \in 1 .. n /\ p \in 1 .. m /\ \A j \in 1 .. p : t[j] = s[j]
  BY <1>1, <1>2
<1>4. HasTab(t) /\ TabOf(t) = p
  <2>1. t[p] = Tab /\ \A j \in 1 .. p - 1 : t[j] # Tab
    BY <1>1, <1>3
  <2> QED BY <1>2, <1>3, <2>1, FirstTab
<1>5. SubSeq(t, 1, p - 1) = SubSeq(s, 1, p - 1)
  <2>1. PICK k \in Nat : k = p - 1
    BY <1>3
  <2>2. \A j \in 1 .. k : s[j] \in Nat /\ t[j] \in Nat /\ t[j] = s[j]
    <3>1. \A j \in 1 .. k : j \in 1 .. n /\ j \in 1 .. m /\ j \in 1 .. p
      BY <1>3, <2>1
    <3>2. \A j \in 1 .. n : s[j] \in Nat
      BY <1>2, ElementOfSeq DEF Bytes
    <3>3. \A j \in 1 .. m : t[j] \in Nat
      BY <1>2, ElementOfSeq DEF Bytes
    <3> QED BY <1>3, <3>1, <3>2, <3>3, Zenon
  <2>3. /\ SubSeq(s, 1, k) \in Seq(Nat) /\ Len(SubSeq(s, 1, k)) = k
        /\ \A j \in 1 .. k : SubSeq(s, 1, k)[j] = s[j]
    BY <2>2, SubSeqProperties
  <2>4. /\ SubSeq(t, 1, k) \in Seq(Nat) /\ Len(SubSeq(t, 1, k)) = k
        /\ \A j \in 1 .. k : SubSeq(t, 1, k)[j] = t[j]
    BY <2>2, SubSeqProperties
  <2>5. PICK u, v : u = SubSeq(s, 1, k) /\ v = SubSeq(t, 1, k)
    OBVIOUS
  <2>6. /\ u \in Seq(Nat) /\ v \in Seq(Nat) /\ Len(u) = Len(v)
        /\ \A j \in 1 .. Len(u) : u[j] = v[j]
    BY <2>2, <2>3, <2>4, <2>5
  <2>7. u = v
    BY <2>6, SeqEqual
  <2> QED BY <2>1, <2>5, <2>7
<1> QED BY <1>1, <1>4, <1>5 DEF KeyOf

LEMMA KeyOfLine ==
  ASSUME NEW text \in OneLine, HasTab(text)
  PROVE  KeyOf(text) \in Letters /\ ValueOf(text) \in OneLine
<1>1. PICK n \in Nat : n = Len(text) /\ DOMAIN text = 1 .. n /\ text \in [1 .. n -> Nat \ {Newline}]
  BY LenProperties DEF OneLine
<1>2. text \in Bytes
  BY SeqMonotonic DEF OneLine, Bytes
<1>3. PICK p : p = TabOf(text)
  OBVIOUS
<1>4. p \in 1 .. n /\ \A j \in 1 .. p - 1 : text[j] # Tab
  BY <1>1, <1>2, <1>3, TabOfLine
<1>5. SubSeq(text, 1, p - 1) \in Letters
  <2>1. 1 \in Int /\ p - 1 \in Int
    BY <1>4
  <2>2. \A j \in 1 .. p - 1 : text[j] \in Nat \ {Newline, Tab}
    BY <1>1, <1>4
  <2> QED BY <2>1, <2>2, SubSeqProperties DEF Letters
<1>6. SubSeq(text, p + 1, n) \in OneLine
  <2>1. p + 1 \in Int /\ n \in Int
    BY <1>4
  <2>2. \A j \in p + 1 .. n : text[j] \in Nat \ {Newline}
    BY <1>1, <1>4
  <2> QED BY <2>1, <2>2, SubSeqProperties DEF OneLine
<1> QED BY <1>1, <1>3, <1>5, <1>6 DEF KeyOf, ValueOf

\* The line of a key and a value, without its newline, is read as these two.
LEMMA LineIsRead ==
  ASSUME NEW key \in Letters, NEW value \in OneLine
  PROVE  LET text == (key \o <<Tab>>) \o value IN
         /\ text \in OneLine /\ HasTab(text)
         /\ KeyOf(text) = key /\ ValueOf(text) = value
         /\ Line(key, value) = text \o <<Newline>>
<1>1. PICK k \in Nat, v \in Nat : k = Len(key) /\ v = Len(value)
  BY LenProperties DEF Letters, OneLine
<1>2. key \in OneLine /\ <<Tab>> \in OneLine
  BY SeqMonotonic DEF Letters, OneLine
<1>3. PICK text : text = (key \o <<Tab>>) \o value
  OBVIOUS
<1>4. /\ key \o <<Tab>> \in OneLine /\ Len(key \o <<Tab>>) = k + 1
      /\ \A i \in 1 .. k + 1 : (key \o <<Tab>>)[i] = IF i <= k THEN key[i] ELSE Tab
  <2>1. /\ key \o <<Tab>> \in OneLine /\ Len(key \o <<Tab>>) = k + 1
        /\ \A i \in 1 .. k + 1 : (key \o <<Tab>>)[i] = IF i <= k THEN key[i] ELSE <<Tab>>[i - k]
    BY <1>1, <1>2, ConcatProperties DEF OneLine
  <2>2. ASSUME NEW i \in 1 .. k + 1, ~ (i <= k) PROVE <<Tab>>[i - k] = Tab
    <3>1. i - k = 1
      BY <2>2
    <3> QED BY <3>1
  <2> QED BY <2>1, <2>2
<1>5. PICK head \in OneLine : /\ head = key \o <<Tab>> /\ Len(head) = k + 1
                              /\ \A i \in 1 .. k + 1 : head[i] = IF i <= k THEN key[i] ELSE Tab
  BY <1>4, Zenon
<1>6. /\ head \o value \in OneLine /\ Len(head \o value) = k + 1 + v
      /\ \A i \in 1 .. k + 1 + v :
           (head \o value)[i] = IF i <= k + 1 THEN head[i] ELSE value[i - (k + 1)]
  BY <1>1, <1>5, ConcatProperties DEF OneLine
<1>7. /\ text \in OneLine /\ Len(text) = k + 1 + v
      /\ \A i \in 1 .. k + 1 + v : text[i] = IF i <= k + 1 THEN head[i] ELSE value[i - (k + 1)]
  BY <1>3, <1>5, <1>6, Zenon
<1>8. text \in Bytes
  BY <1>7, SeqMonotonic DEF OneLine, Bytes
<1>9. /\ \A i \in 1 .. k : text[i] = key[i] /\ key[i] # Tab
      /\ text[k + 1] = Tab
      /\ \A i \in 1 .. v : text[k + 1 + i] = value[i]
  <2>1. \A i \in 1 .. k : key[i] # Tab
    BY <1>1, ElementOfSeq DEF Letters
  <2>2. ASSUME NEW i \in 1 .. k PROVE text[i] = key[i]
    BY <1>5, <1>7
  <2>3. text[k + 1] = Tab
    BY <1>5, <1>7
  <2>4. ASSUME NEW i \in 1 .. v PROVE text[k + 1 + i] = value[i]
    <3>1. k + 1 + i \in 1 .. k + 1 + v /\ ~ (k + 1 + i <= k + 1) /\ k + 1 + i - (k + 1) = i
      OBVIOUS
    <3> QED BY <1>7, <3>1
  <2> QED BY <2>1, <2>2, <2>3, <2>4
<1>10. HasTab(text) /\ TabOf(text) = k + 1
  <2>1. k + 1 \in 1 .. Len(text) /\ \A j \in 1 .. (k + 1) - 1 : text[j] # Tab
    BY <1>7, <1>9
  <2> QED BY <1>8, <1>9, <2>1, FirstTab
<1>11. KeyOf(text) = key
  <2>1. /\ SubSeq(text, 1, k) \in Seq(Nat) /\ Len(SubSeq(text, 1, k)) = k
        /\ \A i \in 1 .. k : SubSeq(text, 1, k)[i] = text[i]
    <3>1. \A i \in 1 .. k : text[i] \in Nat
      BY <1>7, <1>8, ElementOfSeq DEF Bytes
    <3> QED BY <3>1, SubSeqProperties
  <2>2. key \in Seq(Nat)
    BY SeqMonotonic DEF Letters
  <2>3. SubSeq(text, 1, k) = key
    BY <1>1, <1>9, <2>1, <2>2, SeqEqual
  <2> QED BY <1>10, <2>3 DEF KeyOf
<1>12. ValueOf(text) = value
  <2>1. PICK m \in Nat : m = k + 1 + v
    OBVIOUS
  <2>2. /\ SubSeq(text, k + 2, m) \in Seq(Nat) /\ Len(SubSeq(text, k + 2, m)) = v
        /\ \A i \in 1 .. v : SubSeq(text, k + 2, m)[i] = text[k + 1 + i]
    <3>1. \A i \in k + 2 .. m : text[i] \in Nat
      BY <1>7, <1>8, <2>1, ElementOfSeq DEF Bytes
    <3>2. /\ SubSeq(text, k + 2, m) \in Seq(Nat)
          /\ Len(SubSeq(text, k + 2, m)) = IF k + 2 <= m THEN m - (k + 2) + 1 ELSE 0
          /\ \A i \in 1 .. m - (k + 2) + 1 : SubSeq(text, k + 2, m)[i] = text[(k + 2) + i - 1]
      BY <3>1, SubSeqProperties
    <3>3. (IF k + 2 <= m THEN m - (k + 2) + 1 ELSE 0) = v /\ m - (k + 2) + 1 = v
      BY <2>1
    <3>4. \A i \in 1 .. v : (k + 2) + i - 1 = k + 1 + i
      OBVIOUS
    <3> QED BY <3>2, <3>3, <3>4
  <2>3. value \in Seq(Nat)
    BY SeqMonotonic DEF OneLine
  <2>4. SubSeq(text, k + 2, m) = value
    <3>1. PICK s \in Seq(Nat) : /\ s = SubSeq(text, k + 2, m) /\ Len(s) = v
                                /\ \A i \in 1 .. v : s[i] = text[k + 1 + i]
      BY <2>2, Zenon
    <3>2. Len(s) = Len(value) /\ \A i \in 1 .. Len(s) : s[i] = value[i]
      BY <1>1, <1>9, <3>1
    <3>3. s = value
      BY <2>3, <3>2, SeqEqual
    <3> QED BY <3>1, <3>3
  <2>5. (k + 1) + 1 = k + 2 /\ Len(text) = m
    BY <1>7, <2>1
  <2> QED BY <1>10, <2>4, <2>5 DEF ValueOf
<1>13. Line(key, value) = text \o <<Newline>>
  BY <1>3 DEF Line
<1> QED BY <1>3, <1>7, <1>10, <1>11, <1>12, <1>13, Zenon

-----------------------------------------------------------------------------
(* Carriage returns. *)

LEMMA ReadsItself ==
  ASSUME NEW value \in OneLine
  PROVE  ButForReturns(value, value)
<1>1. PICK n \in Nat : n = Len(value)
  BY LenProperties DEF OneLine
<1> QED BY <1>1 DEF ButForReturns

LEMMA ReadsOn ==
  ASSUME NEW a \in OneLine, NEW b \in OneLine, NEW c \in OneLine,
         ButForReturns(a, b), ButForReturns(b, c)
  PROVE  ButForReturns(a, c)
<1>1. PICK k \in Nat, m \in Nat, n \in Nat : k = Len(a) /\ m = Len(b) /\ n = Len(c)
  BY LenProperties DEF OneLine
<1>2. k <= m /\ \A i \in 1 .. m : b[i] = IF i <= k THEN a[i] ELSE Return
  BY <1>1 DEF ButForReturns
<1>3. m <= n /\ \A i \in 1 .. n : c[i] = IF i <= m THEN b[i] ELSE Return
  BY <1>1 DEF ButForReturns
<1>4. ASSUME NEW i \in 1 .. n PROVE c[i] = IF i <= k THEN a[i] ELSE Return
  <2>1. CASE i <= m
    <3>1. i \in 1 .. m
      BY <2>1
    <3> QED BY <1>2, <1>3, <2>1, <3>1
  <2>2. CASE ~ (i <= m)
    <3>1. ~ (i <= k)
      BY <1>2, <2>2
    <3> QED BY <1>3, <2>2, <3>1
  <2> QED BY <2>1, <2>2
<1> QED BY <1>1, <1>2, <1>3, <1>4 DEF ButForReturns

\* A value that does not end in a return is read as it is.
LEMMA NothingMissing ==
  ASSUME NEW read \in OneLine, NEW value \in OneLine, ButForReturns(read, value),
         value = <<>> \/ Last(value) # Return
  PROVE  read = value
<1>1. PICK m \in Nat, n \in Nat : m = Len(read) /\ n = Len(value)
  BY LenProperties DEF OneLine
<1>2. m <= n /\ \A i \in 1 .. n : value[i] = IF i <= m THEN read[i] ELSE Return
  BY <1>1 DEF ButForReturns
<1>3. m = n
  <2>1. value = <<>> => n = 0
    BY <1>1
  <2>2. m < n => value # <<>> /\ value[n] = Return
    BY <1>2, <2>1
  <2>3. value # <<>> => value[n] # Return
    BY <1>1 DEF Last
  <2> QED BY <1>2, <2>2, <2>3
<1>4. \A i \in 1 .. m : read[i] = value[i]
  BY <1>2, <1>3
<1> QED BY <1>1, <1>3, <1>4, SeqEqual DEF OneLine

LEMMA Dropped ==
  ASSUME NEW line \in OneLine
  PROVE  /\ dropCR(line) \in OneLine
         /\ \/ dropCR(line) = line
            \/ /\ Len(line) \in Nat \ {0} /\ line[Len(line)] = Return
               /\ Len(dropCR(line)) = Len(line) - 1
               /\ \A i \in 1 .. Len(line) - 1 : dropCR(line)[i] = line[i]
<1>1. PICK n \in Nat : n = Len(line)
  BY LenProperties DEF OneLine
<1>2. CASE ~ (line # <<>> /\ Last(line) = Return)
  BY <1>2 DEF dropCR
<1>3. CASE line # <<>> /\ Last(line) = Return
  <2>1. n # 0
    BY <1>1, <1>3, EmptySeq DEF OneLine
  <2>2. PICK k \in Nat : k = n - 1
    BY <2>1
  <2>3. line[n] = Return
    BY <1>1, <1>3 DEF Last
  <2>4. dropCR(line) = SubSeq(line, 1, k)
    BY <1>1, <1>3, <2>2 DEF dropCR, Front
  <2>5. \A i \in 1 .. k : line[i] \in Nat \ {Newline}
    <3>1. \A i \in 1 .. n : line[i] \in Nat \ {Newline}
      BY <1>1, ElementOfSeq DEF OneLine
    <3> QED BY <2>2, <3>1
  <2>6. /\ SubSeq(line, 1, k) \in OneLine /\ Len(SubSeq(line, 1, k)) = k
        /\ \A i \in 1 .. k : SubSeq(line, 1, k)[i] = line[i]
    BY <2>5, SubSeqProperties DEF OneLine
  <2> QED BY <1>1, <2>1, <2>2, <2>3, <2>4, <2>6
<1> QED BY <1>2, <1>3

\* The scanner takes nothing of the key, nor any other end of the value than a return.
LEMMA DroppedIsRead ==
  ASSUME NEW line \in OneLine
  PROVE  /\ HasTab(dropCR(line)) <=> HasTab(line)
         /\ HasTab(line) => /\ KeyOf(dropCR(line)) = KeyOf(line)
                            /\ ButForReturns(ValueOf(dropCR(line)), ValueOf(line))
<1>1. PICK t \in OneLine : t = dropCR(line)
  BY Dropped
<1>2. CASE t = line
  BY <1>1, <1>2, KeyOfLine, ReadsItself
<1>3. CASE t # line
  <2>1. PICK n \in Nat \ {0} : n = Len(line) /\ line[n] = Return
    BY <1>1, <1>3, Dropped
  <2>2. Len(t) = n - 1 /\ \A i \in 1 .. n - 1 : t[i] = line[i]
    BY <1>1, <1>3, <2>1, Dropped
  <2>3. line \in Bytes /\ t \in Bytes
    BY SeqMonotonic DEF OneLine, Bytes
  <2>4. ASSUME HasTab(t) PROVE HasTab(line)
    <3>1. TabOf(t) \in 1 .. n - 1
      BY <2>2, <2>3, <2>4, TabOfLine
    <3>2. TabOf(t) <= Len(line) /\ \A j \in 1 .. TabOf(t) : line[j] = t[j]
      BY <2>1, <2>2, <3>1
    <3> QED BY <2>3, <2>4, <3>2, SameKey
  <2>5. ASSUME HasTab(line)
        PROVE  /\ HasTab(t) /\ KeyOf(t) = KeyOf(line)
               /\ ButForReturns(ValueOf(t), ValueOf(line))
    <3>1. PICK p : p = TabOf(line) /\ p \in 1 .. n /\ line[p] = Tab
      BY <2>1, <2>3, <2>5, TabOfLine
    <3>2. p \in 1 .. n - 1
      BY <2>1, <3>1
    <3>3. TabOf(line) <= Len(t) /\ \A j \in 1 .. TabOf(line) : t[j] = line[j]
      BY <2>2, <3>1, <3>2
    <3>4. HasTab(t) /\ TabOf(t) = p /\ KeyOf(t) = KeyOf(line)
      BY <2>3, <2>5, <3>1, <3>3, SameKey
    <3>5. PICK k \in Nat : k = n - 1
      BY <2>1
    <3>6. /\ Len(SubSeq(t, p + 1, k)) = k - p
          /\ \A i \in 1 .. k - p : SubSeq(t, p + 1, k)[i] = line[p + i]
      <4>1. \A i \in p + 1 .. k : t[i] \in Nat
        <5>1. \A i \in 1 .. k : t[i] \in Nat
          BY <2>2, <2>3, <3>5, ElementOfSeq DEF Bytes
        <5> QED BY <3>2, <5>1
      <4>2. /\ Len(SubSeq(t, p + 1, k)) = IF p + 1 <= k THEN k - (p + 1) + 1 ELSE 0
            /\ \A i \in 1 .. k - (p + 1) + 1 : SubSeq(t, p + 1, k)[i] = t[(p + 1) + i - 1]
        <5>1. p + 1 \in Int /\ k \in Int
          BY <3>2
        <5> QED BY <4>1, <5>1, SubSeqProperties
      <4>3. /\ k - (p + 1) + 1 = k - p /\ (IF p + 1 <= k THEN k - (p + 1) + 1 ELSE 0) = k - p
            /\ \A i \in 1 .. k - p : (p + 1) + i - 1 = p + i /\ p + i \in 1 .. n - 1
        BY <3>2, <3>5
      <4> QED BY <2>2, <4>2, <4>3
    <3>7. /\ Len(SubSeq(line, p + 1, n)) = n - p
          /\ \A i \in 1 .. n - p : SubSeq(line, p + 1, n)[i] = line[p + i]
      <4>1. \A i \in p + 1 .. n : line[i] \in Nat
        <5>1. \A i \in 1 .. n : line[i] \in Nat
          BY <2>1, <2>3, ElementOfSeq DEF Bytes
        <5> QED BY <3>2, <5>1
      <4>2. /\ Len(SubSeq(line, p + 1, n)) = IF p + 1 <= n THEN n - (p + 1) + 1 ELSE 0
            /\ \A i \in 1 .. n - (p + 1) + 1 : SubSeq(line, p + 1, n)[i] = line[(p + 1) + i - 1]
        <5>1. p + 1 \in Int /\ n \in Int
          BY <3>2
        <5> QED BY <4>1, <5>1, SubSeqProperties
      <4>3. /\ n - (p + 1) + 1 = n - p /\ (IF p + 1 <= n THEN n - (p + 1) + 1 ELSE 0) = n - p
            /\ \A i \in 1 .. n - p : (p + 1) + i - 1 = p + i
        BY <3>2
      <4> QED BY <4>2, <4>3
    <3>8. PICK r, v : r = ValueOf(t) /\ v = ValueOf(line)
      OBVIOUS
    <3>9. r = SubSeq(t, p + 1, k) /\ v = SubSeq(line, p + 1, n)
      BY <2>1, <2>2, <3>1, <3>4, <3>5, <3>8 DEF ValueOf
    <3>10. /\ Len(r) = k - p /\ \A i \in 1 .. k - p : r[i] = line[p + i]
           /\ Len(v) = n - p /\ \A i \in 1 .. n - p : v[i] = line[p + i]
      BY <3>6, <3>7, <3>9
    <3>11. ASSUME NEW i \in 1 .. n - p PROVE v[i] = IF i <= k - p THEN r[i] ELSE Return
      <4>1. CASE i <= k - p
        <5>1. i \in 1 .. k - p
          BY <3>2, <3>5, <4>1
        <5> QED BY <3>10, <4>1, <5>1
      <4>2. CASE ~ (i <= k - p)
        <5>1. p + i = n
          BY <3>2, <3>5, <4>2
        <5> QED BY <2>1, <3>10, <4>2, <5>1
      <4> QED BY <4>1, <4>2
    <3>12. k - p <= n - p
      BY <3>2, <3>5
    <3>13. ButForReturns(r, v)
      BY <3>10, <3>11, <3>12 DEF ButForReturns
    <3> QED BY <3>4, <3>8, <3>13
  <2> QED BY <1>1, <2>4, <2>5
<1> QED BY <1>2, <1>3

\* What the scanner gives of a line.
LEMMA TextOfLine ==
  ASSUME NEW b \in Bytes, NEW i \in DOMAIN b
  PROVE  /\ Text(b, i) \in OneLine
         /\ HasTab(Text(b, i)) <=> HasTab(RawLine(b, i))
         /\ HasTab(RawLine(b, i)) => /\ KeyOf(Text(b, i)) = KeyOf(RawLine(b, i))
                                     /\ ButForReturns(ValueOf(Text(b, i)), ValueOf(RawLine(b, i)))
<1>1. RawLine(b, i) \in OneLine
  BY RawOfLine
<1> QED BY <1>1, Dropped, DroppedIsRead DEF Text

-----------------------------------------------------------------------------
(* A line that is added, whole or to a torn one. *)

\* The lines of b are lines of every file that begins with b, and those that end
\* in b say the same there.
LEMMA LinesStay ==
  ASSUME NEW b \in Bytes, NEW d \in Bytes, NEW i \in DOMAIN b
  PROVE  /\ i \in DOMAIN (b \o d)
         /\ i \in Lines(b \o d) <=> i \in Lines(b)
         /\ NewlineOf(b, i) <= Len(b) => Text(b \o d, i) = Text(b, i)
<1>1. PICK n \in Nat, m \in Nat : n = Len(b) /\ m = Len(d) /\ DOMAIN b = 1 .. n
  BY LenProperties DEF Bytes
<1>2. PICK c \in Bytes : /\ c = b \o d /\ Len(c) = n + m
                         /\ \A j \in 1 .. n : c[j] = b[j]
  <2>1. /\ b \o d \in Bytes /\ Len(b \o d) = n + m
        /\ \A j \in 1 .. n + m : (b \o d)[j] = IF j <= n THEN b[j] ELSE d[j - n]
    BY <1>1, ConcatProperties DEF Bytes
  <2>2. \A j \in 1 .. n : (b \o d)[j] = b[j]
    BY <2>1
  <2> QED BY <2>1, <2>2, Zenon
<1>3. DOMAIN c = 1 .. n + m
  BY <1>2, LenProperties DEF Bytes
<1>4. i \in 1 .. n /\ i \in DOMAIN c
  BY <1>1, <1>3
<1>5. i \in Lines(c) <=> i \in Lines(b)
  <2>1. i # 1 => c[i - 1] = b[i - 1]
    BY <1>2, <1>4
  <2> QED BY <1>1, <1>4, <2>1 DEF Lines
<1>6. ASSUME NewlineOf(b, i) <= n PROVE Text(c, i) = Text(b, i)
  <2>1. PICK e : e = NewlineOf(b, i)
    OBVIOUS
  <2>2. e \in i .. n /\ b[e] = Newline /\ \A j \in i .. e - 1 : b[j] # Newline
    <3>1. /\ e \in i .. n + 1 /\ \A j \in i .. e - 1 : b[j] # Newline
          /\ e = n + 1 \/ b[e] = Newline
      BY <1>1, <2>1, EndOfLine
    <3> QED BY <1>4, <1>6, <2>1, <3>1
  <2>3. e \in i .. Len(c) + 1 /\ c[e] = Newline /\ \A j \in i .. e - 1 : c[j] # Newline
    BY <1>2, <1>4, <2>2
  <2>4. NewlineOf(c, i) = e
    BY <1>4, <2>3, EndOfLineIs
  <2>5. /\ RawLine(c, i) \in OneLine /\ Len(RawLine(c, i)) = e - i
        /\ \A j \in 1 .. e - i : RawLine(c, i)[j] = c[i + j - 1]
    BY <1>4, <2>4, RawOfLine
  <2>6. /\ RawLine(b, i) \in OneLine /\ Len(RawLine(b, i)) = e - i
        /\ \A j \in 1 .. e - i : RawLine(b, i)[j] = b[i + j - 1]
    BY <2>1, RawOfLine
  <2>7. PICK s, t : s = RawLine(c, i) /\ t = RawLine(b, i)
    OBVIOUS
  <2>8. s \in OneLine /\ t \in OneLine /\ Len(s) = Len(t)
    BY <2>5, <2>6, <2>7, Zenon
  <2>9. ASSUME NEW j \in 1 .. Len(s) PROVE s[j] = t[j]
    <3>1. j \in 1 .. e - i
      BY <2>5, <2>7
    <3>2. i + j - 1 \in 1 .. n
      BY <1>4, <2>2, <3>1
    <3>3. s[j] = c[i + j - 1] /\ t[j] = b[i + j - 1]
      BY <2>5, <2>6, <2>7, <3>1, Zenon
    <3> QED BY <1>2, <3>2, <3>3
  <2>10. s = t
    BY <2>8, <2>9, SeqEqual DEF OneLine
  <2> QED BY <2>7, <2>10 DEF Text
<1> QED BY <1>1, <1>2, <1>4, <1>5, <1>6

\* A line that ends in its file is followed by another, or is the last in a file
\* that is not torn.
LEMMA LineEnds ==
  ASSUME NEW b \in Bytes, NEW i \in Lines(b)
  PROVE  /\ ~Torn(b) => NewlineOf(b, i) <= Len(b)
         /\ (\E j \in Lines(b) : i < j) => NewlineOf(b, i) <= Len(b)
         /\ Torn(b) /\ NewlineOf(b, i) <= Len(b) => \E j \in Lines(b) : i < j
<1>1. PICK n \in Nat : n = Len(b) /\ DOMAIN b = 1 .. n
  BY LenProperties DEF Bytes
<1>2. i \in 1 .. n
  BY <1>1 DEF Lines
<1>3. PICK e : e = NewlineOf(b, i)
  OBVIOUS
<1>4. /\ e \in i .. n + 1 /\ \A j \in i .. e - 1 : b[j] # Newline
      /\ e = n + 1 \/ b[e] = Newline
  BY <1>1, <1>2, <1>3, EndOfLine
<1>5. b # <<>>
  BY <1>1, <1>2
<1>6. ASSUME ~Torn(b) PROVE e <= n
  <2>1. b[n] = Newline
    BY <1>1, <1>5, <1>6 DEF Torn, Last
  <2>2. e = n + 1 => n \in i .. e - 1
    BY <1>2
  <2> QED BY <1>4, <2>1, <2>2
<1>7. ASSUME NEW j \in Lines(b), i < j PROVE e <= n
  <2>1. j \in 1 .. n /\ j # 1 /\ b[j - 1] = Newline
    BY <1>1, <1>2, <1>7 DEF Lines
  <2>2. e = n + 1 => j - 1 \in i .. e - 1
    BY <1>2, <1>7, <2>1
  <2> QED BY <1>4, <2>1, <2>2
<1>8. ASSUME Torn(b), e <= n PROVE \E j \in Lines(b) : i < j
  <2>1. b[n] # Newline
    BY <1>1, <1>8 DEF Torn, Last
  <2>2. b[e] = Newline /\ e # n /\ e >= i
    BY <1>2, <1>4, <1>8, <2>1
  <2>3. e + 1 \in 1 .. n /\ (e + 1) - 1 = e /\ i < e + 1
    BY <1>2, <1>4, <1>8, <2>2
  <2>4. e + 1 \in Lines(b)
    BY <1>1, <2>2, <2>3 DEF Lines
  <2> QED BY <2>3, <2>4
<1> QED BY <1>1, <1>3, <1>6, <1>7, <1>8

\* Which line Get reads.
LEMMA GetFinds ==
  ASSUME NEW b \in Bytes, NEW key
  PROVE  /\ (\A i \in Records(b) : KeyAt(b, i) # key) => Get(b, key) = <<>>
         /\ (\E i \in Records(b) : KeyAt(b, i) = key) =>
              \E m \in Records(b) :
                /\ KeyAt(b, m) = key /\ Get(b, key) = ValueOf(Text(b, m))
                /\ \A i \in Records(b) : KeyAt(b, i) = key => i <= m
<1> DEFINE T == {i \in Records(b) : KeyAt(b, i) = key}
<1>1. Get(b, key) = IF T = {} THEN <<>> ELSE ValueOf(Text(b, Max(T)))
  BY DEF Get
<1>2. PICK n \in Nat : n = Len(b) /\ DOMAIN b = 1 .. n
  BY LenProperties DEF Bytes
<1>3. T \in SUBSET (0 .. n)
  BY <1>2 DEF Records, Lines
<1>4. T # {} => Max(T) \in T /\ \A m \in T : m <= Max(T)
  <2> HIDE DEF T
  <2> QED BY <1>3, GreatestNumber
<1> QED BY <1>1, <1>4

LEMMA GetIs ==
  ASSUME NEW b \in Bytes, NEW m \in Records(b),
         \A i \in Records(b) : KeyAt(b, i) = KeyAt(b, m) => i <= m
  PROVE  Get(b, KeyAt(b, m)) = ValueOf(Text(b, m))
<1>1. PICK p \in Records(b) :
        /\ KeyAt(b, p) = KeyAt(b, m) /\ Get(b, KeyAt(b, m)) = ValueOf(Text(b, p))
        /\ \A i \in Records(b) : KeyAt(b, i) = KeyAt(b, m) => i <= p
  BY GetFinds
<1>2. p <= m /\ m <= p
  BY <1>1
<1>3. p \in Nat /\ m \in Nat
  BY LenProperties DEF Bytes, Records, Lines
<1> QED BY <1>1, <1>2, <1>3

LEMMA GetIsAValue ==
  ASSUME NEW b \in Bytes, NEW key
  PROVE  Get(b, key) \in OneLine
<1>1. CASE \A i \in Records(b) : KeyAt(b, i) # key
  <2>1. Get(b, key) = <<>>
    BY <1>1, GetFinds
  <2>2. <<>> \in OneLine
    BY EmptySeq DEF OneLine
  <2> QED BY <2>1, <2>2, Zenon
<1>2. CASE \E i \in Records(b) : KeyAt(b, i) = key
  <2>1. PICK m \in Records(b) : Get(b, key) = ValueOf(Text(b, m))
    BY <1>2, GetFinds
  <2>2. HasTab(Text(b, m)) /\ Text(b, m) \in OneLine
    BY TextOfLine DEF Records, Lines
  <2> QED BY <2>1, <2>2, KeyOfLine
<1> QED BY <1>1, <1>2

LEMMA KeyIsLetters ==
  ASSUME NEW b \in Bytes, NEW i \in Records(b)
  PROVE  KeyAt(b, i) \in Letters
BY TextOfLine, KeyOfLine DEF Records, Lines, KeyAt

\* A line is added to a file that is not torn.
LEMMA LineAdded ==
  ASSUME NEW b \in Bytes, ~Torn(b), NEW key \in Letters, NEW value \in OneLine
  PROVE  /\ b \o Line(key, value) \in Bytes /\ ~Torn(b \o Line(key, value))
         /\ ButForReturns(Get(b \o Line(key, value), key), value)
         /\ \A other : other # key => Get(b \o Line(key, value), other) = Get(b, other)
<1>1. PICK text : /\ text = (key \o <<Tab>>) \o value
                  /\ text \in OneLine /\ HasTab(text)
                  /\ KeyOf(text) = key /\ ValueOf(text) = value
                  /\ Line(key, value) = text \o <<Newline>>
  BY LineIsRead
<1>2. PICK n \in Nat, l \in Nat : n = Len(b) /\ l = Len(text) /\ DOMAIN b = 1 .. n
  BY <1>1, LenProperties DEF Bytes, OneLine
<1>3. PICK line \in Bytes : /\ line = Line(key, value) /\ Len(line) = l + 1
                            /\ \A j \in 1 .. l : line[j] = text[j]
                            /\ line[l + 1] = Newline
  <2>1. text \in Bytes /\ <<Newline>> \in Bytes
    BY <1>1, SeqMonotonic DEF Bytes, OneLine
  <2>2. /\ text \o <<Newline>> \in Bytes /\ Len(text \o <<Newline>>) = l + 1
        /\ \A j \in 1 .. l + 1 :
             (text \o <<Newline>>)[j] = IF j <= l THEN text[j] ELSE <<Newline>>[j - l]
    BY <1>2, <2>1, ConcatProperties DEF Bytes
  <2>3. \A j \in 1 .. l : (text \o <<Newline>>)[j] = text[j]
    BY <2>2
  <2>4. (text \o <<Newline>>)[l + 1] = Newline
    <3>1. (text \o <<Newline>>)[l + 1] = <<Newline>>[(l + 1) - l]
      BY <2>2
    <3>2. (l + 1) - l = 1
      OBVIOUS
    <3>3. <<Newline>>[1] = Newline
      OBVIOUS
    <3> QED BY <3>1, <3>2, <3>3, Zenon
  <2> QED BY <1>1, <2>2, <2>3, <2>4, Zenon
<1>4. PICK c \in Bytes : /\ c = b \o Line(key, value) /\ Len(c) = n + l + 1
                         /\ \A j \in 1 .. l : c[n + j] = text[j]
                         /\ c[n + l + 1] = Newline
                         /\ n > 0 => c[n] = b[n]
  <2>1. /\ b \o line \in Bytes /\ Len(b \o line) = n + l + 1
        /\ \A j \in 1 .. n + l + 1 : (b \o line)[j] = IF j <= n THEN b[j] ELSE line[j - n]
    <3>1. /\ b \o line \in Bytes /\ Len(b \o line) = Len(b) + Len(line)
          /\ \A j \in 1 .. Len(b) + Len(line) :
               (b \o line)[j] = IF j <= Len(b) THEN b[j] ELSE line[j - Len(b)]
      BY ConcatProperties DEF Bytes
    <3>2. Len(b) = n /\ Len(b) + Len(line) = n + l + 1
      BY <1>2, <1>3
    <3> QED BY <3>1, <3>2
  <2>2. ASSUME NEW j \in 1 .. l PROVE (b \o line)[n + j] = text[j]
    <3>1. n + j \in 1 .. n + l + 1 /\ ~ (n + j <= n) /\ n + j - n = j
      OBVIOUS
    <3>2. (b \o line)[n + j] = line[j]
      BY <2>1, <3>1
    <3> QED BY <1>3, <3>2
  <2>3. (b \o line)[n + l + 1] = Newline
    <3>1. n + l + 1 \in 1 .. n + l + 1 /\ ~ (n + l + 1 <= n) /\ n + l + 1 - n = l + 1
      OBVIOUS
    <3>2. (b \o line)[n + l + 1] = line[l + 1]
      BY <2>1, <3>1
    <3> QED BY <1>3, <3>2
  <2>4. n > 0 => (b \o line)[n] = b[n]
    BY <2>1
  <2> QED BY <1>3, <2>1, <2>2, <2>3, <2>4, Zenon
<1>5. DOMAIN c = 1 .. n + l + 1
  BY <1>4, LenProperties DEF Bytes
<1>6. ~Torn(c)
  BY <1>4 DEF Torn, Last
<1>7. n + 1 \in DOMAIN c /\ n + 1 \in Lines(c)
  <2>1. n + 1 \in DOMAIN c
    BY <1>5
  <2>2. n # 0 => c[(n + 1) - 1] = Newline
    <3>1. n # 0 => b # <<>> /\ b[n] = Newline /\ (n + 1) - 1 = n
      BY <1>2 DEF Torn, Last
    <3> QED BY <1>4, <3>1
  <2> QED BY <2>1, <2>2 DEF Lines
<1>8. RawLine(c, n + 1) = text
  <2>1. n + l + 1 \in n + 1 .. Len(c) + 1 /\ c[n + l + 1] = Newline
    BY <1>4
  <2>2. ASSUME NEW j \in n + 1 .. (n + l + 1) - 1 PROVE c[j] # Newline
    <3>1. j - n \in 1 .. l /\ n + (j - n) = j
      OBVIOUS
    <3>2. text[j - n] # Newline
      BY <1>1, <1>2, <3>1, ElementOfSeq DEF OneLine
    <3> QED BY <1>4, <3>1, <3>2
  <2>3. NewlineOf(c, n + 1) = n + l + 1
    BY <1>7, <2>1, <2>2, EndOfLineIs
  <2>4. PICK s \in OneLine : /\ s = RawLine(c, n + 1) /\ Len(s) = l
                             /\ \A j \in 1 .. l : s[j] = c[n + j]
    <3>1. (n + l + 1) - (n + 1) = l /\ \A j \in 1 .. l : (n + 1) + j - 1 = n + j
      OBVIOUS
    <3>2. /\ RawLine(c, n + 1) \in OneLine
          /\ Len(RawLine(c, n + 1)) = (n + l + 1) - (n + 1)
          /\ \A j \in 1 .. (n + l + 1) - (n + 1) : RawLine(c, n + 1)[j] = c[(n + 1) + j - 1]
      BY <1>7, <2>3, RawOfLine
    <3>3. /\ Len(RawLine(c, n + 1)) = l
          /\ \A j \in 1 .. l : RawLine(c, n + 1)[j] = c[n + j]
      BY <3>1, <3>2
    <3> QED BY <3>2, <3>3, Zenon
  <2>5. s = text
    <3>1. Len(s) = Len(text) /\ \A j \in 1 .. Len(s) : s[j] = text[j]
      BY <1>2, <1>4, <2>4
    <3> QED BY <1>1, <3>1, SeqEqual DEF OneLine
  <2> QED BY <2>4, <2>5
<1>9. ASSUME NEW i \in Lines(b)
      PROVE  i \in Lines(c) /\ Text(c, i) = Text(b, i) /\ i <= n
  <2>1. i \in DOMAIN b
    BY DEF Lines
  <2>2. NewlineOf(b, i) <= Len(b)
    BY LineEnds
  <2> QED BY <1>2, <1>3, <1>4, <2>1, <2>2, LinesStay
<1>10. ASSUME NEW i \in Lines(c), i # n + 1
       PROVE  i \in Lines(b)
  <2>1. i \in 1 .. n + l + 1
    BY <1>5 DEF Lines
  <2>2. CASE i <= n
    <3>1. i \in DOMAIN b
      BY <1>2, <2>1, <2>2
    <3> QED BY <1>3, <1>4, <3>1, LinesStay
  <2>3. CASE i > n + 1
    <3>1. i - 1 - n \in 1 .. l /\ n + (i - 1 - n) = i - 1 /\ i # 1
      BY <2>1, <2>3
    <3>2. text[i - 1 - n] # Newline
      <4>1. \A j \in 1 .. l : text[j] # Newline
        BY <1>1, <1>2, ElementOfSeq DEF OneLine
      <4> QED BY <3>1, <4>1, Zenon
    <3>3. c[i - 1] = text[i - 1 - n]
      BY <1>4, <3>1
    <3> QED BY <3>1, <3>2, <3>3 DEF Lines
  <2> QED BY <1>10, <2>1, <2>2, <2>3
<1>11. /\ n + 1 \in Records(c) /\ KeyAt(c, n + 1) = key
       /\ ButForReturns(ValueOf(Text(c, n + 1)), value)
  <2>1. /\ HasTab(Text(c, n + 1)) /\ KeyOf(Text(c, n + 1)) = key
        /\ ButForReturns(ValueOf(Text(c, n + 1)), value)
    BY <1>1, <1>7, <1>8, TextOfLine
  <2> QED BY <1>7, <2>1 DEF Records, KeyAt
<1>12. ASSUME NEW i
       PROVE  i \in Records(c) /\ i # n + 1 <=> i \in Records(b)
  <2>1. i \in Records(b) => i \in Records(c) /\ i # n + 1
    BY <1>9 DEF Records, Lines
  <2>2. i \in Records(c) /\ i # n + 1 => i \in Records(b)
    BY <1>9, <1>10 DEF Records
  <2> QED BY <2>1, <2>2
<1>13. ASSUME NEW i \in Records(b)
       PROVE  Text(c, i) = Text(b, i) /\ KeyAt(c, i) = KeyAt(b, i) /\ i <= n /\ i \in Nat
  BY <1>2, <1>9 DEF Records, KeyAt, Lines
<1>14. ButForReturns(Get(c, key), value)
  <2>1. ASSUME NEW i \in Records(c) PROVE i <= n + 1
    BY <1>12, <1>13
  <2>2. Get(c, KeyAt(c, n + 1)) = ValueOf(Text(c, n + 1))
    BY <1>11, <2>1, GetIs
  <2> QED BY <1>11, <2>2
<1>15. ASSUME NEW other, other # key PROVE Get(c, other) = Get(b, other)
  <2>1. {i \in Records(c) : KeyAt(c, i) = other} = {i \in Records(b) : KeyAt(b, i) = other}
    BY <1>11, <1>12, <1>13, <1>15
  <2>2. CASE \A i \in Records(b) : KeyAt(b, i) # other
    <3>1. Get(b, other) = <<>>
      BY <2>2, GetFinds
    <3>2. \A i \in Records(c) : KeyAt(c, i) # other
      BY <2>1, <2>2
    <3> QED BY <3>1, <3>2, GetFinds
  <2>3. CASE \E i \in Records(b) : KeyAt(b, i) = other
    <3>1. PICK m \in Records(b) :
            /\ KeyAt(b, m) = other /\ Get(b, other) = ValueOf(Text(b, m))
            /\ \A i \in Records(b) : KeyAt(b, i) = other => i <= m
      BY <2>3, GetFinds
    <3>2. m \in Records(c) /\ KeyAt(c, m) = other /\ Text(c, m) = Text(b, m)
      BY <1>12, <1>13, <3>1
    <3>3. \A i \in Records(c) : KeyAt(c, i) = KeyAt(c, m) => i <= m
      BY <2>1, <3>1, <3>2
    <3>4. Get(c, KeyAt(c, m)) = ValueOf(Text(c, m))
      BY <3>2, <3>3, GetIs
    <3> QED BY <3>1, <3>2, <3>4
  <2> QED BY <2>2, <2>3
<1> QED BY <1>4, <1>6, <1>14, <1>15

\* What is added to a file never changes the key of a line, not even of a torn one.
LEMMA KeyStays ==
  ASSUME NEW b \in Bytes, NEW d \in Bytes, NEW i \in Records(b)
  PROVE  i \in Records(b \o d) /\ KeyAt(b \o d, i) = KeyAt(b, i)
<1>1. PICK n \in Nat, m \in Nat : n = Len(b) /\ m = Len(d) /\ DOMAIN b = 1 .. n
  BY LenProperties DEF Bytes
<1>2. PICK c \in Bytes : /\ c = b \o d /\ Len(c) = n + m /\ DOMAIN c = 1 .. n + m
                         /\ \A j \in 1 .. n : c[j] = b[j]
  <2>1. /\ b \o d \in Bytes /\ Len(b \o d) = n + m
        /\ \A j \in 1 .. n + m : (b \o d)[j] = IF j <= n THEN b[j] ELSE d[j - n]
    BY <1>1, ConcatProperties DEF Bytes
  <2>2. \A j \in 1 .. n : (b \o d)[j] = b[j]
    BY <2>1
  <2>3. DOMAIN (b \o d) = 1 .. n + m
    BY <2>1, LenProperties DEF Bytes
  <2> QED BY <2>1, <2>2, <2>3, Zenon
<1>3. i \in DOMAIN b /\ i \in Lines(b) /\ HasTab(Text(b, i))
  BY DEF Records, Lines
<1>4. i \in DOMAIN c /\ i \in Lines(c)
  BY <1>2, <1>3, LinesStay
<1>5. PICK e, f : e = NewlineOf(b, i) /\ f = NewlineOf(c, i)
  OBVIOUS
<1>6. e \in i .. n + 1 /\ \A j \in i .. e - 1 : b[j] # Newline
  BY <1>1, <1>3, <1>5, EndOfLine
<1>7. /\ f \in i .. n + m + 1 /\ \A j \in i .. f - 1 : c[j] # Newline
      /\ f = n + m + 1 \/ c[f] = Newline
  BY <1>2, <1>4, <1>5, EndOfLine
<1>8. i \in 1 .. n
  BY <1>1, <1>3
<1>9. e <= f
  <2>1. ASSUME f < e PROVE FALSE
    <3>1. f \in i .. e - 1 /\ f \in 1 .. n
      BY <1>6, <1>7, <1>8, <2>1
    <3>2. c[f] = b[f] /\ b[f] # Newline /\ f # n + m + 1
      BY <1>2, <1>6, <3>1
    <3> QED BY <1>7, <3>2
  <2> QED BY <1>6, <1>7, <1>8, <2>1
<1>10. PICK s \in OneLine : /\ s = RawLine(b, i) /\ Len(s) = e - i
                            /\ \A j \in 1 .. e - i : s[j] = b[i + j - 1]
  BY <1>3, <1>5, RawOfLine
<1>11. PICK t \in OneLine : /\ t = RawLine(c, i) /\ Len(t) = f - i
                            /\ \A j \in 1 .. f - i : t[j] = c[i + j - 1]
  BY <1>4, <1>5, RawOfLine
<1>12. ASSUME NEW j \in 1 .. e - i PROVE t[j] = s[j]
  <2>1. j \in 1 .. f - i /\ i + j - 1 \in 1 .. n
    BY <1>6, <1>7, <1>8, <1>9
  <2>2. t[j] = c[i + j - 1] /\ s[j] = b[i + j - 1]
    BY <1>10, <1>11, <2>1
  <2> QED BY <1>2, <2>1, <2>2
<1>13. s \in Bytes /\ t \in Bytes
  BY SeqMonotonic DEF Bytes, OneLine
<1>14. HasTab(s) /\ KeyAt(b, i) = KeyOf(s)
  BY <1>3, <1>10, TextOfLine DEF KeyAt
<1>15. TabOf(s) \in 1 .. e - i
  BY <1>10, <1>13, <1>14, TabOfLine
<1>16. TabOf(s) <= Len(t) /\ \A j \in 1 .. TabOf(s) : t[j] = s[j]
  <2>1. PICK p \in 1 .. e - i : p = TabOf(s)
    BY <1>15
  <2>2. p <= f - i /\ \A j \in 1 .. p : j \in 1 .. e - i
    BY <1>6, <1>7, <1>8, <1>9
  <2> QED BY <1>11, <1>12, <2>1, <2>2
<1>17. HasTab(t) /\ KeyOf(t) = KeyOf(s)
  BY <1>13, <1>14, <1>16, SameKey
<1>18. HasTab(Text(c, i)) /\ KeyAt(c, i) = KeyOf(t)
  BY <1>4, <1>11, <1>17, TextOfLine DEF KeyAt
<1> QED BY <1>2, <1>4, <1>14, <1>17, <1>18 DEF Records

\* A line is added to a torn file: it becomes the end of the torn line.
LEMMA LineGlued ==
  ASSUME NEW b \in Bytes, Torn(b), NEW key \in Letters, NEW value \in OneLine
  PROVE  LET c == b \o Line(key, value) IN
         /\ c \in Bytes /\ ~Torn(c)
         /\ \A other : other # KeyAt(c, Max(Lines(b))) => Get(c, other) = Get(b, other)
<1>1. PICK text : /\ text \in OneLine /\ Line(key, value) = text \o <<Newline>>
  BY LineIsRead
<1>2. PICK n \in Nat, l \in Nat : n = Len(b) /\ l = Len(text) /\ DOMAIN b = 1 .. n
  BY <1>1, LenProperties DEF Bytes, OneLine
<1>3. PICK line \in Bytes : /\ line = Line(key, value) /\ Len(line) = l + 1
                            /\ \A j \in 1 .. l : line[j] # Newline
                            /\ line[l + 1] = Newline
  <2>1. text \in Bytes /\ <<Newline>> \in Bytes
    BY <1>1, SeqMonotonic DEF Bytes, OneLine
  <2>2. /\ text \o <<Newline>> \in Bytes /\ Len(text \o <<Newline>>) = l + 1
        /\ \A j \in 1 .. l + 1 :
             (text \o <<Newline>>)[j] = IF j <= l THEN text[j] ELSE <<Newline>>[j - l]
    BY <1>2, <2>1, ConcatProperties DEF Bytes
  <2>3. \A j \in 1 .. l : text[j] # Newline
    BY <1>1, <1>2, ElementOfSeq DEF OneLine
  <2>4. \A j \in 1 .. l : (text \o <<Newline>>)[j] # Newline
    BY <2>2, <2>3
  <2>5. (text \o <<Newline>>)[l + 1] = Newline
    <3>1. (text \o <<Newline>>)[l + 1] = <<Newline>>[(l + 1) - l]
      BY <2>2
    <3>2. (l + 1) - l = 1
      OBVIOUS
    <3>3. <<Newline>>[1] = Newline
      OBVIOUS
    <3> QED BY <3>1, <3>2, <3>3, Zenon
  <2> QED BY <1>1, <2>2, <2>4, <2>5, Zenon
<1>4. n >= 1 /\ b[n] # Newline
  BY <1>2 DEF Torn, Last
<1>5. PICK c \in Bytes : /\ c = b \o Line(key, value) /\ Len(c) = n + l + 1
                         /\ \A j \in n .. n + l : c[j] # Newline
                         /\ c[n + l + 1] = Newline
  <2>1. /\ b \o line \in Bytes /\ Len(b \o line) = n + l + 1
        /\ \A j \in 1 .. n + l + 1 : (b \o line)[j] = IF j <= n THEN b[j] ELSE line[j - n]
    <3>1. /\ b \o line \in Bytes /\ Len(b \o line) = Len(b) + Len(line)
          /\ \A j \in 1 .. Len(b) + Len(line) :
               (b \o line)[j] = IF j <= Len(b) THEN b[j] ELSE line[j - Len(b)]
      BY ConcatProperties DEF Bytes
    <3>2. Len(b) = n /\ Len(b) + Len(line) = n + l + 1
      BY <1>2, <1>3
    <3> QED BY <3>1, <3>2
  <2>2. ASSUME NEW j \in n .. n + l PROVE (b \o line)[j] # Newline
    <3>1. CASE j = n
      <4>1. (b \o line)[n] = b[n]
        BY <1>4, <2>1
      <4> QED BY <1>4, <3>1, <4>1
    <3>2. CASE j # n
      <4>1. j \in 1 .. n + l + 1 /\ ~ (j <= n) /\ j - n \in 1 .. l
        BY <3>2
      <4>2. (b \o line)[j] = line[j - n]
        BY <2>1, <4>1
      <4>3. line[j - n] # Newline
        BY <1>3, <4>1
      <4> QED BY <4>2, <4>3
    <3> QED BY <3>1, <3>2
  <2>3. (b \o line)[n + l + 1] = Newline
    <3>1. n + l + 1 \in 1 .. n + l + 1 /\ ~ (n + l + 1 <= n) /\ n + l + 1 - n = l + 1
      OBVIOUS
    <3>2. (b \o line)[n + l + 1] = line[l + 1]
      BY <2>1, <3>1
    <3> QED BY <1>3, <3>2
  <2> QED BY <1>3, <2>1, <2>2, <2>3, Zenon
<1>6. ~Torn(c)
  BY <1>5 DEF Torn, Last
<1>7. Lines(c) = Lines(b)
  <2>1. ASSUME NEW i \in Lines(b) PROVE i \in Lines(c)
    BY <1>3, <1>5, LinesStay DEF Lines
  <2>2. ASSUME NEW i \in Lines(c) PROVE i \in Lines(b)
    <3>1. i \in 1 .. n + l + 1 /\ (i = 1 \/ c[i - 1] = Newline)
      BY <1>5, LenProperties DEF Lines, Bytes
    <3>2. i <= n
      <4>1. i > n => i - 1 \in n .. n + l /\ i # 1
        BY <1>4, <3>1
      <4>2. i > n => c[i - 1] # Newline
        BY <1>5, <4>1
      <4>3. ~ (i > n)
        BY <3>1, <4>1, <4>2, Zenon
      <4> QED BY <3>1, <4>3
    <3>3. i \in DOMAIN b
      BY <1>2, <3>1, <3>2
    <3> QED BY <1>3, <1>5, <3>3, LinesStay
  <2> QED BY <2>1, <2>2
<1>8. PICK last : /\ last = Max(Lines(b)) /\ last \in Lines(b)
                  /\ \A i \in Lines(b) : i <= last /\ i \in Nat
  <2>1. Lines(b) \in SUBSET (0 .. n) /\ Lines(b) # {}
    BY <1>2, <1>4 DEF Lines
  <2>2. Max(Lines(b)) \in Lines(b) /\ \A i \in Lines(b) : i <= Max(Lines(b))
    BY <2>1, GreatestNumber, Zenon
  <2>3. \A i \in Lines(b) : i \in Nat
    BY <2>1
  <2> QED BY <2>2, <2>3, Zenon
<1>9. ASSUME NEW i \in Lines(b), i # last PROVE Text(c, i) = Text(b, i)
  <2>1. i < last /\ i \in DOMAIN b
    <3>1. i \in Nat /\ last \in Nat /\ i <= last
      BY <1>8
    <3> QED BY <1>9, <3>1 DEF Lines
  <2>2. NewlineOf(b, i) <= Len(b)
    BY <1>8, <2>1, LineEnds
  <2> QED BY <1>3, <1>5, <2>1, <2>2, LinesStay
<1>10. ASSUME NEW other, other # KeyAt(c, last) PROVE Get(c, other) = Get(b, other)
  <2>1. last \in Records(b) => KeyAt(b, last) # other
    BY <1>3, <1>5, <1>10, KeyStays
  <2>2. {i \in Records(c) : KeyAt(c, i) = other} = {i \in Records(b) : KeyAt(b, i) = other}
    BY <1>7, <1>9, <1>10, <2>1 DEF Records, KeyAt
  <2>3. \A i \in Records(c) : KeyAt(c, i) = other => Text(c, i) = Text(b, i)
    BY <1>7, <1>9, <1>10 DEF Records
  <2>4. CASE \A i \in Records(b) : KeyAt(b, i) # other
    <3>1. Get(b, other) = <<>>
      BY <2>4, GetFinds
    <3>2. \A i \in Records(c) : KeyAt(c, i) # other
      BY <2>2, <2>4
    <3> QED BY <3>1, <3>2, GetFinds
  <2>5. CASE \E i \in Records(b) : KeyAt(b, i) = other
    <3>1. PICK m \in Records(b) :
            /\ KeyAt(b, m) = other /\ Get(b, other) = ValueOf(Text(b, m))
            /\ \A i \in Records(b) : KeyAt(b, i) = other => i <= m
      BY <2>5, GetFinds
    <3>2. m \in Records(c) /\ KeyAt(c, m) = other /\ Text(c, m) = Text(b, m)
      BY <2>2, <2>3, <3>1
    <3>3. \A i \in Records(c) : KeyAt(c, i) = KeyAt(c, m) => i <= m
      BY <2>2, <3>1, <3>2
    <3>4. Get(c, KeyAt(c, m)) = ValueOf(Text(c, m))
      BY <3>2, <3>3, GetIs
    <3> QED BY <3>1, <3>2, <3>4
  <2> QED BY <2>4, <2>5
<1> QED BY <1>5, <1>6, <1>8, <1>10

-----------------------------------------------------------------------------
(* Compaction. *)

\* What b gives to a key that first appears in it up to place n.
Expected(b, n, key) ==
  IF \E i \in 1 .. n : IsFirst(b, i) /\ KeyAt(b, i) = key THEN Get(b, key) ELSE <<>>

\* a has these values, as far as the scanner keeps them.
Copied(a, b, n) ==
  /\ a \in Bytes /\ ~Torn(a)
  /\ \A key : ButForReturns(Get(a, key), Expected(b, n, key))

LEMMA NothingCopied ==
  ASSUME NEW b \in Bytes
  PROVE  Copied(<<>>, b, 0)
<1>1. <<>> \in Bytes /\ <<>> \in OneLine
  BY EmptySeq DEF Bytes, OneLine
<1>2. ~Torn(<<>>)
  BY DEF Torn
<1>3. Records(<<>>) = {}
  <2>1. DOMAIN <<>> = {}
    OBVIOUS
  <2> QED BY <2>1 DEF Records, Lines
<1>4. ASSUME NEW key PROVE Get(<<>>, key) = <<>>
  BY <1>1, <1>3, GetFinds
<1>5. ASSUME NEW key PROVE Expected(b, 0, key) = <<>>
  <2>1. ~ \E i \in 1 .. 0 : TRUE
    OBVIOUS
  <2> QED BY <2>1 DEF Expected
<1>6. ButForReturns(<<>>, <<>>)
  BY <1>1, ReadsItself
<1> QED BY <1>1, <1>2, <1>4, <1>5, <1>6 DEF Copied

LEMMA OneMoreCopied ==
  ASSUME NEW b \in Bytes, NEW i \in Nat \ {0}, NEW a, Copied(a, b, i - 1)
  PROVE  Copied(a \o LiveLine(b, i), b, i)
<1>1. /\ a \in Bytes /\ ~Torn(a)
      /\ \A key : ButForReturns(Get(a, key), Expected(b, i - 1, key))
  BY DEF Copied
<1>2. ASSUME NEW key
      PROVE  (\E j \in 1 .. i : IsFirst(b, j) /\ KeyAt(b, j) = key)
               <=> \/ \E j \in 1 .. i - 1 : IsFirst(b, j) /\ KeyAt(b, j) = key
                   \/ IsFirst(b, i) /\ KeyAt(b, i) = key
  <2>1. ASSUME NEW j PROVE j \in 1 .. i <=> j \in 1 .. i - 1 \/ j = i
    OBVIOUS
  <2> QED BY <2>1
<1>3. ASSUME NEW key, ~ (IsFirst(b, i) /\ KeyAt(b, i) = key)
      PROVE  Expected(b, i, key) = Expected(b, i - 1, key)
  BY <1>2, <1>3, Zenon DEF Expected
<1>4. CASE IsFirst(b, i) /\ Get(b, KeyAt(b, i)) # <<>>
  <2>1. PICK k \in Letters : k = KeyAt(b, i)
    BY <1>4, KeyIsLetters DEF IsFirst
  <2>2. PICK v \in OneLine : v = Get(b, k)
    BY GetIsAValue
  <2>3. LiveLine(b, i) = Line(k, v)
    BY <1>4, <2>1, <2>2 DEF LiveLine
  <2>4. PICK c : c = a \o Line(k, v)
    OBVIOUS
  <2>5. /\ c \in Bytes /\ ~Torn(c) /\ ButForReturns(Get(c, k), v)
        /\ \A other : other # k => Get(c, other) = Get(a, other)
    BY <1>1, <2>4, LineAdded
  <2>6. ASSUME NEW key PROVE ButForReturns(Get(c, key), Expected(b, i, key))
    <3>1. CASE key = k
      <4>1. Expected(b, i, k) = v
        BY <1>2, <1>4, <2>1, <2>2, Zenon DEF Expected
      <4> QED BY <2>5, <3>1, <4>1
    <3>2. CASE key # k
      <4>1. Expected(b, i, key) = Expected(b, i - 1, key) /\ Get(c, key) = Get(a, key)
        BY <1>3, <2>1, <2>5, <3>2
      <4> QED BY <1>1, <4>1
    <3> QED BY <3>1, <3>2
  <2>7. Copied(c, b, i)
    BY <2>5, <2>6 DEF Copied
  <2> QED BY <2>3, <2>4, <2>7
<1>5. CASE ~ (IsFirst(b, i) /\ Get(b, KeyAt(b, i)) # <<>>)
  <2>1. a \o LiveLine(b, i) = a
    <3>1. LiveLine(b, i) = <<>>
      BY <1>5 DEF LiveLine
    <3>2. a \o <<>> = a
      BY <1>1, ConcatEmptySeq DEF Bytes
    <3> QED BY <3>1, <3>2
  <2>2. ASSUME NEW key PROVE Expected(b, i, key) = Expected(b, i - 1, key)
    <3>1. CASE IsFirst(b, i) /\ KeyAt(b, i) = key
      <4>1. Get(b, key) = <<>>
        BY <1>5, <3>1
      <4> QED BY <4>1, Zenon DEF Expected
    <3>2. CASE ~ (IsFirst(b, i) /\ KeyAt(b, i) = key)
      BY <1>3, <3>2
    <3> QED BY <3>1, <3>2
  <2> QED BY <1>1, <2>1, <2>2 DEF Copied
<1> QED BY <1>4, <1>5

\* Of every file, the compacted one has the same value under each key for a reader, but
\* for carriage returns at the end of a value.
THEOREM CompactedReadsTheSame ==
  ASSUME NEW b \in Bytes
  PROVE  /\ Compacted(b) \in Bytes /\ ~Torn(Compacted(b))
         /\ \A key : ButForReturns(Get(Compacted(b), key), Get(b, key))
<1>1. PICK n \in Nat : n = Len(b) /\ DOMAIN b = 1 .. n
  BY LenProperties DEF Bytes
<1>2. PICK pieces : pieces = [i \in 1 .. n |-> LiveLine(b, i)]
  OBVIOUS
<1>3. FlattenSeq(pieces) = Compacted(b)
  BY <1>1, <1>2 DEF Compacted
<1>4. ASSUME NEW i \in 1 .. n PROVE pieces[i] = LiveLine(b, i)
  BY <1>2
<1>5. Len(pieces) = n
  BY <1>2
<1>6. Copied(Compacted(b), b, n)
  <2>1. CASE n = 0
    <3>1. pieces = <<>>
      BY <1>2, <2>1
    <3>2. FlattenSeq(pieces) = <<>>
      BY <1>5, <2>1, <3>1 DEF FlattenSeq
    <3> QED BY <1>3, <2>1, <3>2, NothingCopied
  <2>2. CASE n # 0
    <3>1. PICK f : Concatenates(f, pieces, n) /\ FlattenSeq(pieces) = f[n]
      <4>1. Len(pieces) \in Nat \ {0}
        BY <1>5, <2>2
      <4>2. \E f : Concatenates(f, pieces, Len(pieces)) /\ FlattenSeq(pieces) = f[Len(pieces)]
        BY <4>1, FlattenUnfolds, Zenon
      <4> QED BY <1>5, <4>2
    <3>2. ASSUME NEW i \in 1 .. n
          PROVE  f[i] = IF i = 1 THEN pieces[i] ELSE f[i - 1] \o pieces[i]
      BY <3>1 DEF Concatenates
    <3> DEFINE T == {m \in Nat : m + 1 \in 1 .. n => Copied(f[m + 1], b, m + 1)}
    <3>3. 0 \in T
      <4>1. f[1] = LiveLine(b, 1)
        BY <1>4, <2>2, <3>2
      <4>2. Copied(<<>> \o LiveLine(b, 1), b, 1)
        <5>1. 1 \in Nat \ {0} /\ 1 - 1 = 0 /\ 1 \in 1 .. n
          BY <2>2
        <5>2. Copied(<<>>, b, 1 - 1) /\ 1 \in DOMAIN b
          BY <1>1, <5>1, NothingCopied
        <5> QED BY <5>1, <5>2, OneMoreCopied
      <4>3. <<>> \o LiveLine(b, 1) = LiveLine(b, 1)
        <5>1. LiveLine(b, 1) \in Bytes
          <6>1. CASE IsFirst(b, 1) /\ Get(b, KeyAt(b, 1)) # <<>>
            <7>1. KeyAt(b, 1) \in Letters /\ Get(b, KeyAt(b, 1)) \in OneLine
              BY <6>1, KeyIsLetters, GetIsAValue DEF IsFirst
            <7>2. PICK text : /\ text \in OneLine
                              /\ Line(KeyAt(b, 1), Get(b, KeyAt(b, 1))) = text \o <<Newline>>
              BY <7>1, LineIsRead
            <7>3. text \in Bytes /\ <<Newline>> \in Bytes
              BY <7>2, SeqMonotonic DEF Bytes, OneLine
            <7>4. text \o <<Newline>> \in Bytes
              BY <7>3, ConcatProperties DEF Bytes
            <7> QED BY <6>1, <7>2, <7>4 DEF LiveLine
          <6>2. CASE ~ (IsFirst(b, 1) /\ Get(b, KeyAt(b, 1)) # <<>>)
            <7>1. <<>> \in Bytes
              BY EmptySeq DEF Bytes
            <7> QED BY <6>2, <7>1 DEF LiveLine
          <6> QED BY <6>1, <6>2
        <5> QED BY <5>1, ConcatEmptySeq DEF Bytes
      <4> QED BY <4>1, <4>2, <4>3
    <3>4. ASSUME NEW m \in T PROVE m + 1 \in T
      <4>1. SUFFICES ASSUME m + 2 \in 1 .. n PROVE Copied(f[m + 2], b, m + 2)
        BY <4>1
      <4>2. m + 1 \in 1 .. n /\ m \in Nat /\ (m + 2) - 1 = m + 1 /\ m + 2 # 1
        BY <4>1
      <4>3. Copied(f[m + 1], b, m + 1)
        BY <4>2
      <4>4. f[m + 2] = f[m + 1] \o LiveLine(b, m + 2)
        BY <1>4, <3>2, <4>1, <4>2
      <4>5. m + 2 \in Nat \ {0} /\ Copied(f[m + 1], b, (m + 2) - 1)
        BY <4>2, <4>3
      <4> QED BY <4>4, <4>5, OneMoreCopied
    <3>5. T = Nat
      <4> HIDE DEF T
      <4>1. T \in SUBSET Nat
        BY DEF T
      <4> QED BY <3>3, <3>4, <4>1, Induction
    <3>6. PICK m \in Nat : m + 1 = n
      <4>1. n - 1 \in Nat /\ (n - 1) + 1 = n
        BY <2>2
      <4> QED BY <4>1
    <3>7. m \in T
      BY <3>5
    <3>8. n \in 1 .. n
      BY <2>2
    <3>9. Copied(f[n], b, n)
      BY <3>6, <3>7, <3>8
    <3> QED BY <1>3, <3>1, <3>9
  <2> QED BY <2>1, <2>2
<1>7. ASSUME NEW key PROVE Expected(b, n, key) = Get(b, key)
  <2>1. CASE \E i \in 1 .. n : IsFirst(b, i) /\ KeyAt(b, i) = key
    BY <2>1 DEF Expected
  <2>2. CASE ~ \E i \in 1 .. n : IsFirst(b, i) /\ KeyAt(b, i) = key
    <3> DEFINE T == {i \in Records(b) : KeyAt(b, i) = key}
    <3>1. T \in SUBSET Nat /\ T \subseteq 1 .. n
      BY <1>1 DEF Records, Lines
    <3>2. ASSUME T # {} PROVE FALSE
      <4>1. Min(T) \in T /\ \A m \in T : Min(T) <= m
        <5> HIDE DEF T
        <5> QED BY <3>1, <3>2, LeastNumber
      <4>2. IsFirst(b, Min(T)) /\ KeyAt(b, Min(T)) = key /\ Min(T) \in 1 .. n
        BY <3>1, <4>1 DEF IsFirst
      <4> QED BY <2>2, <4>2
    <3>3. Get(b, key) = <<>>
      BY <3>2, GetFinds
    <3> QED BY <2>2, <3>3 DEF Expected
  <2> QED BY <2>1, <2>2
<1> QED BY <1>6, <1>7 DEF Copied

-----------------------------------------------------------------------------
(* Prefixes: what a write that was cut short leaves.                        *)

LEMMA PrefixIs ==
  ASSUME NEW a \in Bytes, NEW b \in Bytes
  PROVE  IsPrefix(a, a \o b)
<1>1. PICK n \in Nat, m \in Nat : n = Len(a) /\ m = Len(b)
  BY LenProperties DEF Bytes
<1>2. /\ a \o b \in Bytes /\ Len(a \o b) = n + m
      /\ \A i \in 1 .. n + m : (a \o b)[i] = IF i <= n THEN a[i] ELSE b[i - n]
  BY <1>1, ConcatProperties DEF Bytes
<1>3. PICK c \in Bytes : c = a \o b /\ Len(c) = n + m /\ \A i \in 1 .. n : c[i] = a[i]
  <2>1. \A i \in 1 .. n : i <= n /\ i \in 1 .. n + m
    BY <1>1
  <2> QED BY <1>2, <2>1
<1>4. SubSeq(a, 1, n) = a
  BY <1>1, SubSeqFull DEF Bytes
<1>5. SubSeq(c, 1, n) = a
  <2>1. \A i \in 1 .. n : c[i] \in Nat
    <3>1. \A i \in 1 .. n : a[i] \in Nat
      BY <1>1, ElementOfSeq DEF Bytes
    <3> QED BY <1>3, <3>1
  <2>2. /\ SubSeq(c, 1, n) \in Seq(Nat) /\ Len(SubSeq(c, 1, n)) = n
        /\ \A i \in 1 .. n : SubSeq(c, 1, n)[i] = c[i]
    BY <2>1, SubSeqProperties
  <2> QED BY <1>1, <1>3, <2>2, SeqEqual DEF Bytes
<1>6. Len(a) <= Len(c)
  BY <1>1, <1>3
<1> QED BY <1>1, <1>3, <1>4, <1>5, <1>6, Zenon DEF IsPrefix

LEMMA Associate ==
  ASSUME NEW a \in Bytes, NEW b \in Bytes, NEW c \in Bytes
  PROVE  (a \o b) \o c = a \o (b \o c)
BY ConcatAssociative DEF Bytes

LEMMA Together ==
  ASSUME NEW a \in Bytes, NEW b \in Bytes
  PROVE  a \o b \in Bytes
BY ConcatProperties DEF Bytes

\* Bytes cut in two at a place are put together again.
LEMMA CutInTwo ==
  ASSUME NEW b \in Bytes, NEW n \in 0 .. Len(b)
  PROVE  /\ FirstBytes(b, n) \in Bytes /\ SubSeq(b, n + 1, Len(b)) \in Bytes
         /\ FirstBytes(b, n) \o SubSeq(b, n + 1, Len(b)) = b
         /\ Len(FirstBytes(b, n)) = n
<1>1. PICK l \in Nat : l = Len(b)
  BY LenProperties DEF Bytes
<1>2. \A i \in 1 .. l : b[i] \in Nat
  BY <1>1, ElementOfSeq DEF Bytes
<1>3. n \in 0 .. l
  BY <1>1
<1>4. FirstBytes(b, n) \in Bytes /\ Len(FirstBytes(b, n)) = n
  <2>1. \A i \in 1 .. n : b[i] \in Nat
    BY <1>2, <1>3
  <2>2. /\ SubSeq(b, 1, n) \in Bytes
        /\ Len(SubSeq(b, 1, n)) = IF 1 <= n THEN n - 1 + 1 ELSE 0
    BY <1>3, <2>1, SubSeqProperties DEF Bytes
  <2> QED BY <1>3, <2>2 DEF FirstBytes
<1>5. SubSeq(b, n + 1, l) \in Bytes
  <2>1. \A i \in n + 1 .. l : b[i] \in Nat
    BY <1>2, <1>3
  <2>2. n + 1 \in Int /\ l \in Int
    BY <1>3
  <2> QED BY <2>1, <2>2, SubSeqProperties DEF Bytes
<1>6. SubSeq(b, 1, n) \o SubSeq(b, n + 1, l) = b
  <2>1. 1 \in 1 .. l + 1 /\ n \in 1 - 1 .. l /\ l \in n .. l
    BY <1>3
  <2>2. SubSeq(b, 1, n) \o SubSeq(b, n + 1, l) = SubSeq(b, 1, l)
    BY <1>1, <2>1, ConcatAdjacentSubSeq DEF Bytes
  <2> QED BY <1>1, <2>2, SubSeqFull DEF Bytes
<1> QED BY <1>1, <1>4, <1>5, <1>6 DEF FirstBytes

-----------------------------------------------------------------------------
(* Writing through the buffer.                                             *)

LEMMA LineIsBytes ==
  ASSUME NEW key \in Letters, NEW value \in OneLine
  PROVE  Line(key, value) \in Bytes
<1>1. PICK text : text \in OneLine /\ Line(key, value) = text \o <<Newline>>
  BY LineIsRead
<1>2. text \in Bytes /\ <<Newline>> \in Bytes
  BY <1>1, SeqMonotonic DEF Bytes, OneLine
<1> QED BY <1>1, <1>2, ConcatProperties DEF Bytes

\* What a Put hands to the file and what it keeps is all there was.
LEMMA HandedAndRest ==
  ASSUME buf \in Bytes, NEW line \in Bytes
  PROVE  /\ Handed(line) \in Bytes /\ Rest(Handed(line), line) \in Bytes
         /\ Handed(line) \o Rest(Handed(line), line) = buf \o line
<1>1. PICK l \in Nat, all \in Bytes : all = buf \o line /\ l = Len(all)
                                      /\ Len(buf) + Len(line) = l
  BY ConcatProperties, LenProperties DEF Bytes
<1>2. PICK n \in 0 .. l : Handed(line) = FirstBytes(all, n)
  <2>1. CASE Handed(line) = <<>>
    <3>1. FirstBytes(all, 0) = <<>>
      BY SubSeqEmpty DEF FirstBytes
    <3>2. 0 \in 0 .. l
      OBVIOUS
    <3> QED BY <2>1, <3>1, <3>2
  <2>2. CASE Handed(line) = all
    <3>1. FirstBytes(all, l) = all
      BY <1>1, SubSeqFull DEF FirstBytes, Bytes
    <3>2. l \in 0 .. l
      OBVIOUS
    <3> QED BY <2>2, <3>1, <3>2
  <2>3. CASE Handed(line) = FirstBytes(all, BufSize) /\ l > BufSize
    <3>1. BufSize \in 0 .. l
      BY <2>3, SizeAssumption
    <3> QED BY <2>3, <3>1
  <2>4. BufSize \in Nat
    BY SizeAssumption
  <2>5. l <= BufSize \/ l > BufSize
    BY <2>4
  <2> QED BY <1>1, <2>1, <2>2, <2>3, <2>5 DEF Handed
<1>3. /\ FirstBytes(all, n) \in Bytes /\ SubSeq(all, n + 1, l) \in Bytes
      /\ FirstBytes(all, n) \o SubSeq(all, n + 1, l) = all
      /\ Len(FirstBytes(all, n)) = n
  <2>1. n \in 0 .. Len(all)
    BY <1>1
  <2>2. /\ FirstBytes(all, n) \in Bytes /\ SubSeq(all, n + 1, Len(all)) \in Bytes
        /\ FirstBytes(all, n) \o SubSeq(all, n + 1, Len(all)) = all
        /\ Len(FirstBytes(all, n)) = n
    BY <2>1, CutInTwo, Zenon
  <2> QED BY <1>1, <2>2, Zenon
<1>4. Rest(Handed(line), line) = SubSeq(all, n + 1, l)
  BY <1>1, <1>2, <1>3 DEF Rest
<1> QED BY <1>1, <1>2, <1>3, <1>4

\* However a write ends, the file is a prefix of what it had and what was to come.
LEMMA WriteEnds ==
  ASSUME file \in Bytes, NEW bytes \in Bytes, NEW rest \in Bytes,
         WriteFails(bytes) \/ Writes(bytes) \/ Starts(bytes)
  PROVE  /\ file' \in Bytes
         /\ IsPrefix(file', file \o (bytes \o rest))
<1>1. bytes \o rest \in Bytes /\ file \o (bytes \o rest) \in Bytes
  BY Together
<1>2. CASE file' = file
  BY <1>1, <1>2, PrefixIs
<1>3. CASE file' = file \o bytes
  <2>1. file \o bytes \in Bytes
    BY Together
  <2>2. (file \o bytes) \o rest = file \o (bytes \o rest)
    BY Associate
  <2>3. IsPrefix(file \o bytes, (file \o bytes) \o rest)
    BY <2>1, PrefixIs
  <2> QED BY <1>3, <2>1, <2>2, <2>3
<1>4. ASSUME NEW n \in 0 .. Len(bytes), file' = file \o FirstBytes(bytes, n)
      PROVE  file' \in Bytes /\ IsPrefix(file', file \o (bytes \o rest))
  <2>1. PICK a \in Bytes, c \in Bytes : a = FirstBytes(bytes, n) /\ a \o c = bytes
    <3>1. /\ FirstBytes(bytes, n) \in Bytes /\ SubSeq(bytes, n + 1, Len(bytes)) \in Bytes
          /\ FirstBytes(bytes, n) \o SubSeq(bytes, n + 1, Len(bytes)) = bytes
      BY CutInTwo, Zenon
    <3> QED BY <3>1, Zenon
  <2>2. c \o rest \in Bytes /\ file \o a \in Bytes
    BY Together
  <2>3. (a \o c) \o rest = a \o (c \o rest)
    BY Associate
  <2>4. (file \o a) \o (c \o rest) = file \o (a \o (c \o rest))
    <3>1. a \in Bytes /\ file \in Bytes /\ c \o rest \in Bytes
      BY <2>2, Zenon
    <3> QED BY <3>1, Associate, ZenonT(40)
  <2>5. IsPrefix(file \o a, (file \o a) \o (c \o rest))
    BY <2>2, PrefixIs
  <2>6. IsPrefix(file \o a, file \o (bytes \o rest))
    BY <2>1, <2>3, <2>4, <2>5
  <2> QED BY <1>4, <2>1, <2>2, <2>6
<1>5. Len(bytes) \in Nat
  BY LenProperties DEF Bytes
<1>6. \/ file' = file \/ file' = file \o bytes
      \/ \E n \in 0 .. Len(bytes) : file' = file \o FirstBytes(bytes, n)
  <2>1. 0 .. Len(bytes) - 1 \subseteq 0 .. Len(bytes) /\ 1 .. Len(bytes) \subseteq 0 .. Len(bytes)
    BY <1>5
  <2> QED BY <2>1 DEF WriteFails, Writes, Starts
<1> QED BY <1>2, <1>3, <1>4, <1>6

-----------------------------------------------------------------------------
(* The inductive invariant.  FlushedIsThere says nothing while something   *)
(* is in the buffer, and nothing of the log; it rests on what the log      *)
(* answers at any time.                                                    *)

TypeInv ==
  /\ file \in Bytes /\ tmp \in Bytes /\ buf \in Bytes /\ log \in Bytes
  /\ err \in BOOLEAN
  /\ told \in [Keys -> OneLine]

\* Outside of the calls between Open and Close nothing waits to be written.
NothingWaits ==
  /\ pc # "idle" => ~err /\ buf = <<>>
  /\ synced => pc # "down" /\ ~err /\ buf = <<>>

\* What Compact writes, and has written, is what is live in the file.
CompactInv ==
  /\ pc \in {"create", "write", "close", "rename"} => out = Compacted(file)
  /\ pc \in {"close", "rename"} => tmp = out

\* What was sent answers for every key but the glued ones.
LogAnswers ==
  /\ Torn(log) => smeared = {}
  /\ pc # "down" /\ ~err =>
       \A key \in Keys \ smeared : ButForReturns(Get(log, key), told[key])

Inv == TypeInv /\ LosesOnlyTheTail /\ NothingWaits /\ CompactInv /\ LogAnswers

LEMMA Constants ==
  /\ \A key \in Keys : key \in Letters
  /\ \A value \in Values : value \in OneLine
  /\ \A key \in Keys, value \in Values : Line(key, value) \in Bytes
<1>1. ASSUME NEW s \in Keys \cup Values PROVE s \in Letters
  BY LettersAssumption DEF Letters
<1>2. ASSUME NEW s \in Values PROVE s \in OneLine
  BY <1>1, SeqMonotonic DEF Letters, OneLine
<1> QED BY <1>1, <1>2, LineIsBytes

\* What a line in a file, glued or not, does to the answers the client expects.
LEMMA TellsTheAnswers ==
  ASSUME TypeInv, LogAnswers, pc # "down", ~err, NEW key \in Keys, NEW value \in Values,
         log' = log \o Line(key, value), Tells(key, value)
  PROVE  /\ told' \in [Keys -> OneLine]
         /\ \A other \in Keys \ smeared' : ButForReturns(Get(log', other), told'[other])
<1>1. key \in Letters /\ value \in OneLine
  BY Constants
<1>2. CASE Torn(log)
  <2>1. PICK glued : glued = KeyAt(log', Max(Lines(log)))
    OBVIOUS
  <2>2. smeared = {} /\ smeared' = {key, glued} \cap Keys /\ told' = told
    BY <1>2, <2>1 DEF LogAnswers, Tells
  <2>3. ASSUME NEW other \in Keys \ smeared' PROVE Get(log', other) = Get(log, other)
    <3>1. other # glued
      BY <2>2
    <3>2. LET c == log \o Line(key, value) IN
          \A o : o # KeyAt(c, Max(Lines(log))) => Get(c, o) = Get(log, o)
      BY <1>1, <1>2, LineGlued DEF TypeInv
    <3> QED BY <2>1, <3>1, <3>2
  <2>4. \A other \in Keys : ButForReturns(Get(log, other), told[other])
    BY <2>2 DEF LogAnswers
  <2> QED BY <2>2, <2>3, <2>4 DEF TypeInv
<1>3. CASE ~Torn(log)
  <2>1. told' = [told EXCEPT ![key] = value] /\ smeared' = smeared \ {key}
    BY <1>3 DEF Tells
  <2>2. /\ ButForReturns(Get(log', key), value)
        /\ \A other : other # key => Get(log', other) = Get(log, other)
    BY <1>1, <1>3, LineAdded DEF TypeInv
  <2>3. told' \in [Keys -> OneLine] /\ told'[key] = value
        /\ \A other \in Keys \ {key} : told'[other] = told[other]
    BY <1>1, <2>1 DEF TypeInv
  <2>4. ASSUME NEW other \in Keys \ smeared', other # key
        PROVE  ButForReturns(Get(log', other), told'[other])
    BY <2>1, <2>2, <2>3, <2>4 DEF LogAnswers
  <2> QED BY <2>2, <2>3, <2>4
<1> QED BY <1>2, <1>3

LEMMA NotTornByALine ==
  ASSUME TypeInv, NEW key \in Keys, NEW value \in Values
  PROVE  log \o Line(key, value) \in Bytes /\ ~Torn(log \o Line(key, value))
<1>1. key \in Letters /\ value \in OneLine
  BY Constants
<1> QED BY <1>1, LineAdded, LineGlued DEF TypeInv

\* What a line that is sent does to the file, however the write ends.
LEMMA LineIsSent ==
  ASSUME TypeInv, LosesOnlyTheTail, pc # "down", ~err, NEW line \in Bytes,
         WriteFails(Handed(line)) \/ Writes(Handed(line)) \/ Starts(Handed(line))
  PROVE  /\ file' \in Bytes /\ IsPrefix(file', log \o line)
         /\ Rest(Handed(line), line) \in Bytes
         /\ Writes(Handed(line)) => file' \o Rest(Handed(line), line) = log \o line
<1>1. /\ Handed(line) \in Bytes /\ Rest(Handed(line), line) \in Bytes
      /\ Handed(line) \o Rest(Handed(line), line) = buf \o line
  BY HandedAndRest DEF TypeInv
<1>2. PICK h \in Bytes, r \in Bytes :
        h = Handed(line) /\ r = Rest(Handed(line), line) /\ h \o r = buf \o line
  BY <1>1
<1>3. log \o line = file \o (h \o r)
  <2>1. file \in Bytes /\ buf \in Bytes /\ file \o buf = log
    BY DEF TypeInv, LosesOnlyTheTail
  <2>2. (file \o buf) \o line = file \o (buf \o line)
    BY <2>1, Associate, ZenonT(40)
  <2> QED BY <1>2, <2>1, <2>2, Zenon
<1>4. file' \in Bytes /\ IsPrefix(file', file \o (h \o r))
  BY <1>2, WriteEnds DEF TypeInv
<1>5. Writes(h) => file' \o r = file \o (h \o r)
  <2>1. (file \o h) \o r = file \o (h \o r)
    <3>1. file \in Bytes
      BY DEF TypeInv
    <3> QED BY <3>1, Associate, ZenonT(40)
  <2> QED BY <2>1, Zenon DEF Writes
<1> QED BY <1>2, <1>3, <1>4, <1>5

\* And what a flush does.
LEMMA BufferIsSent ==
  ASSUME TypeInv, LosesOnlyTheTail, pc # "down", ~err,
         WriteFails(buf) \/ Writes(buf) \/ Starts(buf)
  PROVE  /\ file' \in Bytes /\ IsPrefix(file', log)
         /\ Writes(buf) => file' = log
<1>1. <<>> \in Bytes /\ buf \o <<>> = buf
  BY EmptySeq, ConcatEmptySeq DEF TypeInv, Bytes
<1>2. file' \in Bytes /\ IsPrefix(file', file \o (buf \o <<>>))
  BY <1>1, WriteEnds DEF TypeInv
<1> QED BY <1>1, <1>2 DEF LosesOnlyTheTail, Writes

-----------------------------------------------------------------------------
(* The steps.                                                              *)

LEMMA InvInit == Init => Inv
<1> SUFFICES ASSUME Init PROVE Inv
  OBVIOUS
<1>1. <<>> \in Bytes /\ <<>> \in OneLine /\ <<>> \o <<>> = <<>>
  BY EmptySeq, ConcatEmptySeq DEF Bytes, OneLine
<1>2. IsPrefix(<<>>, <<>> \o <<>>)
  BY <1>1, PrefixIs
<1>3. TypeInv
  BY <1>1 DEF Init, TypeInv
<1>4. LosesOnlyTheTail
  BY <1>1, <1>2 DEF Init, LosesOnlyTheTail
<1>5. NothingWaits /\ CompactInv /\ LogAnswers
  BY DEF Init, NothingWaits, CompactInv, LogAnswers
<1> QED BY <1>3, <1>4, <1>5 DEF Inv

LEMMA InvPut ==
  ASSUME Inv, NEW key \in Keys, NEW value \in Values, Put(key, value)
  PROVE  Inv'
<1>1. PICK line \in Bytes : line = Line(key, value)
  BY Constants
<1>2. /\ pc = "idle" /\ ~err /\ pc' = "idle" /\ log' = log \o line /\ synced' = FALSE
      /\ \/ /\ Writes(Handed(line)) /\ buf' = Rest(Handed(line), line) /\ Tells(key, value)
         \/ /\ WriteFails(Handed(line)) /\ UNCHANGED <<told, smeared>>
      /\ UNCHANGED <<tmp, isOpen, out>>
  BY <1>1 DEF Put, Inv
<1>3. log' \in Bytes /\ ~Torn(log')
  BY <1>1, <1>2, NotTornByALine DEF Inv
<1>4. /\ file' \in Bytes /\ IsPrefix(file', log')
      /\ Rest(Handed(line), line) \in Bytes
      /\ Writes(Handed(line)) => file' \o Rest(Handed(line), line) = log'
  BY <1>2, LineIsSent DEF Inv
<1>5. NothingWaits' /\ CompactInv'
  BY <1>2 DEF NothingWaits, CompactInv
<1>6. CASE Writes(Handed(line)) /\ buf' = Rest(Handed(line), line) /\ Tells(key, value)
  <2>1. err' = err
    BY <1>6 DEF Writes
  <2>2. /\ told' \in [Keys -> OneLine]
        /\ \A other \in Keys \ smeared' : ButForReturns(Get(log', other), told'[other])
    BY <1>1, <1>2, <1>6, TellsTheAnswers DEF Inv
  <2>3. TypeInv' /\ LosesOnlyTheTail'
    BY <1>2, <1>3, <1>4, <1>6, <2>1, <2>2 DEF Inv, TypeInv, LosesOnlyTheTail
  <2>4. LogAnswers'
    BY <1>3, <2>2 DEF LogAnswers
  <2> QED BY <1>5, <2>3, <2>4 DEF Inv
<1>7. CASE WriteFails(Handed(line)) /\ UNCHANGED <<told, smeared>>
  <2>1. buf' = <<>> /\ err' = TRUE /\ <<>> \in Bytes
    BY <1>7, EmptySeq DEF WriteFails, Bytes
  <2>2. TypeInv' /\ LosesOnlyTheTail'
    BY <1>2, <1>3, <1>4, <1>7, <2>1 DEF Inv, TypeInv, LosesOnlyTheTail
  <2>3. LogAnswers'
    BY <1>3, <2>1 DEF LogAnswers
  <2> QED BY <1>5, <2>2, <2>3 DEF Inv
<1> QED BY <1>2, <1>6, <1>7

\* Of the calls that flush: the file has all that was sent, or a prefix of it.
LEMMA InvFlushed ==
  ASSUME Inv, pc = "idle", ~err, Writes(buf) \/ WriteFails(buf), buf' = <<>>,
         UNCHANGED <<tmp, log, told>>
  PROVE  /\ TypeInv' /\ LosesOnlyTheTail'
         /\ Writes(buf) => file' = log /\ err' = FALSE
         /\ WriteFails(buf) => err' = TRUE
<1>1. file' \in Bytes /\ IsPrefix(file', log) /\ (Writes(buf) => file' = log)
  BY BufferIsSent DEF Inv
<1>2. <<>> \in Bytes /\ log \o <<>> = log
  BY EmptySeq, ConcatEmptySeq DEF Inv, TypeInv, Bytes
<1>3. (Writes(buf) => err' = FALSE) /\ (WriteFails(buf) => err' = TRUE)
  BY DEF Writes, WriteFails, Inv, TypeInv
<1>4. TypeInv' /\ LosesOnlyTheTail'
  BY <1>1, <1>2, <1>3 DEF Inv, TypeInv, LosesOnlyTheTail
<1> QED BY <1>1, <1>3, <1>4

LEMMA InvFlush == ASSUME Inv, Flush PROVE Inv'
<1>1. /\ pc = "idle" /\ ~err /\ pc' = "idle" /\ buf' = <<>>
      /\ UNCHANGED <<tmp, isOpen, out, log, told, smeared>>
      /\ (Writes(buf) /\ synced' = TRUE) \/ (WriteFails(buf) /\ synced' = FALSE)
  BY DEF Flush, WriteFails
<1>2. /\ TypeInv' /\ LosesOnlyTheTail'
      /\ Writes(buf) => file' = log /\ err' = FALSE
      /\ WriteFails(buf) => err' = TRUE
  BY <1>1, InvFlushed
<1>3. NothingWaits' /\ CompactInv'
  BY <1>1, <1>2 DEF NothingWaits, CompactInv
<1>4. LogAnswers'
  BY <1>1, <1>2 DEF Inv, LogAnswers
<1> QED BY <1>2, <1>3, <1>4 DEF Inv

LEMMA InvClose == ASSUME Inv, Close PROVE Inv'
<1>1. /\ pc = "idle" /\ pc' = "down" /\ buf' = <<>> /\ err' = FALSE /\ synced' = FALSE
      /\ UNCHANGED <<tmp, out, log, told, smeared>>
      /\ \/ ~err /\ (Writes(buf) \/ WriteFails(buf))
         \/ err /\ UNCHANGED file
  BY DEF Close
<1>2. file' \in Bytes /\ IsPrefix(file', log)
  BY <1>1, BufferIsSent DEF Inv, TypeInv, LosesOnlyTheTail
<1>3. <<>> \in Bytes
  BY EmptySeq DEF Bytes
<1>4. TypeInv' /\ LosesOnlyTheTail'
  BY <1>1, <1>2, <1>3 DEF Inv, TypeInv, LosesOnlyTheTail
<1>5. NothingWaits' /\ CompactInv' /\ LogAnswers'
  BY <1>1 DEF Inv, NothingWaits, CompactInv, LogAnswers
<1> QED BY <1>4, <1>5 DEF Inv

LEMMA InvOpen == ASSUME Inv, Open PROVE Inv'
<1>1. /\ pc = "down" /\ pc' = "idle" /\ log' = file /\ smeared' = {}
      /\ told' = [key \in Keys |-> Get(file, key)]
      /\ UNCHANGED <<file, tmp, buf, err, out>>
  BY DEF Open, bufVars
<1>2. buf = <<>> /\ ~err
  BY <1>1 DEF Inv, NothingWaits
<1>3. file \o <<>> = file /\ <<>> \in Bytes
  BY ConcatEmptySeq, EmptySeq DEF Inv, TypeInv, Bytes
<1>4. IsPrefix(file, file)
  BY <1>3, PrefixIs DEF Inv, TypeInv
<1>5. \A key \in Keys : Get(file, key) \in OneLine
  BY GetIsAValue DEF Inv, TypeInv
<1>6. TypeInv'
  BY <1>1, <1>5 DEF Inv, TypeInv
<1>7. LosesOnlyTheTail'
  BY <1>1, <1>2, <1>3, <1>4 DEF LosesOnlyTheTail
<1>8. \A key \in Keys : ButForReturns(Get(file, key), Get(file, key))
  BY <1>5, ReadsItself
<1>9. LogAnswers'
  BY <1>1, <1>8 DEF LogAnswers
<1>10. NothingWaits' /\ CompactInv'
  BY <1>1, <1>2 DEF NothingWaits, CompactInv
<1> QED BY <1>6, <1>7, <1>9, <1>10 DEF Inv

LEMMA InvCompactRead == ASSUME Inv, CompactRead PROVE Inv'
<1>1. /\ pc = "idle" /\ ~err /\ Writes(buf) /\ buf' = <<>>
      /\ out' = Compacted(file') /\ pc' = "create"
      /\ UNCHANGED <<tmp, log, told, smeared>>
  BY DEF CompactRead
<1>2. TypeInv' /\ LosesOnlyTheTail' /\ file' = log /\ err' = FALSE
  BY <1>1, InvFlushed
<1>3. NothingWaits' /\ CompactInv'
  BY <1>1, <1>2 DEF NothingWaits, CompactInv
<1>4. LogAnswers'
  BY <1>1, <1>2 DEF Inv, LogAnswers
<1> QED BY <1>2, <1>3, <1>4 DEF Inv

\* Of the calls of Compact that leave the log as it is.
LEMMA InvCompacting ==
  ASSUME Inv, pc \in {"create", "write", "close"}, tmp' \in Bytes,
         UNCHANGED <<file, bufVars, toldVars>>,
         pc' # "down", CompactInv'
  PROVE  Inv'
<1>1. ~err /\ buf = <<>>
  BY DEF Inv, NothingWaits
<1>2. /\ file' = file /\ buf' = buf /\ err' = err /\ log' = log /\ told' = told
      /\ smeared' = smeared /\ synced' = synced
  BY DEF bufVars, toldVars
<1>3. TypeInv' /\ LosesOnlyTheTail'
  BY <1>2 DEF Inv, TypeInv, LosesOnlyTheTail
<1>4. NothingWaits' /\ LogAnswers'
  BY <1>1, <1>2 DEF Inv, NothingWaits, LogAnswers
<1> QED BY <1>3, <1>4 DEF Inv

\* What Compact reads in the file, wherever it stands.
LEMMA CompactedIsBytes ==
  ASSUME Inv, pc \in {"create", "write", "close", "rename"}
  PROVE  out \in Bytes /\ ~Torn(out) /\ \A key : ButForReturns(Get(out, key), Get(file, key))
BY CompactedReadsTheSame DEF Inv, TypeInv, CompactInv

LEMMA InvCompactCreate == ASSUME Inv, CompactCreate PROVE Inv'
<1>1. <<>> \in Bytes
  BY EmptySeq DEF Bytes
<1>2. pc = "create" /\ UNCHANGED <<file, bufVars, toldVars>> /\ pc' \in {"write", "idle"}
  BY DEF CompactCreate, BackTo
<1>3. tmp' \in Bytes
  BY <1>1 DEF CompactCreate, Inv, TypeInv
<1>4. CompactInv'
  BY <1>2 DEF CompactCreate, BackTo, Inv, CompactInv
<1> QED BY <1>2, <1>3, <1>4, InvCompacting

LEMMA InvCompactWrite == ASSUME Inv, CompactWrite PROVE Inv'
<1>1. pc = "write" /\ UNCHANGED <<file, bufVars, toldVars>> /\ pc' \in {"close", "idle"}
  BY DEF CompactWrite, BackTo
<1>2. out \in Bytes
  BY <1>1, CompactedIsBytes
<1>3. tmp' \in Bytes
  BY <1>2, CutInTwo DEF CompactWrite
<1>4. CompactInv'
  BY <1>1 DEF CompactWrite, BackTo, Inv, CompactInv
<1> QED BY <1>1, <1>3, <1>4, InvCompacting

LEMMA InvCompactClose == ASSUME Inv, CompactClose PROVE Inv'
<1>1. pc = "close" /\ pc' = "rename" /\ UNCHANGED <<file, bufVars, toldVars>> /\ tmp' = tmp
  BY DEF CompactClose
<1>2. CompactInv' /\ tmp' \in Bytes
  BY <1>1 DEF CompactClose, Inv, CompactInv, TypeInv
<1> QED BY <1>1, <1>2, InvCompacting

\* The compacted file is what was sent from now on, and answers as the log did.
LEMMA InvCompactRename == ASSUME Inv, CompactRename PROVE Inv'
<1>1. pc = "rename" /\ UNCHANGED <<bufVars, told, smeared, synced>> /\ pc' \in {"reopen", "idle"}
  BY DEF CompactRename, BackTo
<1>2. buf' = buf /\ err' = err /\ ~err /\ buf = <<>> /\ <<>> \in Bytes
  BY <1>1, EmptySeq DEF bufVars, Inv, NothingWaits, Bytes
<1>3. /\ out \in Bytes /\ ~Torn(out) /\ \A key : ButForReturns(Get(out, key), Get(file, key))
      /\ tmp = out /\ out \o <<>> = out /\ file \o <<>> = file
  BY <1>1, CompactedIsBytes, ConcatEmptySeq DEF Inv, CompactInv, TypeInv, Bytes
<1>4. file = log
  BY <1>1, <1>2, <1>3 DEF Inv, LosesOnlyTheTail
<1>5. NothingWaits' /\ CompactInv'
  BY <1>1, <1>2 DEF Inv, NothingWaits, CompactInv
<1>6. CASE file' = tmp /\ tmp' = <<>> /\ log' = tmp
  <2>1. IsPrefix(out, out)
    BY <1>2, <1>3, PrefixIs
  <2>2. TypeInv' /\ LosesOnlyTheTail'
    BY <1>1, <1>2, <1>3, <1>6, <2>1 DEF Inv, TypeInv, LosesOnlyTheTail
  <2>3. ASSUME NEW key \in Keys \ smeared PROVE ButForReturns(Get(out, key), told[key])
    <3>1. /\ Get(out, key) \in OneLine /\ Get(file, key) \in OneLine /\ told[key] \in OneLine
          /\ ButForReturns(Get(out, key), Get(file, key))
      BY <1>3, GetIsAValue DEF Inv, TypeInv
    <3>2. ButForReturns(Get(file, key), told[key])
      BY <1>1, <1>2, <1>4 DEF Inv, LogAnswers
    <3> QED BY <3>1, <3>2, ReadsOn
  <2>4. LogAnswers'
    BY <1>1, <1>2, <1>3, <1>6, <2>3 DEF LogAnswers
  <2> QED BY <1>5, <2>2, <2>4 DEF Inv
<1>7. CASE UNCHANGED <<file, tmp, log>>
  <2>1. TypeInv' /\ LosesOnlyTheTail'
    BY <1>1, <1>2, <1>3, <1>4, <1>7 DEF Inv, TypeInv, LosesOnlyTheTail
  <2>2. LogAnswers'
    BY <1>1, <1>2, <1>7 DEF Inv, LogAnswers
  <2> QED BY <1>5, <2>1, <2>2 DEF Inv
<1> QED BY <1>6, <1>7 DEF CompactRename

LEMMA InvCompactReopen == ASSUME Inv, CompactReopen PROVE Inv'
<1>1. /\ pc = "reopen" /\ pc' = "idle"
      /\ UNCHANGED <<file, tmp, log, told, smeared, synced>>
  BY DEF CompactReopen, BackTo, toldVars
<1>2. buf = <<>> /\ ~err
  BY <1>1 DEF Inv, NothingWaits
<1>3. buf' = <<>> /\ err' = FALSE
  BY <1>2 DEF CompactReopen, bufVars, Inv, TypeInv
<1>4. TypeInv' /\ LosesOnlyTheTail'
  BY <1>1, <1>2, <1>3 DEF Inv, TypeInv, LosesOnlyTheTail
<1>5. NothingWaits' /\ CompactInv' /\ LogAnswers'
  BY <1>1, <1>2, <1>3 DEF Inv, NothingWaits, CompactInv, LogAnswers
<1> QED BY <1>4, <1>5 DEF Inv

\* Of a process that died: what it had not written is gone.
LEMMA InvDies ==
  ASSUME Inv, Dies, file' \in Bytes, log' \in Bytes, IsPrefix(file', log'),
         log' = log \/ ~Torn(log')
  PROVE  Inv'
<1>1. /\ pc' = "down" /\ buf' = <<>> /\ err' = FALSE /\ synced' = FALSE
      /\ UNCHANGED <<tmp, told, smeared>> /\ <<>> \in Bytes
  BY EmptySeq DEF Dies, BackTo, Bytes
<1>2. TypeInv' /\ LosesOnlyTheTail'
  BY <1>1 DEF Inv, TypeInv, LosesOnlyTheTail
<1>3. NothingWaits' /\ CompactInv' /\ LogAnswers'
  BY <1>1 DEF Inv, NothingWaits, CompactInv, LogAnswers
<1> QED BY <1>2, <1>3 DEF Inv

LEMMA InvKill == ASSUME Inv, Kill PROVE Inv'
BY InvDies DEF Kill, Inv, TypeInv, LosesOnlyTheTail

LEMMA InvKillInWrite == ASSUME Inv, KillInWrite PROVE Inv'
<1>1. pc = "idle" /\ ~err /\ Dies
  BY DEF KillInWrite
<1>2. CASE Starts(buf) /\ UNCHANGED log
  <2>1. file' \in Bytes /\ IsPrefix(file', log)
    BY <1>1, <1>2, BufferIsSent DEF Inv
  <2> QED BY <1>1, <1>2, <2>1, InvDies DEF Inv, TypeInv
<1>3. ASSUME NEW key \in Keys, NEW value \in Values,
             Starts(Handed(Line(key, value))), log' = log \o Line(key, value)
      PROVE  Inv'
  <2>1. Line(key, value) \in Bytes /\ log' \in Bytes /\ ~Torn(log')
    BY <1>3, Constants, NotTornByALine DEF Inv
  <2>2. file' \in Bytes /\ IsPrefix(file', log')
    BY <1>1, <1>3, <2>1, LineIsSent DEF Inv
  <2> QED BY <1>1, <2>1, <2>2, InvDies
<1> QED BY <1>2, <1>3 DEF KillInWrite

LEMMA InvNext == Inv /\ [Next]_vars => Inv'
<1> SUFFICES ASSUME Inv, [Next]_vars PROVE Inv'
  OBVIOUS
<1>1. ASSUME NEW key \in Keys, NEW value \in Values, Put(key, value) PROVE Inv'
  BY <1>1, InvPut
<1>2. CASE Flush          BY <1>2, InvFlush
<1>3. CASE Close          BY <1>3, InvClose
<1>4. CASE Open           BY <1>4, InvOpen
<1>5. CASE CompactRead    BY <1>5, InvCompactRead
<1>6. CASE CompactCreate  BY <1>6, InvCompactCreate
<1>7. CASE CompactWrite   BY <1>7, InvCompactWrite
<1>8. CASE CompactClose   BY <1>8, InvCompactClose
<1>9. CASE CompactRename  BY <1>9, InvCompactRename
<1>10. CASE CompactReopen BY <1>10, InvCompactReopen
<1>11. CASE Kill          BY <1>11, InvKill
<1>12. CASE KillInWrite   BY <1>12, InvKillInWrite
<1>13. CASE UNCHANGED vars
  BY <1>13 DEF vars, fileVars, bufVars, toldVars, Inv, TypeInv, LosesOnlyTheTail,
               NothingWaits, CompactInv, LogAnswers
<1> QED BY <1>1, <1>2, <1>3, <1>4, <1>5, <1>6, <1>7, <1>8, <1>9, <1>10, <1>11, <1>12,
           <1>13 DEF Next

\* What was sent answers as the client was told, for the keys that no torn line took;
\* what Compact has in hand reads as the file does; and a buffer is never lost by a
\* process that lives.
THEOREM InvHolds == Spec => []Inv
<1> QED BY InvInit, InvNext, PTL DEF Spec

\* However often writes fail and the process dies, the file is a prefix of what was
\* sent, and the rest is in the buffer while no write has failed.
THEOREM OnlyTheTailIsLost == Spec => []LosesOnlyTheTail
<1>1. Inv => LosesOnlyTheTail
  BY DEF Inv
<1> QED BY <1>1, InvHolds, PTL

\* What a flush promised is in the file, for every key whose line is not glued to a
\* torn one: after crashes, failed writes and compactions that failed anywhere.  A
\* value that ends in returns may lack some of these, and no value lacks more.
THEOREM FlushIsKept == Spec => []FlushedIsThere
<1>1. Inv => FlushedIsThere
  <2> SUFFICES ASSUME Inv, synced
               PROVE  \A key \in Keys \ smeared : ButForReturns(Get(file, key), told[key])
    BY DEF FlushedIsThere
  <2>1. pc # "down" /\ ~err /\ buf = <<>>
    BY DEF Inv, NothingWaits
  <2>2. file \o <<>> = file
    BY ConcatEmptySeq DEF Inv, TypeInv, Bytes
  <2>3. file = log
    BY <2>1, <2>2 DEF Inv, LosesOnlyTheTail
  <2> QED BY <2>1, <2>3 DEF Inv, LogAnswers
<1> QED BY <1>1, InvHolds, PTL

\* A value that does not end in a return is read exactly as it was put.
THEOREM FlushIsExact ==
  Spec => [](synced => \A key \in Keys \ smeared :
                         told[key] = <<>> \/ Last(told[key]) # Return => Get(file, key) = told[key])
<1>1. Inv /\ FlushedIsThere =>
        (synced => \A key \in Keys \ smeared :
                     told[key] = <<>> \/ Last(told[key]) # Return => Get(file, key) = told[key])
  <2> SUFFICES ASSUME Inv, FlushedIsThere, synced, NEW key \in Keys \ smeared,
                      told[key] = <<>> \/ Last(told[key]) # Return
               PROVE  Get(file, key) = told[key]
    OBVIOUS
  <2>1. PICK read \in OneLine, value \in OneLine : read = Get(file, key) /\ value = told[key]
    BY GetIsAValue DEF Inv, TypeInv
  <2>2. ButForReturns(read, value)
    BY <2>1 DEF FlushedIsThere
  <2> QED BY <2>1, <2>2, NothingMissing
<1> QED BY <1>1, InvHolds, FlushIsKept, PTL

\* No step of Compact, done, failed or cut short by the death of the process, changes
\* what a reader of the file finds, but for returns at the end of a value.
THEOREM CompactAlwaysKeepsMap == Spec => CompactKeepsMap
<1>1. Inv /\ [Next]_vars =>
        [pc \notin {"down", "idle"} =>
           \A key \in KeysOf(file) \cup KeysOf(file') :
             ButForReturns(Get(file', key), Get(file, key))]_vars
  <2> SUFFICES ASSUME Inv, Next, pc \notin {"down", "idle"}
               PROVE  \A key : ButForReturns(Get(file', key), Get(file, key))
    OBVIOUS
  <2>1. CASE UNCHANGED file
    BY <2>1, GetIsAValue, ReadsItself DEF Inv, TypeInv
  <2>2. CASE CompactRename /\ file' = tmp
    <3>1. pc = "rename" /\ tmp = out
      BY <2>2 DEF CompactRename, Inv, CompactInv
    <3> QED BY <2>2, <3>1, CompactedIsBytes
  <2>3. UNCHANGED file \/ (CompactRename /\ file' = tmp)
    BY DEF Next, Put, Flush, Close, Open, CompactRead, CompactCreate, CompactWrite, CompactClose,
           CompactRename, CompactReopen, Kill, KillInWrite, fileVars
  <2> QED BY <2>1, <2>2, <2>3
<1> QED BY <1>1, InvHolds, PTL DEF Spec, CompactKeepsMap

=============================================================================
