------------------------ MODULE ProcessRunnerProofs --------------------------
(***************************************************************************)
(* What the callers of a program look for in its output is there, and no   *)
(* signal is sent to a process group that may be another's by then.        *)
(***************************************************************************)
EXTENDS ProcessRunner, SequenceTheorems, TLAPS

-----------------------------------------------------------------------------
(***************************************************************************)
(* Windows: the units first..last in the order they were written.          *)
(***************************************************************************)
\* A window is the sequence of its units.
LEMMA WindowIs ==
  ASSUME NEW first \in Nat \ {0}, NEW last \in Nat, first <= last + 1
  PROVE  /\ Window(first, last) \in Seq(Nat)
         /\ Len(Window(first, last)) = last - first + 1
         /\ \A i \in 1..(last - first + 1) : Window(first, last)[i] = first + i - 1
<1> DEFINE n == last - first + 1
           w == Window(first, last)
<1>1. n \in Nat /\ w \in [1..n -> Nat] /\ \A i \in 1..n : w[i] = first + i - 1
  BY DEF Window
<1> HIDE DEF w, n
<1>2. w \in Seq(Nat)
  BY <1>1, SeqDef
<1>3. Len(w) = n
  <2>1. Len(w) \in Nat /\ DOMAIN w = 1..Len(w) /\ DOMAIN w = 1..n
    BY <1>1, <1>2, LenProperties
  <2> QED BY <1>1, <2>1
<1> QED BY <1>1, <1>2, <1>3 DEF w, n

\* A sequence with the units of a window is that window.
LEMMA WindowEqual ==
  ASSUME NEW first \in Nat \ {0}, NEW last \in Nat, first <= last + 1,
         NEW s \in Seq(Nat), Len(s) = last - first + 1,
         \A i \in 1..(last - first + 1) : s[i] = first + i - 1
  PROVE  s = Window(first, last)
<1> DEFINE w == Window(first, last)
<1>1. /\ w \in Seq(Nat) /\ Len(w) = last - first + 1
      /\ \A i \in 1..(last - first + 1) : w[i] = first + i - 1
  BY WindowIs
<1> HIDE DEF w
<1>2. Len(s) = Len(w) /\ \A i \in 1..Len(s) : s[i] = w[i]
  BY <1>1
<1>3. s = w
  BY <1>1, <1>2, SeqEqual
<1> QED BY <1>3 DEF w

\* The window after the last unit is empty.
LEMMA WindowEmpty ==
  ASSUME NEW last \in Nat
  PROVE  Window(last + 1, last) = <<>>
<1>1. Window(last + 1, last) \in Seq(Nat) /\ Len(Window(last + 1, last)) = 0
  BY WindowIs
<1> QED BY <1>1, EmptySeq

\* One unit is a window.
LEMMA WindowOne ==
  ASSUME NEW n \in Nat \ {0}
  PROVE  <<n>> = Window(n, n)
<1> DEFINE s == <<n>>
<1>1. s \in Seq(Nat) /\ Len(s) = 1 /\ s[1] = n
  OBVIOUS
<1> HIDE DEF s
<1> DEFINE w == Window(n, n)
<1>2. n - n + 1 = 1
  OBVIOUS
<1>3. w = [i \in 1..1 |-> n + i - 1]
  BY <1>2 DEF Window
<1>4. w \in [1..1 -> Nat] /\ w[1] = n
  BY <1>3
<1> HIDE DEF w
<1>5. w \in Seq(Nat) /\ Len(w) = 1
  <2>1. w \in Seq(Nat)
    BY <1>4, SeqDef
  <2>2. Len(w) \in Nat /\ DOMAIN w = 1..Len(w) /\ DOMAIN w = 1..1
    BY <1>4, <2>1, LenProperties
  <2>3. 1 \in 1..Len(w)
    BY <2>2
  <2>4. Len(w) \in 1..Len(w)
    BY <2>2, <2>3
  <2>5. Len(w) \in 1..1
    BY <2>2, <2>4
  <2> QED BY <2>1, <2>5
<1>6. s = w
  BY <1>1, <1>4, <1>5, SeqEqual
<1> QED BY <1>6 DEF s, w

\* Two windows, the second from where the first ends.
LEMMA WindowConcat ==
  ASSUME NEW first \in Nat \ {0}, NEW middle \in Nat, NEW last \in Nat,
         first <= middle + 1, middle <= last
  PROVE  Window(first, middle) \o Window(middle + 1, last) = Window(first, last)
<1> DEFINE a == Window(first, middle)
           b == Window(middle + 1, last)
<1>1. /\ a \in Seq(Nat) /\ Len(a) = middle - first + 1
      /\ \A i \in 1..(middle - first + 1) : a[i] = first + i - 1
  BY WindowIs
<1>2. /\ b \in Seq(Nat) /\ Len(b) = last - middle
      /\ \A i \in 1..(last - middle) : b[i] = middle + i
  <2>1. middle + 1 \in Nat \ {0} /\ middle + 1 <= last + 1
        /\ last - (middle + 1) + 1 = last - middle
    OBVIOUS
  <2>2. /\ b \in Seq(Nat) /\ Len(b) = last - (middle + 1) + 1
        /\ \A i \in 1..(last - (middle + 1) + 1) : b[i] = (middle + 1) + i - 1
    BY <2>1, WindowIs
  <2> HIDE DEF b
  <2> QED BY <2>1, <2>2
<1> HIDE DEF a, b
<1>3. /\ a \o b \in Seq(Nat) /\ Len(a \o b) = last - first + 1
      /\ \A i \in 1..(last - first + 1) :
           (a \o b)[i] = IF i <= Len(a) THEN a[i] ELSE b[i - Len(a)]
  <2>1. /\ a \o b \in Seq(Nat) /\ Len(a \o b) = Len(a) + Len(b)
        /\ \A i \in 1..(Len(a) + Len(b)) :
             (a \o b)[i] = IF i <= Len(a) THEN a[i] ELSE b[i - Len(a)]
    BY <1>1, <1>2, ConcatProperties
  <2>2. Len(a) + Len(b) = last - first + 1
    BY <1>1, <1>2
  <2> QED BY <2>1, <2>2
<1>4. ASSUME NEW i \in 1..(last - first + 1)
      PROVE  (a \o b)[i] = first + i - 1
  BY <1>1, <1>2, <1>3
<1>5. a \o b = Window(first, last)
  <2> DEFINE c == a \o b
  <2>1. /\ c \in Seq(Nat) /\ Len(c) = last - first + 1
        /\ \A i \in 1..(last - first + 1) : c[i] = first + i - 1
    BY <1>3, <1>4
  <2> HIDE DEF c
  <2>2. c = Window(first, last)
    BY <2>1, WindowEqual
  <2> QED BY <2>2 DEF c
<1> QED BY <1>5 DEF a, b

\* A part of a window is a window.
LEMMA WindowPart ==
  ASSUME NEW first \in Nat \ {0}, NEW last \in Nat, first <= last + 1,
         NEW i \in Nat \ {0}, NEW j \in 0..(last - first + 1), i <= j + 1
  PROVE  SubSeq(Window(first, last), i, j) = Window(first + i - 1, first + j - 1)
<1> DEFINE w == Window(first, last)
           s == SubSeq(w, i, j)
<1>1. /\ w \in Seq(Nat) /\ Len(w) = last - first + 1
      /\ \A k \in 1..(last - first + 1) : w[k] = first + k - 1
  BY WindowIs
<1> HIDE DEF w
<1>2. \A k \in i..j : w[k] \in Nat
  BY <1>1
<1>3. /\ s \in Seq(Nat) /\ Len(s) = j - i + 1
      /\ \A k \in 1..(j - i + 1) : s[k] = w[i + k - 1]
  BY <1>2, SubSeqProperties
<1> HIDE DEF s
<1>4. \A k \in 1..(j - i + 1) : s[k] = (first + i - 1) + k - 1
  BY <1>1, <1>3
<1>5. s = Window(first + i - 1, first + j - 1)
  <2>1. /\ first + i - 1 \in Nat \ {0} /\ first + j - 1 \in Nat
        /\ first + i - 1 <= (first + j - 1) + 1
        /\ (first + j - 1) - (first + i - 1) + 1 = j - i + 1
    OBVIOUS
  <2> QED BY <1>3, <1>4, <2>1, WindowEqual
<1> QED BY <1>5 DEF s, w

-----------------------------------------------------------------------------
(***************************************************************************)
(* The inductive invariant: the pipe holds the last units written, the     *)
(* output a window of those before them that is chosen by the way the      *)
(* program was called, as long as the units are told apart; a call only    *)
(* returns a result over an empty pipe, and has waited for the program     *)
(* only when it no longer polls.                                           *)
(***************************************************************************)
Unread == Len(pipe)

HasRead == wrote.all - Unread

PipeIsLatest ==
  /\ Unread <= wrote.all
  /\ pipe = Window(HasRead + 1, wrote.all)

FirstOf(n) == IF n > OutputSize THEN n - OutputSize + 1 ELSE 1

OutputIsRead ==
  /\ parent.truncated = (HasRead > OutputSize)
  /\ parent.output = IF call.kind = "with_input"
                     THEN Window(1, Smaller(HasRead, OutputSize))
                     ELSE Window(FirstOf(HasRead), HasRead)

\* Where each way of calling may be, and what has been seen there.
CallPlaces ==
  /\ parent.at \in {"write", "read", "wait"} => call.kind = "with_input"
  /\ parent.at \in {"poll", "signal", "reap", "drain"} => call.kind = "cancellable"
  /\ parent.at \notin {"done"} => parent.code = "NONE"
  /\ parent.at = "wait" => AtEof
  /\ parent.at = "done" /\ parent.code # "ERROR" => pipe = <<>>
  /\ parent.reaped => parent.at \in {"drain", "done"}

InputHeld == input.held <= parent.sent

\* Units are told apart.
Counted == wrote.all < MaxWritten

RunnerInv ==
  /\ TypeOK /\ CallPlaces /\ InputHeld
  /\ Counted => PipeIsLatest /\ OutputIsRead
  /\ wrote.atEnd <= wrote.all

\* What the steps may count on of the constants.
LEMMA Sizes ==
  /\ PipeSize \in Nat \ {0} /\ OutputSize \in Nat \ {0} /\ ReadSize \in Nat \ {0}
  /\ Grace \in Nat \ {0} /\ InputSize \in Nat /\ MaxWritten \in Nat \ {0}
BY RunnerAssumption

\* A chunk taken from the pipe, and what is left in it.
LEMMA ChunkTaken ==
  ASSUME RunnerInv, Counted, NEW take \in 0..Unread
  PROVE  /\ SubSeq(pipe, 1, take) = Window(HasRead + 1, HasRead + take)
         /\ SubSeq(pipe, take + 1, Unread) = Window(HasRead + take + 1, wrote.all)
         /\ Len(SubSeq(pipe, take + 1, Unread)) = Unread - take
         /\ HasRead \in Nat /\ Unread \in Nat /\ wrote.all \in Nat
         /\ HasRead + take <= wrote.all
<1>1. Unread \in Nat /\ wrote.all \in Nat /\ Unread <= wrote.all
  BY LenProperties, Sizes DEF RunnerInv, TypeOK, Unread, PipeIsLatest
<1>2. HasRead \in Nat /\ HasRead + Unread = wrote.all
  BY <1>1 DEF HasRead
<1>3. pipe = Window(HasRead + 1, wrote.all)
  BY DEF RunnerInv, PipeIsLatest
<1> HIDE DEF Unread, HasRead
<1>4. SubSeq(pipe, 1, take) = Window(HasRead + 1, HasRead + take)
  <2>1. (HasRead + 1) + 1 - 1 = HasRead + 1 /\ (HasRead + 1) + take - 1 = HasRead + take
        /\ take \in 0..(wrote.all - (HasRead + 1) + 1)
    BY <1>1, <1>2
  <2>2. SubSeq(Window(HasRead + 1, wrote.all), 1, take)
          = Window((HasRead + 1) + 1 - 1, (HasRead + 1) + take - 1)
    <3> DEFINE from == HasRead + 1
    <3>1. /\ from \in Nat \ {0} /\ from <= wrote.all + 1
          /\ take \in 0..(wrote.all - from + 1) /\ 1 \in Nat \ {0} /\ 1 <= take + 1
      BY <1>1, <1>2
    <3> HIDE DEF from
    <3>2. SubSeq(Window(from, wrote.all), 1, take)
            = Window(from + 1 - 1, from + take - 1)
      BY <1>1, <3>1, WindowPart
    <3> QED BY <3>2 DEF from
  <2> QED BY <1>3, <2>1, <2>2
<1>5. SubSeq(pipe, take + 1, Unread) = Window(HasRead + take + 1, wrote.all)
  <2>1. /\ (HasRead + 1) + (take + 1) - 1 = HasRead + take + 1
        /\ (HasRead + 1) + Unread - 1 = wrote.all
        /\ Unread \in 0..(wrote.all - (HasRead + 1) + 1)
    BY <1>1, <1>2
  <2>2. SubSeq(Window(HasRead + 1, wrote.all), take + 1, Unread)
          = Window((HasRead + 1) + (take + 1) - 1, (HasRead + 1) + Unread - 1)
    <3> DEFINE from == HasRead + 1
               next == take + 1
    <3>1. /\ from \in Nat \ {0} /\ from <= wrote.all + 1
          /\ next \in Nat \ {0} /\ next <= Unread + 1
          /\ Unread \in 0..(wrote.all - from + 1)
      BY <1>1, <1>2
    <3> HIDE DEF from, next
    <3>2. SubSeq(Window(from, wrote.all), next, Unread)
            = Window(from + next - 1, from + Unread - 1)
      BY <1>1, <3>1, WindowPart
    <3> QED BY <3>2 DEF from, next
  <2> QED BY <1>3, <2>1, <2>2
<1>6. Len(Window(HasRead + take + 1, wrote.all)) = Unread - take
  <2>1. /\ HasRead + take + 1 \in Nat \ {0}
        /\ HasRead + take + 1 <= wrote.all + 1
        /\ wrote.all - (HasRead + take + 1) + 1 = Unread - take
    BY <1>1, <1>2
  <2>2. Len(Window(HasRead + take + 1, wrote.all)) = wrote.all - (HasRead + take + 1) + 1
    BY <1>1, <2>1, WindowIs
  <2> QED BY <2>1, <2>2
<1> QED BY <1>1, <1>2, <1>4, <1>5, <1>6

\* What gives way when `take` units are added to the last of r units.
LEMMA LatestUnits ==
  ASSUME NEW r \in Nat, NEW take \in Nat
  PROVE  /\ FirstOf(r) \in Nat \ {0} /\ FirstOf(r) <= r + 1
         /\ IF (r + take) - FirstOf(r) + 1 > OutputSize
            THEN /\ r + take > OutputSize
                 /\ FirstOf(r + take) = (r + take) - OutputSize + 1
            ELSE /\ FirstOf(r + take) = FirstOf(r)
                 /\ r > OutputSize <=> r + take > OutputSize
<1> DEFINE last == r + take
<1>1. last \in Nat /\ r <= last
  OBVIOUS
<1> HIDE DEF last
<1>2. CASE r > OutputSize
  <2>1. FirstOf(r) = r - OutputSize + 1 /\ FirstOf(last) = last - OutputSize + 1
        /\ last > OutputSize
    BY <1>1, <1>2, Sizes DEF FirstOf
  <2>2. last - FirstOf(r) + 1 > OutputSize \/ last = r
    BY <1>1, <1>2, <2>1, Sizes
  <2> QED BY <1>1, <1>2, <2>1, <2>2, Sizes DEF last
<1>3. CASE ~(r > OutputSize)
  <2>1. FirstOf(r) = 1 /\ last - FirstOf(r) + 1 = last
    BY <1>1, <1>3 DEF FirstOf
  <2>2. FirstOf(last) = IF last > OutputSize THEN last - OutputSize + 1 ELSE 1
    BY DEF FirstOf
  <2> QED BY <1>1, <1>3, <2>1, <2>2, Sizes DEF last
<1> QED BY <1>2, <1>3

\* What append_available_output discards of a buffer with a chunk appended.
Discarded(whole) ==
  IF Len(whole) > OutputSize THEN Len(whole) - OutputSize ELSE 0

Appended(r, take) == Window(FirstOf(r), r) \o Window(r + 1, r + take)

\* append_available_output keeps the window of the last units.
LEMMA KeptIsLatest ==
  ASSUME NEW r \in Nat, NEW take \in Nat
  PROVE  /\ SubSeq(Appended(r, take), Discarded(Appended(r, take)) + 1,
                   Len(Appended(r, take)))
              = Window(FirstOf(r + take), r + take)
         /\ (r > OutputSize) \/ Discarded(Appended(r, take)) > 0
              <=> r + take > OutputSize
<1> DEFINE first == FirstOf(r)
           last == r + take
           whole == Appended(r, take)
           n == last - first + 1
           discard == Discarded(whole)
<1>1. first \in Nat \ {0} /\ first <= r + 1 /\ last \in Nat /\ r <= last
      /\ first <= last + 1 /\ n \in Nat
  <2>1. first \in Nat \ {0} /\ first <= r + 1
    BY LatestUnits
  <2> HIDE DEF first
  <2> QED BY <2>1
<1>2. IF n > OutputSize
      THEN last > OutputSize /\ FirstOf(last) = last - OutputSize + 1
      ELSE FirstOf(last) = first /\ (r > OutputSize <=> last > OutputSize)
  BY LatestUnits
<1> HIDE DEF first
<1>3. whole = Window(first, last)
  <2>1. whole = Window(first, r) \o Window(r + 1, last)
    BY DEF Appended, first
  <2> HIDE DEF last, whole
  <2> QED BY <1>1, <2>1, WindowConcat
<1> HIDE DEF last, whole
<1>4. Len(whole) = n
  <2>1. Len(Window(first, last)) = last - first + 1
    BY <1>1, WindowIs
  <2> QED BY <1>3, <2>1
<1>5. discard = IF n > OutputSize THEN n - OutputSize ELSE 0
  BY <1>4 DEF Discarded
<1> HIDE DEF discard
<1>6. n = last - first + 1
  OBVIOUS
<1> HIDE DEF n
<1>7. /\ discard \in Nat /\ discard <= n /\ first + discard = FirstOf(last)
      /\ (r > OutputSize) \/ discard > 0 <=> last > OutputSize
  <2>1. CASE n > OutputSize
    <3>1. discard = n - OutputSize /\ FirstOf(last) = last - OutputSize + 1
          /\ last > OutputSize
      BY <1>2, <1>5, <2>1
    <3> QED BY <1>1, <1>6, <2>1, <3>1, Sizes
  <2>2. CASE ~(n > OutputSize)
    BY <1>1, <1>2, <1>5, <2>2
  <2> QED BY <2>1, <2>2
<1>8. SubSeq(whole, discard + 1, n) = Window(FirstOf(last), last)
  <2> DEFINE next == discard + 1
  <2>1. next \in Nat \ {0} /\ n \in 0..(last - first + 1) /\ next <= n + 1
    BY <1>1, <1>6, <1>7
  <2>2. first + next - 1 = FirstOf(last) /\ first + n - 1 = last
    BY <1>1, <1>6, <1>7
  <2> HIDE DEF next
  <2>3. SubSeq(Window(first, last), next, n) = Window(first + next - 1, first + n - 1)
    BY <1>1, <2>1, WindowPart
  <2>4. SubSeq(whole, next, n) = Window(FirstOf(last), last)
    BY <1>3, <2>2, <2>3
  <2> QED BY <2>4 DEF next
<1>9. SubSeq(whole, discard + 1, Len(whole)) = Window(FirstOf(last), last)
  BY <1>4, <1>8
<1> QED BY <1>7, <1>9 DEF discard, whole, last

\* A step that leaves pipe and output alone keeps what is known of them.
LEMMA DataKept ==
  ASSUME RunnerInv, UNCHANGED pipe, call'.kind = call.kind, wrote'.all = wrote.all,
         parent'.output = parent.output, parent'.truncated = parent.truncated
  PROVE  Counted' => PipeIsLatest' /\ OutputIsRead'
BY DEF RunnerInv, Counted, PipeIsLatest, OutputIsRead, HasRead, Unread

\* The types of the records.
Parents ==
  [at : {"start", "write", "read", "wait", "poll", "signal", "reap", "drain", "done"},
   sent : 0..InputSize, failed : BOOLEAN, output : Seq(Units), truncated : BOOLEAN,
   termed : BOOLEAN, killed : BOOLEAN, polls : 0..Grace, reaped : BOOLEAN,
   code : {"NONE", "ERROR", "OK", "CANCELLED"}]

Processes == [Members -> [runs : BOOLEAN, holds : BOOLEAN]]

\* The parts of TypeOK the steps need.
LEMMA TypeOKIs ==
  ASSUME TypeOK
  PROVE  /\ parent \in Parents /\ Len(parent.output) <= OutputSize
         /\ input \in [held : 0..InputSize, open : BOOLEAN]
         /\ pipe \in Seq(Units) /\ Len(pipe) <= PipeSize
         /\ procs \in Processes
         /\ wrote \in [all : 0..MaxWritten, atEnd : 0..MaxWritten]
BY DEF TypeOK, Parents, Processes

\* A step of the parent that reads nothing.
LEMMA ParentMoves ==
  ASSUME RunnerInv, UNCHANGED <<call, cancel, pipe, wrote>>,
         parent' \in Parents, parent'.output = parent.output,
         parent'.truncated = parent.truncated,
         input' \in [held : 0..InputSize, open : BOOLEAN],
         input'.held <= parent'.sent, procs' \in Processes, CallPlaces'
  PROVE  RunnerInv'
<1>1. TypeOK'
  BY TypeOKIs DEF RunnerInv, TypeOK, Parents, Processes
<1>2. Counted' => PipeIsLatest' /\ OutputIsRead'
  BY DataKept
<1>3. InputHeld' /\ wrote'.atEnd <= wrote'.all
  BY DEF RunnerInv, InputHeld
<1> QED BY <1>1, <1>2, <1>3 DEF RunnerInv

\* A step of the program that writes nothing.
LEMMA ProgramMoves ==
  ASSUME RunnerInv, UNCHANGED <<call, parent, pipe>>, cancel' \in BOOLEAN,
         input' \in [held : 0..InputSize, open : BOOLEAN],
         input'.held <= input.held, procs' \in Processes,
         \A m \in Members : procs'[m].holds => procs[m].holds,
         wrote' \in [all : 0..MaxWritten, atEnd : 0..MaxWritten],
         wrote'.all = wrote.all, wrote'.atEnd <= wrote'.all
  PROVE  RunnerInv'
<1>1. TypeOK'
  BY TypeOKIs DEF RunnerInv, TypeOK, Parents, Processes
<1>2. Counted' => PipeIsLatest' /\ OutputIsRead'
  BY DataKept
<1>3. CallPlaces'
  BY DEF RunnerInv, CallPlaces, AtEof
<1>4. InputHeld'
  BY TypeOKIs DEF RunnerInv, InputHeld, Parents
<1> QED BY <1>1, <1>2, <1>3, <1>4 DEF RunnerInv

-----------------------------------------------------------------------------
\* A part of a sequence of units.
LEMMA UnitsPart ==
  ASSUME NEW s \in Seq(Units), NEW i \in 1..(Len(s) + 1), NEW j \in 0..Len(s)
  PROVE  /\ SubSeq(s, i, j) \in Seq(Units)
         /\ Len(SubSeq(s, i, j)) = IF i <= j THEN j - i + 1 ELSE 0
<1>1. Len(s) \in Nat
  BY LenProperties
<1>2. \A k \in i..j : s[k] \in Units
  BY <1>1, ElementOfSeq
<1> QED BY <1>1, <1>2, SubSeqProperties

\* A chunk of the pipe and what is left in it.
LEMMA ChunkTypes ==
  ASSUME RunnerInv, NEW take \in 0..Unread
  PROVE  /\ SubSeq(pipe, 1, take) \in Seq(Units)
         /\ Len(SubSeq(pipe, 1, take)) = take
         /\ SubSeq(pipe, take + 1, Unread) \in Seq(Units)
         /\ Len(SubSeq(pipe, take + 1, Unread)) = Unread - take
         /\ Unread \in Nat /\ Unread <= PipeSize
<1>1. pipe \in Seq(Units) /\ Unread \in Nat /\ Unread = Len(pipe) /\ Unread <= PipeSize
  BY TypeOKIs, LenProperties DEF RunnerInv, Unread
<1> HIDE DEF Unread
<1> DEFINE next == take + 1
<1>2. /\ 1 \in 1..(Unread + 1) /\ next \in 1..(Unread + 1)
      /\ take \in 0..Unread /\ Unread \in 0..Unread
  BY <1>1
<1> HIDE DEF next
<1>3. /\ SubSeq(pipe, 1, take) \in Seq(Units)
      /\ Len(SubSeq(pipe, 1, take)) = IF 1 <= take THEN take - 1 + 1 ELSE 0
  BY <1>1, <1>2, UnitsPart
<1>4. /\ SubSeq(pipe, next, Unread) \in Seq(Units)
      /\ Len(SubSeq(pipe, next, Unread)) = IF next <= Unread THEN Unread - next + 1 ELSE 0
  BY <1>1, <1>2, UnitsPart
<1>5. /\ (IF 1 <= take THEN take - 1 + 1 ELSE 0) = take
      /\ (IF next <= Unread THEN Unread - next + 1 ELSE 0) = Unread - take
  BY <1>1 DEF next
<1> QED BY <1>1, <1>3, <1>4, <1>5 DEF next

\* What a chunk read by polling makes of the output.
LatestTaken(take) ==
  LET whole == parent.output \o SubSeq(pipe, 1, take)
  IN  SubSeq(whole, Discarded(whole) + 1, Len(whole))

Outgrown(take) == Discarded(parent.output \o SubSeq(pipe, 1, take)) > 0

\* The last units of what was read and of the chunk.
LEMMA TakesLatest ==
  ASSUME RunnerInv, Counted, call.kind = "cancellable", NEW take \in 0..Unread
  PROVE  /\ LatestTaken(take) = Window(FirstOf(HasRead + take), HasRead + take)
         /\ (parent.truncated \/ Outgrown(take)) = (HasRead + take > OutputSize)
<1> DEFINE whole == parent.output \o SubSeq(pipe, 1, take)
<1>1. /\ SubSeq(pipe, 1, take) = Window(HasRead + 1, HasRead + take)
      /\ HasRead \in Nat /\ take \in Nat
  <2>1. Unread \in Nat
    BY ChunkTypes
  <2> QED BY <2>1, ChunkTaken
<1>2. parent.output = Window(FirstOf(HasRead), HasRead)
      /\ parent.truncated = (HasRead > OutputSize)
  BY DEF RunnerInv, OutputIsRead
<1>3. whole = Appended(HasRead, take)
  BY <1>1, <1>2 DEF Appended
<1> DEFINE cut == Discarded(whole) > 0
           before == HasRead > OutputSize
           after == HasRead + take > OutputSize
<1>4. LatestTaken(take) = SubSeq(whole, Discarded(whole) + 1, Len(whole))
      /\ Outgrown(take) = cut
  BY DEF LatestTaken, Outgrown
<1> HIDE DEF whole, HasRead
<1>5. /\ SubSeq(whole, Discarded(whole) + 1, Len(whole))
           = Window(FirstOf(HasRead + take), HasRead + take)
      /\ before \/ cut <=> after
  BY <1>1, <1>3, KeptIsLatest
<1>6. before \in BOOLEAN /\ after \in BOOLEAN /\ cut \in BOOLEAN
      /\ parent.truncated = before
  BY <1>2
<1> HIDE DEF before, after, cut
<1>7. (parent.truncated \/ cut) = after
  <2>1. CASE after
    BY <1>5, <1>6, <2>1
  <2>2. CASE ~after
    BY <1>5, <1>6, <2>2
  <2> QED BY <1>6, <2>1, <2>2
<1> QED BY <1>4, <1>5, <1>7 DEF after

\* The output stays within its buffer.
LEMMA TakesTypes ==
  ASSUME RunnerInv, NEW take \in 0..Unread
  PROVE  LatestTaken(take) \in Seq(Units) /\ Len(LatestTaken(take)) <= OutputSize
<1> DEFINE chunk == SubSeq(pipe, 1, take)
           whole == parent.output \o chunk
           discard == Discarded(whole)
<1>1. chunk \in Seq(Units) /\ parent.output \in Seq(Units)
  BY ChunkTypes, TypeOKIs DEF RunnerInv, Parents
<1> HIDE DEF chunk
<1>2. whole \in Seq(Units)
  BY <1>1, ConcatProperties
<1>3. LatestTaken(take) = SubSeq(whole, discard + 1, Len(whole))
  BY DEF LatestTaken, chunk
<1> HIDE DEF whole
<1>4. Len(whole) \in Nat
  BY <1>2, LenProperties
<1>5. /\ discard + 1 \in 1..(Len(whole) + 1) /\ Len(whole) \in 0..Len(whole)
      /\ Len(whole) - (discard + 1) + 1 <= OutputSize
  BY <1>4, Sizes DEF Discarded
<1> DEFINE next == discard + 1
<1> HIDE DEF discard, next
<1>6. /\ SubSeq(whole, next, Len(whole)) \in Seq(Units)
      /\ Len(SubSeq(whole, next, Len(whole)))
           = IF next <= Len(whole) THEN Len(whole) - next + 1 ELSE 0
  BY <1>2, <1>5, UnitsPart DEF next
<1> QED BY <1>3, <1>5, <1>6, Sizes DEF next

\* A chunk is read by polling: the oldest output gives way.
LEMMA TakesInv ==
  ASSUME RunnerInv, call.kind = "cancellable", NEW to \in {"signal", "drain"},
         Takes(parent, to), UNCHANGED <<call, cancel, input, procs, wrote>>,
         (parent.at = "poll" /\ to = "signal") \/ (parent.at = "drain" /\ to = "drain")
  PROVE  RunnerInv'
<1> DEFINE take == Smaller(ReadSize, Unread)
           kept == LatestTaken(take)
           cut == parent.truncated \/ Outgrown(take)
           rest == SubSeq(pipe, take + 1, Unread)
<1>1. /\ parent \in Parents /\ Unread \in Nat /\ Unread <= PipeSize
      /\ wrote \in [all : 0..MaxWritten, atEnd : 0..MaxWritten]
  BY TypeOKIs, LenProperties DEF RunnerInv, Unread
<1>2. take \in 0..Unread
  BY <1>1, Sizes DEF Smaller
<1>3. rest \in Seq(Units) /\ Len(rest) = Unread - take
  BY <1>2, ChunkTypes
<1>4. kept \in Seq(Units) /\ Len(kept) <= OutputSize
  BY <1>2, TakesTypes
<1>5. Counted => /\ kept = Window(FirstOf(HasRead + take), HasRead + take)
                 /\ cut = (HasRead + take > OutputSize)
                 /\ rest = Window(HasRead + take + 1, wrote.all)
                 /\ HasRead \in Nat /\ HasRead + take <= wrote.all
  BY <1>2, TakesLatest, ChunkTaken
<1>6. pipe' = rest
  BY DEF Takes, Unread
<1>7. parent' = [[parent EXCEPT !.output = kept, !.truncated = cut] EXCEPT !.at = to]
  BY DEF Takes, Kept, Unread, LatestTaken, Outgrown, Discarded
<1>8. cut \in BOOLEAN
  OBVIOUS
<1> HIDE DEF take, kept, cut, rest
<1>9. /\ parent' \in Parents /\ parent'.output = kept /\ parent'.at = to
      /\ parent'.truncated = cut
      /\ parent'.sent = parent.sent /\ parent'.code = parent.code
      /\ parent'.reaped = parent.reaped
  <2> DEFINE held == [parent EXCEPT !.output = kept, !.truncated = cut]
  <2>1. /\ held \in Parents /\ held.output = kept /\ held.truncated = cut
        /\ held.sent = parent.sent /\ held.code = parent.code
        /\ held.reaped = parent.reaped
    BY <1>1, <1>4, <1>8 DEF Parents
  <2>2. parent' = [held EXCEPT !.at = to]
    BY <1>7
  <2> HIDE DEF held
  <2> QED BY <2>1, <2>2 DEF Parents
<1>10. ASSUME Counted'
       PROVE  PipeIsLatest' /\ OutputIsRead'
  <2>1. Counted
    BY <1>10 DEF Counted
  <2>2. Unread' = Unread - take /\ wrote' = wrote
    BY <1>3, <1>6 DEF Unread
  <2>3. HasRead' = HasRead + take
    <3>1. HasRead' = wrote.all - Unread' /\ HasRead = wrote.all - Unread
      BY <2>2 DEF HasRead
    <3> HIDE DEF Unread, HasRead
    <3> QED BY <1>1, <1>2, <2>2, <3>1
  <2>4. Unread' <= wrote'.all
    <3> HIDE DEF Unread, HasRead
    <3>1. Unread <= wrote.all
      BY <2>1 DEF RunnerInv, PipeIsLatest
    <3> QED BY <1>1, <1>2, <2>2, <3>1
  <2>5. PipeIsLatest'
    BY <1>5, <1>6, <2>1, <2>2, <2>3, <2>4 DEF PipeIsLatest
  <2>6. OutputIsRead'
    BY <1>5, <1>9, <2>1, <2>3 DEF OutputIsRead
  <2> QED BY <2>5, <2>6
<1>11. TypeOK'
  <2>1. Len(pipe') <= PipeSize
    <3> HIDE DEF Unread
    <3> QED BY <1>1, <1>2, <1>3, <1>6, Sizes
  <2> QED BY <1>3, <1>4, <1>6, <1>9, <2>1 DEF RunnerInv, TypeOK, Parents
<1>12. CallPlaces' /\ InputHeld' /\ wrote'.atEnd <= wrote'.all
  BY <1>9 DEF RunnerInv, CallPlaces, InputHeld
<1> QED BY <1>10, <1>11, <1>12 DEF RunnerInv

\* The output of a run with input is as long as what was read, up to the size.
LEMMA FirstOutput ==
  ASSUME RunnerInv, Counted, call.kind = "with_input"
  PROVE  /\ HasRead \in Nat /\ parent.output = Window(1, Smaller(HasRead, OutputSize))
         /\ Len(parent.output) = Smaller(HasRead, OutputSize)
         /\ parent.truncated = (HasRead > OutputSize)
<1>1. HasRead \in Nat
  <2>1. 0 \in 0..Unread
    BY TypeOKIs, LenProperties DEF RunnerInv, Unread
  <2> QED BY <2>1, ChunkTaken
<1>2. /\ parent.output = Window(1, Smaller(HasRead, OutputSize))
      /\ parent.truncated = (HasRead > OutputSize)
  BY DEF RunnerInv, OutputIsRead
<1> DEFINE n == Smaller(HasRead, OutputSize)
<1>3. n \in Nat /\ 1 <= n + 1 /\ n - 1 + 1 = n
  <2> HIDE DEF HasRead
  <2> QED BY <1>1, Sizes DEF Smaller
<1> HIDE DEF n, HasRead
<1>4. Len(Window(1, n)) = n - 1 + 1
  BY <1>3, WindowIs
<1> QED BY <1>1, <1>2, <1>3, <1>4 DEF n

\* The first units of what was read and of a chunk there is room for.
LEMMA ReadFirst ==
  ASSUME RunnerInv, Counted, call.kind = "with_input", OutputSize - Len(parent.output) > 0,
         NEW take \in 0..Unread, take <= OutputSize - Len(parent.output)
  PROVE  /\ parent.output \o SubSeq(pipe, 1, take) = Window(1, HasRead + take)
         /\ parent.truncated = FALSE
         /\ HasRead \in Nat /\ HasRead + take <= OutputSize
<1>1. /\ HasRead \in Nat /\ HasRead < OutputSize
      /\ parent.output = Window(1, HasRead) /\ Len(parent.output) = HasRead
      /\ parent.truncated = FALSE
  <2>1. /\ HasRead \in Nat /\ parent.output = Window(1, Smaller(HasRead, OutputSize))
        /\ Len(parent.output) = Smaller(HasRead, OutputSize)
        /\ parent.truncated = (HasRead > OutputSize)
    BY FirstOutput
  <2> HIDE DEF HasRead
  <2>2. HasRead < OutputSize /\ Smaller(HasRead, OutputSize) = HasRead
    BY <2>1, Sizes DEF Smaller
  <2> DEFINE over == HasRead > OutputSize
  <2>3. over \in BOOLEAN /\ ~over /\ parent.truncated = over
    BY <2>1, <2>2, Sizes
  <2> HIDE DEF over
  <2>4. parent.truncated = FALSE
    BY <2>3
  <2> QED BY <2>1, <2>2, <2>4
<1>2. SubSeq(pipe, 1, take) = Window(HasRead + 1, HasRead + take) /\ Unread \in Nat
  BY ChunkTaken
<1> DEFINE last == HasRead + take
           first == 1
           output == parent.output \o SubSeq(pipe, 1, take)
<1>3. /\ first \in Nat \ {0} /\ last \in Nat /\ HasRead <= last /\ first <= HasRead + 1
      /\ last <= OutputSize
  <2> HIDE DEF HasRead, Unread
  <2> QED BY <1>1, <1>2, Sizes
<1>4. output = Window(first, HasRead) \o Window(HasRead + 1, last)
  BY <1>1, <1>2
<1> HIDE DEF first, last, output, HasRead
<1>5. output = Window(first, last)
  BY <1>1, <1>3, <1>4, WindowConcat
<1> QED BY <1>1, <1>3, <1>5 DEF first, last, output

\* A chunk is read with input: there is room for it.
LEMMA ReadInv ==
  ASSUME RunnerInv, parent.at = "read",
         UNCHANGED <<call, cancel, input, procs, wrote>>,
         NEW room, room = OutputSize - Len(parent.output), room > 0,
         NEW take, take = Smaller(room, Unread),
         parent' = [parent EXCEPT !.output = @ \o SubSeq(pipe, 1, take)],
         pipe' = SubSeq(pipe, take + 1, Unread)
  PROVE  RunnerInv'
<1> DEFINE chunk == SubSeq(pipe, 1, take)
           output == parent.output \o chunk
           rest == SubSeq(pipe, take + 1, Unread)
<1>1. /\ parent \in Parents /\ Unread \in Nat /\ Unread <= PipeSize
      /\ wrote \in [all : 0..MaxWritten, atEnd : 0..MaxWritten]
      /\ call.kind = "with_input" /\ Len(parent.output) \in Nat
  BY TypeOKIs, LenProperties DEF RunnerInv, Unread, CallPlaces, Parents
<1>2. take \in 0..Unread /\ take <= room /\ room \in Nat
  <2> HIDE DEF Unread
  <2>1. room \in Nat /\ Unread \in Nat
    <3> DEFINE n == Len(parent.output)
    <3>1. n \in Nat /\ OutputSize \in Nat /\ room = OutputSize - n
      BY <1>1, Sizes
    <3> HIDE DEF n
    <3>2. room \in Nat
      BY <3>1
    <3> QED BY <1>1, <3>2
  <2>2. take = IF room < Unread THEN room ELSE Unread
    BY DEF Smaller
  <2> QED BY <2>1, <2>2
<1>3. /\ chunk \in Seq(Units) /\ Len(chunk) = take
      /\ rest \in Seq(Units) /\ Len(rest) = Unread - take
  BY <1>2, ChunkTypes
<1>4. Counted => /\ output = Window(1, HasRead + take) /\ parent.truncated = FALSE
                 /\ HasRead \in Nat /\ HasRead + take <= OutputSize
                 /\ rest = Window(HasRead + take + 1, wrote.all)
  BY <1>1, <1>2, ReadFirst, ChunkTaken
<1>5. parent' = [parent EXCEPT !.output = output] /\ pipe' = rest
  OBVIOUS
<1> HIDE DEF chunk
<1>6. output \in Seq(Units) /\ Len(output) <= OutputSize
  <2>1. parent.output \in Seq(Units)
    BY <1>1 DEF Parents
  <2>2. /\ output \in Seq(Units)
        /\ Len(output) = Len(parent.output) + Len(chunk)
    BY <1>3, <2>1, ConcatProperties
  <2>3. Len(parent.output) + take <= OutputSize
    <3> DEFINE n == Len(parent.output)
    <3>1. n \in Nat /\ OutputSize \in Nat /\ room = OutputSize - n
      BY <1>1, Sizes
    <3>2. take \in Nat /\ take <= room
      BY <1>1, <1>2
    <3> HIDE DEF n
    <3>3. n + take <= OutputSize
      BY <3>1, <3>2
    <3> QED BY <3>3 DEF n
  <2> HIDE DEF output
  <2> QED BY <1>3, <2>2, <2>3
<1> HIDE DEF output, rest
<1>7. /\ parent' \in Parents /\ parent'.output = output /\ parent'.at = "read"
      /\ parent'.truncated = parent.truncated /\ parent'.sent = parent.sent
      /\ parent'.code = parent.code /\ parent'.reaped = parent.reaped
  BY <1>1, <1>5, <1>6 DEF Parents
<1>8. ASSUME Counted'
      PROVE  PipeIsLatest' /\ OutputIsRead'
  <2>1. Counted
    BY <1>8 DEF Counted
  <2>2. Unread' = Unread - take /\ wrote' = wrote
    BY <1>3, <1>5 DEF Unread
  <2>3. HasRead' = HasRead + take
    <3>1. HasRead' = wrote.all - Unread' /\ HasRead = wrote.all - Unread
      BY <2>2 DEF HasRead
    <3> HIDE DEF Unread, HasRead
    <3> QED BY <1>1, <1>2, <2>2, <3>1
  <2>4. Unread' <= wrote'.all
    <3> HIDE DEF Unread, HasRead
    <3>1. Unread <= wrote.all
      BY <2>1 DEF RunnerInv, PipeIsLatest
    <3> QED BY <1>1, <1>2, <2>2, <3>1
  <2>5. PipeIsLatest'
    BY <1>4, <1>5, <2>1, <2>2, <2>3, <2>4 DEF PipeIsLatest
  <2> DEFINE n == HasRead + take
  <2>6. n \in Nat /\ n <= OutputSize /\ output = Window(1, n) /\ HasRead' = n
        /\ parent.truncated = FALSE
    <3>1. output = Window(1, n) /\ parent.truncated = FALSE /\ n <= OutputSize
      BY <1>4, <2>1
    <3>2. HasRead' = n
      BY <2>3
    <3>3. HasRead \in Nat /\ take \in Nat
      BY <1>2, <1>4, <2>1
    <3> HIDE DEF HasRead
    <3>4. n \in Nat
      BY <3>3
    <3> QED BY <3>1, <3>2, <3>4
  <2> HIDE DEF n, HasRead
  <2>7. Smaller(n, OutputSize) = n /\ (n > OutputSize) = FALSE
    <3>1. n < OutputSize \/ n = OutputSize
      BY <2>6, Sizes
    <3> QED BY <2>6, <3>1, Sizes DEF Smaller
  <2>8. parent'.output = Window(1, Smaller(n, OutputSize))
        /\ parent'.truncated = (n > OutputSize)
    BY <1>7, <2>6, <2>7
  <2>9. OutputIsRead'
    BY <1>1, <2>6, <2>8 DEF OutputIsRead
  <2> QED BY <2>5, <2>9
<1>9. TypeOK'
  <2>1. Len(pipe') <= PipeSize
    <3>1. Len(pipe') = Unread - take
      BY <1>3, <1>5
    <3> HIDE DEF Unread
    <3>2. take \in Nat /\ Unread - take <= PipeSize
      BY <1>1, <1>2, Sizes
    <3> QED BY <3>1, <3>2
  <2> QED BY <1>3, <1>5, <1>6, <1>7, <2>1 DEF RunnerInv, TypeOK, Parents
<1>10. CallPlaces' /\ InputHeld' /\ wrote'.atEnd <= wrote'.all
  BY <1>7 DEF RunnerInv, CallPlaces, InputHeld
<1> QED BY <1>8, <1>9, <1>10 DEF RunnerInv

\* What there is no room for is discarded, and that it is is noted.
LEMMA DiscardInv ==
  ASSUME RunnerInv, parent.at = "read", pipe # <<>>,
         UNCHANGED <<call, cancel, input, procs, wrote>>,
         OutputSize - Len(parent.output) = 0,
         parent' = [parent EXCEPT !.truncated = TRUE], pipe' = <<>>
  PROVE  RunnerInv'
<1>1. /\ parent \in Parents /\ pipe \in Seq(Units) /\ Unread \in Nat
      /\ call.kind = "with_input"
  BY TypeOKIs, LenProperties DEF RunnerInv, Unread, CallPlaces
<1>2. Unread > 0
  BY <1>1, EmptySeq DEF Unread
<1>3. /\ parent' \in Parents /\ parent'.output = parent.output /\ parent'.at = "read"
      /\ parent'.truncated = TRUE /\ parent'.sent = parent.sent
      /\ parent'.code = parent.code /\ parent'.reaped = parent.reaped
  BY <1>1 DEF Parents
<1>4. ASSUME Counted'
      PROVE  PipeIsLatest' /\ OutputIsRead'
  <2>1. Counted
    BY <1>4 DEF Counted
  <2>2. wrote.all \in Nat /\ HasRead + Unread = wrote.all
    <3>1. 0 \in 0..Unread
      BY <1>1
    <3>2. HasRead \in Nat /\ wrote.all \in Nat
      BY <2>1, <3>1, ChunkTaken
    <3>3. HasRead = wrote.all - Unread
      BY DEF HasRead
    <3> HIDE DEF HasRead, Unread
    <3> QED BY <1>1, <3>2, <3>3
  <2>3. HasRead \in Nat /\ HasRead >= OutputSize /\ parent.output = Window(1, OutputSize)
    <3>1. /\ HasRead \in Nat /\ parent.output = Window(1, Smaller(HasRead, OutputSize))
          /\ Len(parent.output) = Smaller(HasRead, OutputSize)
      BY <1>1, <2>1, FirstOutput
    <3> HIDE DEF HasRead
    <3> QED BY <3>1, Sizes DEF Smaller
  <2>4. Unread' = 0 /\ HasRead' = wrote.all
    <3>1. Unread' = 0 /\ HasRead' = wrote.all - Unread'
      BY EmptySeq DEF Unread, HasRead
    <3> HIDE DEF Unread, HasRead
    <3> QED BY <2>2, <3>1
  <2>5. PipeIsLatest'
    <3>1. Window(wrote.all + 1, wrote.all) = <<>>
      BY <2>2, WindowEmpty
    <3>2. Unread' <= wrote'.all
      BY <2>2, <2>4
    <3> QED BY <2>4, <3>1, <3>2 DEF PipeIsLatest
  <2>6. OutputIsRead'
    <3> HIDE DEF HasRead, Unread
    <3>1. HasRead' > OutputSize
      BY <1>1, <1>2, <2>2, <2>3, <2>4, Sizes
    <3>2. Smaller(HasRead', OutputSize) = OutputSize
      BY <2>2, <2>4, <3>1, Sizes DEF Smaller
    <3> QED BY <1>1, <2>3, <1>3, <3>1, <3>2 DEF OutputIsRead
  <2> QED BY <2>5, <2>6
<1>5. TypeOK'
  <2>1. pipe' \in Seq(Units) /\ Len(pipe') <= PipeSize
    BY EmptySeq, Sizes
  <2> QED BY <1>3, <2>1 DEF RunnerInv, TypeOK, Parents
<1>6. CallPlaces' /\ InputHeld' /\ wrote'.atEnd <= wrote'.all
  BY <1>3 DEF RunnerInv, CallPlaces, InputHeld
<1> QED BY <1>4, <1>5, <1>6 DEF RunnerInv

\* The pipe with one more unit at its end holds the last units written.
LEMMA WriteLatest ==
  ASSUME RunnerInv, Counted, NEW n, n = wrote.all + 1
  PROVE  /\ pipe \o <<n>> = Window(HasRead + 1, n)
         /\ HasRead \in Nat /\ Unread <= wrote.all
<1>1. Unread \in Nat /\ wrote.all \in Nat
  BY TypeOKIs, LenProperties, Sizes DEF RunnerInv, Unread
<1>2. HasRead \in Nat /\ HasRead = wrote.all - Unread
  <2>1. 0 \in 0..Unread
    BY <1>1
  <2> QED BY <2>1, ChunkTaken DEF HasRead
<1>3. Unread <= wrote.all /\ pipe = Window(HasRead + 1, wrote.all)
  BY DEF RunnerInv, PipeIsLatest
<1> DEFINE from == HasRead + 1
<1> HIDE DEF HasRead, Unread
<1>4. from \in Nat \ {0} /\ from <= wrote.all + 1 /\ wrote.all <= n /\ n \in Nat \ {0}
  BY <1>1, <1>2, <1>3
<1>5. <<n>> = Window(n, n)
  BY <1>4, WindowOne
<1>6. pipe \o <<n>> = Window(from, wrote.all) \o Window(wrote.all + 1, n)
  BY <1>3, <1>5
<1> HIDE DEF from
<1>7. pipe \o <<n>> = Window(from, n)
  BY <1>1, <1>4, <1>6, WindowConcat
<1> QED BY <1>2, <1>3, <1>7 DEF from

\* A unit is written to the end of the pipe, by one who holds it open.
LEMMA WriteInv ==
  ASSUME RunnerInv, NEW m \in Members, Write(m)
  PROVE  RunnerInv'
<1> DEFINE unit == Smaller(wrote.all + 1, MaxWritten)
<1>1. /\ pipe \in Seq(Units) /\ Unread \in Nat /\ Unread < PipeSize
      /\ wrote \in [all : 0..MaxWritten, atEnd : 0..MaxWritten]
      /\ wrote.all \in Nat /\ wrote.atEnd \in Nat /\ wrote.atEnd <= wrote.all
      /\ wrote.all <= MaxWritten
  BY TypeOKIs, LenProperties, Sizes DEF RunnerInv, Unread, Write
<1>2. /\ wrote' = [wrote EXCEPT !.all = unit]
      /\ pipe' = pipe \o <<unit>>
      /\ UNCHANGED <<call, parent, cancel, input, procs>>
  BY DEF Write
<1>3. /\ unit \in Units /\ unit \in 0..MaxWritten /\ wrote.all <= unit
      /\ unit < MaxWritten => unit = wrote.all + 1 /\ wrote.all < MaxWritten
  BY <1>1, Sizes DEF Smaller, Units
<1> HIDE DEF unit
<1>4. /\ wrote' \in [all : 0..MaxWritten, atEnd : 0..MaxWritten]
      /\ wrote'.all = unit /\ wrote'.atEnd = wrote.atEnd
  BY <1>1, <1>2, <1>3
<1>5. wrote'.atEnd <= wrote'.all
  BY <1>1, <1>3, <1>4, Sizes
<1>6. pipe' \in Seq(Units) /\ Len(pipe') = Unread + 1
  <2>1. <<unit>> \in Seq(Units) /\ Len(<<unit>>) = 1
    BY <1>3
  <2> QED BY <1>1, <1>2, <2>1, ConcatProperties DEF Unread
<1>7. ASSUME Counted'
      PROVE  PipeIsLatest' /\ OutputIsRead'
  <2>1. Counted /\ unit = wrote.all + 1
    BY <1>3, <1>4, <1>7 DEF Counted
  <2>2. pipe' = Window(HasRead + 1, unit) /\ HasRead \in Nat /\ Unread <= wrote.all
    BY <1>2, <2>1, WriteLatest
  <2>3. Unread' = Unread + 1 /\ HasRead' = HasRead
    <3>1. Unread' = Unread + 1 /\ HasRead' = wrote'.all - Unread'
          /\ HasRead = wrote.all - Unread
      BY <1>6 DEF Unread, HasRead
    <3> HIDE DEF Unread, HasRead
    <3> QED BY <1>1, <1>4, <2>1, <3>1
  <2>4. PipeIsLatest'
    <3>1. Unread' <= wrote'.all
      <4> HIDE DEF Unread, HasRead
      <4> QED BY <1>1, <1>4, <2>1, <2>2, <2>3
    <3> QED BY <1>4, <2>2, <2>3, <3>1 DEF PipeIsLatest
  <2>5. OutputIsRead'
    BY <1>2, <2>1, <2>3 DEF RunnerInv, OutputIsRead
  <2> QED BY <2>4, <2>5
<1>8. TypeOK'
  <2>1. Len(pipe') <= PipeSize
    BY <1>1, <1>6, Sizes
  <2> QED BY <1>2, <1>4, <1>6, <2>1 DEF RunnerInv, TypeOK
<1>9. CallPlaces' /\ InputHeld'
  <2>1. parent.at \notin {"wait", "done"}
    BY DEF RunnerInv, CallPlaces, AtEof, Write
  <2> QED BY <1>2, <2>1 DEF RunnerInv, CallPlaces, InputHeld, AtEof
<1> QED BY <1>5, <1>7, <1>8, <1>9 DEF RunnerInv

-----------------------------------------------------------------------------
(***************************************************************************)
(* The steps that read and write nothing, one lemma an action or two.      *)
(***************************************************************************)

\* The program is forked, or the call is over.
LEMMA ForkInv ==
  ASSUME RunnerInv, Fork
  PROVE  RunnerInv'
<1>1. parent \in Parents /\ input \in [held : 0..InputSize, open : BOOLEAN]
      /\ procs \in Processes /\ call \in [kind : {"with_input", "cancellable"}, program : Programs]
  BY TypeOKIs DEF RunnerInv, TypeOK
<1>2. CASE parent' = Returns(parent, "ERROR") /\ UNCHANGED procs
  <2>1. /\ parent' \in Parents /\ parent'.output = parent.output
        /\ parent'.truncated = parent.truncated /\ parent'.sent = parent.sent
        /\ parent'.at = "done" /\ parent'.code = "ERROR"
    BY <1>1, <1>2 DEF Parents, Returns
  <2> QED BY <1>1, <1>2, <2>1, ParentMoves DEF Fork, RunnerInv, CallPlaces, InputHeld
<1>3. CASE /\ Goes(IF call.kind = "with_input" THEN "write" ELSE "poll")
           /\ procs' = [m \in Members |-> [runs |-> m \in call.program.members,
                                          holds |-> m \in call.program.members]]
  <2>1. procs' \in Processes
    BY <1>3 DEF Processes
  <2>2. /\ parent' \in Parents /\ parent'.output = parent.output
        /\ parent'.truncated = parent.truncated /\ parent'.sent = parent.sent
        /\ parent'.at = (IF call.kind = "with_input" THEN "write" ELSE "poll")
        /\ parent'.code = parent.code /\ parent'.reaped = parent.reaped
    BY <1>1, <1>3 DEF Parents, Goes
  <2>3. CallPlaces'
    BY <1>1, <2>2 DEF Fork, RunnerInv, CallPlaces
  <2> QED BY <1>1, <2>1, <2>2, <2>3, ParentMoves DEF Fork, RunnerInv, InputHeld
<1> QED BY <1>2, <1>3 DEF Fork

\* The input is written and closed, and given up when nobody reads it.
LEMMA InputInv ==
  ASSUME RunnerInv, WriteInput \/ CloseInput
  PROVE  RunnerInv'
<1>1. parent \in Parents /\ input \in [held : 0..InputSize, open : BOOLEAN]
      /\ procs \in Processes
  BY TypeOKIs DEF RunnerInv
<1>2. UNCHANGED <<call, cancel, pipe, procs, wrote>> /\ parent.at = "write"
  BY DEF WriteInput, CloseInput
<1>3. CASE /\ parent.sent < InputSize
           /\ input' = [input EXCEPT !.held = @ + 1]
           /\ parent' = [parent EXCEPT !.sent = @ + 1]
  <2> DEFINE n == parent.sent + 1
             h == input.held + 1
  <2>1. n \in 0..InputSize /\ h \in 0..InputSize /\ h <= n
    BY <1>1, <1>3, Sizes DEF Parents, RunnerInv, InputHeld
  <2>2. input' = [input EXCEPT !.held = h] /\ parent' = [parent EXCEPT !.sent = n]
    BY <1>3
  <2> HIDE DEF n, h
  <2>3. /\ parent' \in Parents /\ parent'.output = parent.output /\ parent'.sent = n
        /\ parent'.truncated = parent.truncated /\ parent'.at = parent.at
        /\ parent'.code = parent.code /\ parent'.reaped = parent.reaped
    BY <1>1, <2>1, <2>2 DEF Parents
  <2>4. input' \in [held : 0..InputSize, open : BOOLEAN] /\ input'.held = h
    BY <1>1, <2>1, <2>2
  <2>5. CallPlaces'
    BY <1>2, <2>3 DEF RunnerInv, CallPlaces
  <2> QED BY <1>1, <1>2, <2>1, <2>3, <2>4, <2>5, ParentMoves
<1>4. CASE /\ input' = [input EXCEPT !.open = FALSE]
           /\ \/ parent' = [parent EXCEPT !.failed = TRUE, !.at = "read"]
              \/ parent' = [parent EXCEPT !.at = "read"]
  <2>1. /\ parent' \in Parents /\ parent'.output = parent.output
        /\ parent'.sent = parent.sent /\ parent'.at = "read"
        /\ parent'.truncated = parent.truncated
        /\ parent'.code = parent.code /\ parent'.reaped = parent.reaped
    <3>1. parent \in Parents
      BY <1>1
    <3>2. CASE parent' = [parent EXCEPT !.failed = TRUE, !.at = "read"]
      BY <3>1, <3>2 DEF Parents
    <3>3. CASE parent' = [parent EXCEPT !.at = "read"]
      BY <3>1, <3>3 DEF Parents
    <3> QED BY <1>4, <3>2, <3>3
  <2>2. input' \in [held : 0..InputSize, open : BOOLEAN] /\ input'.held = input.held
    <3>1. input \in [held : 0..InputSize, open : BOOLEAN]
      BY <1>1
    <3>2. input' = [input EXCEPT !.open = FALSE]
      BY <1>4
    <3> QED BY <3>1, <3>2
  <2>3. CallPlaces'
    BY <1>2, <2>1 DEF RunnerInv, CallPlaces
  <2> QED BY <1>1, <1>2, <2>1, <2>2, <2>3, ParentMoves DEF RunnerInv, InputHeld
<1> QED BY <1>3, <1>4 DEF WriteInput, CloseInput, Goes

\* A round of reading with input: a chunk, what there is no room for, or the end.
LEMMA ReadOutputInv ==
  ASSUME RunnerInv, ReadOutput
  PROVE  RunnerInv'
<1> DEFINE room == OutputSize - Len(parent.output)
           take == Smaller(room, Unread)
<1>1. parent.at = "read" /\ UNCHANGED <<call, cancel, input, procs, wrote>>
  BY DEF ReadOutput
<1>2. CASE /\ pipe # <<>> /\ room > 0
           /\ parent' = [parent EXCEPT !.output = @ \o SubSeq(pipe, 1, take)]
           /\ pipe' = SubSeq(pipe, take + 1, Unread)
  BY <1>1, <1>2, ReadInv
<1>3. CASE /\ pipe # <<>> /\ room = 0
           /\ parent' = [parent EXCEPT !.truncated = TRUE] /\ pipe' = <<>>
  BY <1>1, <1>3, DiscardInv
<1>4. CASE AtEof /\ Goes("wait") /\ UNCHANGED pipe
  <2>1. parent \in Parents /\ input \in [held : 0..InputSize, open : BOOLEAN]
        /\ procs \in Processes
    BY TypeOKIs DEF RunnerInv
  <2>2. /\ parent' \in Parents /\ parent'.output = parent.output
        /\ parent'.truncated = parent.truncated /\ parent'.sent = parent.sent
        /\ parent'.at = "wait" /\ parent'.code = parent.code
        /\ parent'.reaped = parent.reaped
    BY <1>4, <2>1 DEF Parents, Goes
  <2>3. CallPlaces'
    BY <1>1, <1>4, <2>2 DEF RunnerInv, CallPlaces, AtEof
  <2> QED BY <1>1, <1>4, <2>1, <2>2, <2>3, ParentMoves DEF RunnerInv, InputHeld
<1> QED BY <1>2, <1>3, <1>4 DEF ReadOutput, Unread

\* The program is waited for after the end of its output.
LEMMA WaitInv ==
  ASSUME RunnerInv, WaitForChild
  PROVE  RunnerInv'
<1>1. parent \in Parents /\ input \in [held : 0..InputSize, open : BOOLEAN]
      /\ procs \in Processes
  BY TypeOKIs DEF RunnerInv
<1> DEFINE Ended(b, code) == [[parent EXCEPT !.reaped = b] EXCEPT !.at = "done", !.code = code]
<1>2. \E b \in BOOLEAN, code \in {"ERROR", "OK"} : parent' = Ended(b, code)
  <2>1. CASE parent' = Returns([parent EXCEPT !.reaped = TRUE],
                               IF parent.failed THEN "ERROR" ELSE "OK")
    BY <2>1 DEF Returns
  <2>2. CASE parent' = Returns(parent, "ERROR")
    <3>1. parent.reaped \in BOOLEAN /\ [parent EXCEPT !.reaped = parent.reaped] = parent
      BY <1>1 DEF Parents
    <3>2. parent' = Ended(parent.reaped, "ERROR")
      BY <2>2, <3>1 DEF Returns
    <3> QED BY <3>1, <3>2
  <2> QED BY <2>1, <2>2 DEF WaitForChild
<1>3. PICK b \in BOOLEAN, code \in {"ERROR", "OK"} : parent' = Ended(b, code)
  BY <1>2
<1>4. /\ parent' \in Parents /\ parent'.output = parent.output
      /\ parent'.truncated = parent.truncated /\ parent'.sent = parent.sent
      /\ parent'.at = "done"
  BY <1>1, <1>3 DEF Parents
<1>5. CallPlaces'
  BY <1>4 DEF WaitForChild, RunnerInv, CallPlaces, AtEof
<1> QED BY <1>1, <1>4, <1>5, ParentMoves DEF WaitForChild, RunnerInv, InputHeld

\* The round of signals, and the look whether the program has ended.
LEMMA RoundInv ==
  ASSUME RunnerInv, Signal \/ Reap
  PROVE  RunnerInv'
<1>1. parent \in Parents /\ input \in [held : 0..InputSize, open : BOOLEAN]
      /\ procs \in Processes /\ cancel \in BOOLEAN
  BY TypeOKIs DEF RunnerInv, TypeOK
<1>2. UNCHANGED <<call, cancel, input, pipe, procs, wrote>>
      /\ parent.at \in {"signal", "reap"}
  BY DEF Signal, Reap
<1>3. /\ parent' \in Parents /\ parent'.output = parent.output
      /\ parent'.truncated = parent.truncated /\ parent'.sent = parent.sent
      /\ \/ parent'.at \in {"reap", "poll", "drain"} /\ parent'.code = "NONE"
         \/ parent'.at = "done" /\ parent'.code = "ERROR"
      /\ parent'.reaped => parent'.at = "drain"
  <2>1. CASE Signal
    <3> DEFINE sent == parent.termed \/ cancel
               n == IF sent THEN Smaller(parent.polls + 1, Grace) ELSE parent.polls
               dead == parent.killed \/ n = Grace
    <3>1. sent \in BOOLEAN /\ dead \in BOOLEAN /\ n \in 0..Grace
      BY <1>1, Sizes DEF Parents, Smaller
    <3>2. parent' = [parent EXCEPT !.termed = sent, !.polls = n, !.killed = dead, !.at = "reap"]
      BY <2>1 DEF Signal
    <3> HIDE DEF sent, n, dead
    <3>3. ~parent.reaped /\ parent.code = "NONE"
      BY <2>1 DEF Signal, RunnerInv, CallPlaces
    <3> QED BY <1>1, <3>1, <3>2, <3>3 DEF Parents
  <2>2. CASE Reap
    <3>1. ~parent.reaped /\ parent.code = "NONE"
      BY <2>2 DEF Reap, RunnerInv, CallPlaces
    <3>2. \/ parent' = [parent EXCEPT !.at = "poll"]
          \/ parent' = [parent EXCEPT !.reaped = TRUE, !.at = "drain"]
          \/ parent' = [parent EXCEPT !.at = "done", !.code = "ERROR"]
      BY <2>2 DEF Reap, Goes, Returns
    <3>3. parent \in Parents
      BY <1>1
    <3>4. CASE parent' = [parent EXCEPT !.at = "poll"]
      BY <3>1, <3>3, <3>4 DEF Parents
    <3>5. CASE parent' = [parent EXCEPT !.reaped = TRUE, !.at = "drain"]
      BY <3>1, <3>3, <3>5 DEF Parents
    <3>6. CASE parent' = [parent EXCEPT !.at = "done", !.code = "ERROR"]
      BY <3>1, <3>3, <3>6 DEF Parents
    <3> QED BY <3>2, <3>4, <3>5, <3>6
  <2> QED BY <2>1, <2>2
<1>4. CallPlaces'
  BY <1>2, <1>3 DEF RunnerInv, CallPlaces
<1> QED BY <1>1, <1>2, <1>3, <1>4, ParentMoves DEF RunnerInv, InputHeld

\* A round of polling, and what is left in the pipe when the program has ended.
LEMMA DrainInv ==
  ASSUME RunnerInv, Poll \/ Drain
  PROVE  RunnerInv'
<1>1. parent \in Parents /\ input \in [held : 0..InputSize, open : BOOLEAN]
      /\ procs \in Processes /\ parent.at \in {"poll", "drain"}
      /\ call.kind = "cancellable" /\ UNCHANGED <<call, cancel, input, procs, wrote>>
  BY TypeOKIs DEF RunnerInv, CallPlaces, Poll, Drain
<1>2. CASE Poll
  BY <1>1, <1>2, TakesInv DEF Poll
<1>3. CASE Drain /\ pipe # <<>>
  BY <1>1, <1>3, TakesInv DEF Drain
<1>4. CASE Drain /\ pipe = <<>>
  <2>1. /\ parent' \in Parents /\ parent'.output = parent.output
        /\ parent'.truncated = parent.truncated /\ parent'.sent = parent.sent
        /\ parent'.at = "done"
    <3>1. PICK code \in {"OK", "CANCELLED"} :
            parent' = [parent EXCEPT !.at = "done", !.code = code]
      BY <1>4 DEF Drain, Returns
    <3>2. parent \in Parents
      BY <1>1
    <3> QED BY <3>1, <3>2 DEF Parents
  <2>2. CallPlaces'
    BY <1>4, <2>1 DEF Drain, CallPlaces
  <2> QED BY <1>1, <1>4, <2>1, <2>2, ParentMoves DEF Drain, RunnerInv, InputHeld
<1> QED BY <1>2, <1>3, <1>4

\* The program takes input, closes its output, ends or is killed; a cancel.
LEMMA ProgramInv ==
  ASSUME RunnerInv,
         \/ Consume \/ CloseOutput \/ RequestCancel
         \/ \E m \in Members : End(m) \/ Die(m)
  PROVE  RunnerInv'
<1>1. /\ input \in [held : 0..InputSize, open : BOOLEAN] /\ procs \in Processes
      /\ cancel \in BOOLEAN /\ wrote.atEnd <= wrote.all
      /\ wrote \in [all : 0..MaxWritten, atEnd : 0..MaxWritten]
  BY TypeOKIs DEF RunnerInv, TypeOK
<1>2. CASE Consume
  <2> DEFINE h == input.held - 1
  <2>1. h \in 0..InputSize /\ h <= input.held /\ input' = [input EXCEPT !.held = h]
    BY <1>1, <1>2, Sizes DEF Consume
  <2> HIDE DEF h
  <2>2. input' \in [held : 0..InputSize, open : BOOLEAN] /\ input'.held = h
    BY <1>1, <2>1
  <2> QED BY <1>1, <1>2, <2>1, <2>2, ProgramMoves DEF Consume
<1>3. CASE RequestCancel
  BY <1>1, <1>3, ProgramMoves, Sizes DEF RequestCancel
<1>4. CASE CloseOutput
  <2>1. procs' \in Processes /\ \A m \in Members : procs'[m].holds => procs[m].holds
    BY <1>1, <1>4 DEF CloseOutput, Processes, Members
  <2> QED BY <1>1, <1>4, <2>1, ProgramMoves, Sizes DEF CloseOutput
<1>5. ASSUME NEW m \in Members, End(m) \/ Die(m)
      PROVE  RunnerInv'
  <2>1. Finishes(m)
    BY <1>5 DEF End, Die
  <2>2. procs' \in Processes /\ \A k \in Members : procs'[k].holds => procs[k].holds
    BY <1>1, <2>1 DEF Finishes, Gone, Processes
  <2>3. /\ wrote' \in [all : 0..MaxWritten, atEnd : 0..MaxWritten]
        /\ wrote'.all = wrote.all /\ wrote'.atEnd <= wrote'.all
    BY <1>1, <2>1, Sizes DEF Finishes
  <2> QED BY <1>1, <2>1, <2>2, <2>3, ProgramMoves, Sizes DEF Finishes
<1> QED BY <1>2, <1>3, <1>4, <1>5

\* Before the fork nothing has been written.
LEMMA RunnerStarts ==
  ASSUME Init
  PROVE  RunnerInv
<1>1. TypeOK
  <2>1. /\ parent = [at |-> "start", sent |-> 0, failed |-> FALSE, output |-> <<>>,
               truncated |-> FALSE, termed |-> FALSE, killed |-> FALSE,
               polls |-> 0, reaped |-> FALSE, code |-> "NONE"]
        /\ 0 \in 0..InputSize /\ 0 \in 0..Grace /\ 0 \in 0..MaxWritten
        /\ <<>> \in Seq(Units) /\ Len(<<>>) = 0
    BY Sizes, EmptySeq DEF Init
  <2>2. parent \in Parents /\ parent.output = <<>>
    BY <2>1 DEF Parents
  <2>3. procs \in [Members -> [runs : BOOLEAN, holds : BOOLEAN]]
    BY DEF Init
  <2>4. /\ input \in [held : 0..InputSize, open : BOOLEAN]
        /\ wrote \in [all : 0..MaxWritten, atEnd : 0..MaxWritten]
        /\ pipe \in Seq(Units) /\ Len(pipe) <= PipeSize
    BY <2>1, Sizes DEF Init
  <2>5. Len(parent.output) <= OutputSize
    BY <2>1, <2>2, Sizes
  <2> QED BY <2>2, <2>3, <2>4, <2>5 DEF Init, TypeOK, Parents
<1>2. Unread = 0 /\ HasRead = 0 /\ wrote.all = 0
  BY EmptySeq DEF Init, Unread, HasRead
<1>3. Window(1, 0) = <<>>
  <2> DEFINE n == 0
  <2>1. n \in Nat /\ n + 1 = 1
    OBVIOUS
  <2> HIDE DEF n
  <2>2. Window(n + 1, n) = <<>>
    BY <2>1, WindowEmpty
  <2> QED BY <2>2 DEF n
<1>4. PipeIsLatest
  <2> HIDE DEF Unread, HasRead
  <2> QED BY <1>2, <1>3 DEF Init, PipeIsLatest
<1>5. OutputIsRead
  <2>1. Smaller(0, OutputSize) = 0 /\ FirstOf(0) = 1 /\ (0 > OutputSize) = FALSE
    BY Sizes DEF Smaller, FirstOf
  <2> HIDE DEF HasRead
  <2> QED BY <1>2, <1>3, <2>1 DEF Init, OutputIsRead
<1>6. CallPlaces /\ InputHeld /\ wrote.atEnd <= wrote.all
  BY DEF Init, CallPlaces, InputHeld
<1> QED BY <1>1, <1>4, <1>5, <1>6 DEF RunnerInv, Counted

\* Every step of the parent and of the program keeps the invariant.
LEMMA RunnerStep ==
  ASSUME RunnerInv, [Next]_vars
  PROVE  RunnerInv'
<1>1. CASE Parent
  BY <1>1, ForkInv, InputInv, ReadOutputInv, WaitInv, RoundInv, DrainInv DEF Parent
<1>2. CASE RequestCancel \/ Consume \/ CloseOutput
  BY <1>2, ProgramInv
<1>3. ASSUME NEW m \in Members, Member(m)
      PROVE  RunnerInv'
  BY <1>3, WriteInv, ProgramInv DEF Member
<1>4. CASE UNCHANGED vars
  BY <1>4 DEF vars, RunnerInv, TypeOK, Counted, PipeIsLatest, OutputIsRead, CallPlaces,
              InputHeld, Unread, HasRead, AtEof
<1> QED BY <1>1, <1>2, <1>3, <1>4 DEF Next

\* As long as units are told apart the pipe holds the last units written, and the output a
\* window of those before them: the first that fit of a run with input, the last that
\* fit of one that polls (process.c:36, process.c:159).
THEOREM RunnerHolds == Spec => []RunnerInv
<1>1. Init => RunnerInv
  BY RunnerStarts
<1>2. RunnerInv /\ [Next]_vars => RunnerInv'
  BY RunnerStep
<1> QED BY <1>1, <1>2, PTL DEF Spec

\* The state stays within its types: the output never outgrows its buffer
\* (process.c:36, process.c:159).
THEOREM RunnerTypeCorrect == Spec => []TypeOK
BY RunnerHolds, PTL DEF RunnerInv

\* What the callers look for in the output is there when the call returns, and
\* nothing is missing unnoticed (process.c:36, process.c:159).
THEOREM RunnerOutputKept == Spec => []OutputKept
<1>1. RunnerInv => OutputKept
  <2> SUFFICES ASSUME RunnerInv, parent.at = "done", parent.code \notin {"NONE", "ERROR"},
                      Counted
               PROVE  IF call.kind = "with_input"
                      THEN /\ parent.output = Window(1, Smaller(wrote.all, OutputSize))
                           /\ parent.truncated = (wrote.all > OutputSize)
                      ELSE \E last \in wrote.atEnd..wrote.all :
                             /\ parent.truncated = (last > OutputSize)
                             /\ parent.output =
                                  Window(IF last > OutputSize THEN last - OutputSize + 1
                                         ELSE 1, last)
    BY DEF OutputKept, Counted
  <2>1. pipe = <<>> /\ wrote.all \in Nat /\ wrote.atEnd \in Nat /\ wrote.atEnd <= wrote.all
    BY TypeOKIs, Sizes DEF RunnerInv, CallPlaces
  <2>2. HasRead = wrote.all
    BY <2>1, EmptySeq DEF HasRead, Unread
  <2>3. CASE call.kind = "with_input"
    BY <2>2, <2>3 DEF RunnerInv, OutputIsRead
  <2>4. CASE call.kind # "with_input"
    <3>1. wrote.all \in wrote.atEnd..wrote.all
      BY <2>1
    <3>2. /\ parent.truncated = (wrote.all > OutputSize)
          /\ parent.output = Window(FirstOf(wrote.all), wrote.all)
      BY <2>2, <2>4 DEF RunnerInv, OutputIsRead
    <3> QED BY <2>4, <3>1, <3>2 DEF FirstOf
  <2> QED BY <2>3, <2>4
<1> QED BY <1>1, RunnerHolds, PTL

\* No signal is sent to a process group whose leader has been waited for: its
\* number may be another's by then (process.c:256-271).
THEOREM RunnerSignalsReachProgram == Spec => SignalsReachTheProgram
<1>1. ASSUME RunnerInv, [Next]_vars
      PROVE  [parent'.termed # parent.termed \/ parent'.killed # parent.killed
                => ~parent.reaped /\ ~parent'.reaped]_vars
  <2> SUFFICES ASSUME parent'.termed # parent.termed \/ parent'.killed # parent.killed
               PROVE  ~parent.reaped /\ ~parent'.reaped
    OBVIOUS
  <2>1. parent \in Parents
    BY <1>1, TypeOKIs DEF RunnerInv
  <2>2. CASE Signal
    <3>1. ~parent.reaped
      BY <1>1, <2>2 DEF Signal, RunnerInv, CallPlaces
    <3>2. parent'.reaped = parent.reaped
      BY <2>1, <2>2 DEF Signal, Parents
    <3> QED BY <3>1, <3>2
  <2>3. CASE Parent /\ ~Signal
    <3>1. parent'.termed = parent.termed /\ parent'.killed = parent.killed
      BY <2>1, <2>3 DEF Parent, Fork, WriteInput, CloseInput, ReadOutput, WaitForChild,
                        Poll, Reap, Drain, Takes, Kept, Goes, Returns, Parents
    <3> QED BY <3>1
  <2>4. CASE RequestCancel \/ Consume \/ CloseOutput \/ UNCHANGED vars
    BY <2>4 DEF RequestCancel, Consume, CloseOutput, vars
  <2>5. CASE \E m \in Members : Member(m)
    BY <2>5 DEF Member, Write, End, Die, Finishes
  <2> QED BY <1>1, <2>2, <2>3, <2>4, <2>5 DEF Next
<1> QED BY <1>1, RunnerHolds, PTL DEF Spec, SignalsReachTheProgram
=============================================================================
