----------------------------- MODULE PaperProofs -----------------------------
(***************************************************************************)
(* What the form says and who signs it.                                    *)
(*                                                                         *)
(* Wrapping, for any value, any lines and any size: what wrapAcross and    *)
(* measure keep.                                                           *)
(*                                                                         *)
(* Gate, for any fields filled in: what the gate reports missing is what   *)
(* the fill leaves out, because nothing but a side's parties fills what is *)
(* excused when the side has nobody.                                       *)
(*                                                                         *)
(* Signers, for any parties and positions: the order of the list is total, *)
(* so places in it are distinct and are 1, 2 ... as many as there are.     *)
(***************************************************************************)
EXTENDS Wrapping, Gate, Signers, Facts

-----------------------------------------------------------------------------
(* Wrapping *)

Words == 1..Len(text)

\* The value and its lines; how much is drawn of one is Measured's business.
Typed ==
  /\ text \in Texts
  /\ next \in 1..(Len(text) + 1)
  /\ lines \in Seq(Words \X (0..Len(text))) /\ Len(lines) \in 1..Len(Widths)
  /\ draws \in Seq([kept : Int, truncated : BOOLEAN]) /\ Len(draws) <= Len(lines)

\* The line at hand waits for its first word, or ends with the last word taken.
AtHand ==
  LET line == lines[Len(lines)]
  IN \/ line = <<next, 0>>
     \/ line[1] \in Words /\ line[1] <= line[2] /\ line[2] = next - 1

\* The lines follow one another, word by word.
InOrder ==
  /\ lines[1][1] = 1
  /\ \A i \in 1..(Len(lines) - 1) : lines[i][2] \in Words /\ lines[i + 1][1] = lines[i][2] + 1
  /\ AtHand

\* A line that has words and is too long is the last there is, or has one word.
LongFor(i) == Length(lines[i][1], lines[i][2]) > Widths[i]
Fitting ==
  \A i \in 1..Len(lines) :
    lines[i][2] # 0 /\ LongFor(i) => i = Len(Widths) \/ lines[i][1] = lines[i][2]

\* Drawing starts when every word is taken, and each line is drawn as measured.
AsMeasured ==
  /\ draws # <<>> => next = Len(text) + 1
  /\ \A i \in 1..Len(draws) :
       draws[i] \in Measured(Length(lines[i][1], lines[i][2]), Widths[i])

WrapInv == Typed /\ InOrder /\ Fitting /\ AsMeasured

LEMMA TextType ==
  ASSUME Typed
  PROVE  /\ text \in Seq(Nat \ {0}) /\ Len(text) \in Nat \ {0}
         /\ Widths \in Seq(Nat \ {0}) /\ Len(Widths) \in Nat \ {0}
         /\ \A i \in 1..Len(Widths) : Widths[i] \in Nat \ {0}
         /\ Len(lines) \in 1..Len(Widths) /\ Len(draws) \in Nat
         /\ \A i \in 1..Len(lines) : lines[i][1] \in Words /\ lines[i][2] \in 0..Len(text)
<1>1. text \in Seq(Nat \ {0}) /\ text # <<>>
  BY WrappingAssumption DEF Typed
<1>2. Widths \in Seq(Nat \ {0}) /\ Widths # <<>>
  BY WrappingAssumption
<1>3. Len(text) \in Nat \ {0} /\ Len(Widths) \in Nat \ {0} /\ \A i \in 1..Len(Widths) : Widths[i] \in Nat \ {0}
  BY <1>1, <1>2
<1>4. Len(lines) \in 1..Len(Widths) /\ Len(draws) \in Nat
  BY DEF Typed
<1>5. \A i \in 1..Len(lines) : lines[i] \in Words \X (0..Len(text))
  BY <1>4 DEF Typed
<1> QED
  BY <1>1, <1>2, <1>3, <1>4, <1>5

LEMMA LengthType ==
  ASSUME Typed, NEW from \in Words, NEW to \in Words
  PROVE  Length(from, to) \in Int
<1>1. text[to] \in Nat
  BY TextType DEF Words
<1>2. from # 1 => text[from - 1] \in Nat
  BY TextType DEF Words
<1> QED
  BY <1>1, <1>2 DEF Length

\* Every word is on a line before anything is drawn: the last line refuses none.
LEMMA WrappedMeansTaken == ASSUME Typed, Wrapped PROVE next = Len(text) + 1
BY TextType DEF Typed, Wrapped, FitsLine, Current

LEMMA InitWrap == WrapInit => WrapInv
<1> SUFFICES ASSUME WrapInit PROVE WrapInv
  OBVIOUS
<1>1. text \in Seq(Nat \ {0}) /\ Len(text) \in Nat \ {0}
  BY WrappingAssumption DEF WrapInit
<1>2. Len(Widths) \in Nat \ {0}
  BY WrappingAssumption
<1>3. Len(lines) = 1 /\ lines[1] = <<1, 0>> /\ draws = <<>> /\ next = 1
  BY DEF WrapInit
<1>4. Typed
  BY <1>1, <1>2 DEF WrapInit, Typed, Words
<1>5. InOrder /\ Fitting /\ AsMeasured
  BY <1>1, <1>3 DEF InOrder, AtHand, Fitting, AsMeasured, Words
<1> QED
  BY <1>4, <1>5 DEF WrapInv

LEMMA TakeWordKeeps == ASSUME WrapInv, TakeWord PROVE WrapInv'
<1> DEFINE n == Len(lines)
<1>1. /\ draws = <<>> /\ next \in Words /\ next' = next + 1 /\ text' = text /\ draws' = draws
      /\ lines' = [lines EXCEPT ![n] = <<lines[n][1], next>>]
      /\ next = lines[n][1] \/ n = Len(Widths) \/ ~(Length(lines[n][1], next) > Widths[n])
  <2>1. n \in 1..Len(Widths) /\ lines[n][1] \in Words /\ next \in Words
    BY TextType DEF WrapInv, Typed, TakeWord, Words
  <2>2. Length(lines[n][1], next) \in Int /\ Widths[n] \in Nat
    BY <2>1, LengthType, TextType DEF WrapInv
  <2> QED
    BY <2>1, <2>2 DEF WrapInv, Typed, TakeWord, FitsLine, Current, Starts, Words
<1>2. /\ n \in 1..Len(Widths) /\ lines[n][1] \in Words /\ Words' = Words /\ Len(text) \in Nat
      /\ \A i \in 1..n : lines[i][1] \in Words /\ lines[i][2] \in 0..Len(text)
  BY <1>1, TextType DEF WrapInv, Words
<1>3. /\ Len(lines') = n /\ lines'[n] = <<lines[n][1], next>>
      /\ \A i \in 1..(n - 1) : lines'[i] = lines[i]
      /\ lines' \in Seq(Words \X (0..Len(text)))
  BY <1>1, <1>2 DEF WrapInv, Typed, Words
<1>4. Typed'
  BY <1>1, <1>2, <1>3 DEF WrapInv, Typed, Words
<1>5. lines[n][1] <= next
  BY <1>1, <1>2 DEF WrapInv, InOrder, AtHand, Words
<1>6. InOrder'
  <2>1. lines'[1][1] = 1
    BY <1>2, <1>3 DEF WrapInv, InOrder
  <2>2. \A i \in 1..(n - 1) : lines'[i][2] \in Words /\ lines'[i + 1][1] = lines'[i][2] + 1
    <3> SUFFICES ASSUME NEW i \in 1..(n - 1)
                 PROVE  lines'[i][2] \in Words /\ lines'[i + 1][1] = lines'[i][2] + 1
      OBVIOUS
    <3>1. lines'[i] = lines[i]
      BY <1>3
    <3>2. lines'[i + 1][1] = lines[i + 1][1]
      <4>1. i + 1 = n \/ i + 1 \in 1..(n - 1)
        BY <1>2
      <4>2. lines'[n][1] = lines[n][1]
        BY <1>3
      <4> QED
        BY <1>3, <4>1, <4>2
    <3> QED
      BY <3>1, <3>2 DEF WrapInv, InOrder
  <2>3. AtHand'
    <3>1. lines'[n][1] = lines[n][1] /\ lines'[n][2] = next /\ next = next' - 1
      BY <1>1, <1>3 DEF Words
    <3> QED
      BY <1>2, <1>3, <1>5, <3>1 DEF AtHand
  <2> QED
    BY <1>2, <1>3, <2>1, <2>2, <2>3 DEF InOrder
<1>7. Fitting'
  <2> SUFFICES ASSUME NEW i \in 1..n, lines'[i][2] # 0, LongFor(i)'
               PROVE  i = Len(Widths) \/ lines'[i][1] = lines'[i][2]
    BY <1>3 DEF Fitting
  <2>1. CASE i = n
    BY <1>1, <1>3, <2>1 DEF LongFor, Length
  <2>2. CASE i # n
    <3>1. lines'[i] = lines[i]
      BY <1>2, <1>3, <2>2
    <3>2. LongFor(i)
      BY <1>1, <3>1 DEF LongFor, Length
    <3> QED
      BY <3>1, <3>2 DEF WrapInv, Fitting
  <2> QED
    BY <2>1, <2>2
<1>8. AsMeasured'
  BY <1>1 DEF AsMeasured
<1> QED
  BY <1>4, <1>6, <1>7, <1>8 DEF WrapInv

LEMMA NextLineKeeps == ASSUME WrapInv, NextLine PROVE WrapInv'
<1> DEFINE n == Len(lines)
<1>1. /\ draws = <<>> /\ next \in Words /\ next' = next /\ text' = text /\ draws' = draws
      /\ lines' = Append(lines, <<next, 0>>) /\ n < Len(Widths) /\ next # lines[n][1]
  BY DEF WrapInv, Typed, NextLine, FitsLine, Current, Starts, Words
<1>2. /\ n \in 1..Len(Widths) /\ Words' = Words /\ Len(text) \in Nat /\ Len(Widths) \in Nat
      /\ \A i \in 1..n : lines[i][1] \in Words /\ lines[i][2] \in 0..Len(text)
  BY <1>1, TextType DEF WrapInv, Words
<1>3. /\ Len(lines') = n + 1 /\ lines'[n + 1] = <<next, 0>>
      /\ \A i \in 1..n : lines'[i] = lines[i]
      /\ lines' \in Seq(Words \X (0..Len(text)))
  <2>1. <<next, 0>> \in Words \X (0..Len(text))
    BY <1>1, <1>2
  <2> QED
    BY <1>1, <1>2, <2>1 DEF WrapInv, Typed
<1>4. Typed'
  BY <1>1, <1>2, <1>3 DEF WrapInv, Typed, Words
<1>5. lines[n][2] = next - 1 /\ lines[n][2] \in Words
  BY <1>1, <1>2 DEF WrapInv, InOrder, AtHand, Words
<1>6. InOrder'
  <2>1. lines'[1][1] = 1
    BY <1>2, <1>3 DEF WrapInv, InOrder
  <2>2. \A i \in 1..n : lines'[i][2] \in Words /\ lines'[i + 1][1] = lines'[i][2] + 1
    <3> SUFFICES ASSUME NEW i \in 1..n
                 PROVE  lines'[i][2] \in Words /\ lines'[i + 1][1] = lines'[i][2] + 1
      OBVIOUS
    <3>1. CASE i = n
      BY <1>1, <1>2, <1>3, <1>5, <3>1 DEF Words
    <3>2. CASE i # n
      <4>1. i \in 1..(n - 1) /\ i + 1 \in 1..n
        BY <1>2, <3>2
      <4>2. lines'[i] = lines[i] /\ lines'[i + 1] = lines[i + 1]
        BY <1>3, <4>1
      <4> QED
        BY <4>1, <4>2 DEF WrapInv, InOrder
    <3> QED
      BY <3>1, <3>2
  <2>3. AtHand'
    BY <1>1, <1>2, <1>3 DEF AtHand
  <2> QED
    BY <1>2, <1>3, <2>1, <2>2, <2>3 DEF InOrder
<1>7. Fitting'
  <2> SUFFICES ASSUME NEW i \in 1..(n + 1), lines'[i][2] # 0, LongFor(i)'
               PROVE  i = Len(Widths) \/ lines'[i][1] = lines'[i][2]
    BY <1>2, <1>3 DEF Fitting
  <2>1. i \in 1..n /\ lines'[i] = lines[i]
    BY <1>2, <1>3
  <2>2. LongFor(i)
    BY <1>1, <2>1 DEF LongFor, Length
  <2> QED
    BY <2>1, <2>2 DEF WrapInv, Fitting
<1>8. AsMeasured'
  BY <1>1 DEF AsMeasured
<1> QED
  BY <1>4, <1>6, <1>7, <1>8 DEF WrapInv

LEMMA MeasuredType ==
  ASSUME NEW length \in Int, NEW width \in Nat, NEW draw \in Measured(length, width)
  PROVE  draw \in [kept : Int, truncated : BOOLEAN] /\ (~draw.truncated => draw.kept = length)
<1> DEFINE room == (width * FontSize) \div MinSize
<1>1. room \in Int
  <2>1. width * FontSize \in Int /\ MinSize \in Nat \ {0}
    BY WrappingAssumption
  <2> QED
    BY <2>1
<1>2. draw = Whole(length) \/ draw = Cut(length - 1) \/ draw = Cut(room)
  BY DEF Measured
<1> HIDE DEF room
<1>3. CASE draw = Whole(length)
  BY <1>3 DEF Whole
<1>4. ASSUME NEW shown \in Int, draw = Cut(shown)
      PROVE  draw \in [kept : Int, truncated : BOOLEAN] /\ draw.truncated
  BY <1>4 DEF Cut, Ellipsis
<1> QED
  BY <1>1, <1>2, <1>3, <1>4

LEMMA MeasureKeeps == ASSUME WrapInv, Measure PROVE WrapInv'
<1> DEFINE n == Len(draws) + 1
<1>1. next = Len(text) + 1
  BY WrappedMeansTaken DEF WrapInv, Measure
<1>2. /\ UNCHANGED <<text, next, lines>> /\ n <= Len(lines)
      /\ \E draw \in Measured(Length(lines[n][1], lines[n][2]), Widths[n]) : draws' = Append(draws, draw)
  BY TextType DEF WrapInv, Measure
<1>3. PICK draw \in Measured(Length(lines[n][1], lines[n][2]), Widths[n]) : draws' = Append(draws, draw)
  BY <1>2
<1>4. n \in 1..Len(lines) /\ n \in 1..Len(Widths) /\ lines[n][1] \in Words /\ lines[n][2] \in Words
  <2>1. n \in 1..Len(lines) /\ n \in 1..Len(Widths)
    BY <1>2, TextType DEF WrapInv
  <2>2. lines[n][1] \in Words
    BY <2>1, TextType DEF WrapInv
  <2>3. CASE n = Len(lines)
    BY <1>1, <2>2, <2>3, TextType DEF WrapInv, InOrder, AtHand, Words
  <2>4. CASE n # Len(lines)
    BY <2>1, <2>4, TextType DEF WrapInv, InOrder
  <2> QED
    BY <2>1, <2>2, <2>3, <2>4
<1>5. draw \in [kept : Int, truncated : BOOLEAN]
  <2>1. Length(lines[n][1], lines[n][2]) \in Int /\ Widths[n] \in Nat
    BY <1>4, LengthType, TextType DEF WrapInv
  <2> QED
    BY <2>1, MeasuredType
<1>6. /\ draws' \in Seq([kept : Int, truncated : BOOLEAN]) /\ Len(draws') = n
      /\ draws'[n] = draw /\ \A i \in 1..Len(draws) : draws'[i] = draws[i]
  BY <1>3, <1>5 DEF WrapInv, Typed
<1>7. Typed'
  BY <1>2, <1>6 DEF WrapInv, Typed, Words
<1>8. InOrder' /\ Fitting'
  BY <1>2 DEF WrapInv, InOrder, AtHand, Fitting, LongFor, Length, Words
<1>9. AsMeasured'
  <2>1. \A i \in 1..n : draws'[i] \in Measured(Length(lines[i][1], lines[i][2]), Widths[i])
    <3> SUFFICES ASSUME NEW i \in 1..n
                 PROVE  draws'[i] \in Measured(Length(lines[i][1], lines[i][2]), Widths[i])
      OBVIOUS
    <3>1. CASE i = n
      BY <1>3, <1>6, <3>1
    <3>2. CASE i # n
      <4>1. i \in 1..Len(draws)
        BY <3>2, TextType DEF WrapInv
      <4> QED
        BY <1>6, <4>1 DEF WrapInv, AsMeasured
    <3> QED
      BY <3>1, <3>2
  <2>2. \A i \in 1..n : Length(lines[i][1], lines[i][2])' = Length(lines[i][1], lines[i][2])
    BY <1>2 DEF Length
  <2> QED
    BY <1>1, <1>2, <1>6, <2>1, <2>2 DEF AsMeasured
<1> QED
  BY <1>7, <1>8, <1>9 DEF WrapInv

\* The inductive invariant: the lines follow one another up to the words taken, and each
\* is drawn as it was measured.
THEOREM WrapInvariant == WrapSpec => []WrapInv
<1>1. WrapInv /\ UNCHANGED wrapVars => WrapInv'
  BY DEF wrapVars, WrapInv, Typed, InOrder, AtHand, Fitting, LongFor, AsMeasured, Length, Words
<1>2. WrapInv /\ [WrapNext]_wrapVars => WrapInv'
  BY <1>1, TakeWordKeeps, NextLineKeeps, MeasureKeeps DEF WrapNext
<1> QED
  BY <1>2, InitWrap, PTL DEF WrapSpec

\* Whatever the value and the lines, what is drawn is all of it, in order, or is reported
\* cut.
THEOREM NothingDropped == WrapSpec => []NothingIsDroppedUnsaid
<1>1. ASSUME WrapInv, AllDrawn
      PROVE  /\ lines[1][1] = 1 /\ lines[Current][2] = Len(text)
             /\ \A i \in 1..(Current - 1) : lines[i + 1][1] = lines[i][2] + 1
             /\ \A i \in 1..Current :
                  /\ ~draws[i].truncated => draws[i].kept = Length(lines[i][1], lines[i][2])
                  /\ LongFor(i) => i = Len(Widths) \/ lines[i][1] = lines[i][2]
  <2> USE DEF Current
  <2>1. Len(draws) = Len(lines) /\ Len(lines) \in 1..Len(Widths) /\ Len(Widths) \in Nat /\ Len(text) \in Nat
    BY <1>1, TextType DEF WrapInv, AllDrawn
  <2>2. next = Len(text) + 1
    BY <1>1, <2>1 DEF WrapInv, AsMeasured
  <2>3. lines[Len(lines)][1] \in Words
    BY <1>1, <2>1, TextType DEF WrapInv
  <2>4. lines[Len(lines)][2] = Len(text) /\ Len(text) \in Words
    BY <1>1, <2>1, <2>2, <2>3 DEF WrapInv, InOrder, AtHand, Words
  <2>5. \A i \in 1..Len(lines) : lines[i][1] \in Words /\ lines[i][2] \in Words
    BY <1>1, <2>1, <2>4, TextType DEF WrapInv, InOrder
  <2>6. ASSUME NEW i \in 1..Len(lines), ~draws[i].truncated
        PROVE  draws[i].kept = Length(lines[i][1], lines[i][2])
    <3>1. Length(lines[i][1], lines[i][2]) \in Int /\ i \in 1..Len(Widths)
      BY <1>1, <2>1, <2>5, LengthType DEF WrapInv
    <3>3. Widths[i] \in Nat
      BY <1>1, <3>1, TextType DEF WrapInv
    <3>2. draws[i] \in Measured(Length(lines[i][1], lines[i][2]), Widths[i])
      BY <1>1, <2>1 DEF WrapInv, AsMeasured
    <3> QED
      BY <2>6, <3>1, <3>2, <3>3, MeasuredType
  <2>7. ASSUME NEW i \in 1..Len(lines), LongFor(i)
        PROVE  i = Len(Widths) \/ lines[i][1] = lines[i][2]
    BY <1>1, <2>5, <2>7 DEF WrapInv, Fitting, Words
  <2> QED
    BY <1>1, <2>4, <2>6, <2>7 DEF WrapInv, InOrder
<1>2. WrapInv => NothingIsDroppedUnsaid
  BY <1>1 DEF NothingIsDroppedUnsaid, LongFor
<1> QED
  BY <1>2, WrapInvariant, PTL

-----------------------------------------------------------------------------
\* A line that has words begins before it ends.
Forward == \A i \in 1..Len(lines) : lines[i][2] = 0 \/ lines[i][1] <= lines[i][2]

\* The words of a value end one after another.
LEMMA WordsAscend ==
  ASSUME Typed, NEW from \in Words, NEW to \in Words, from <= to
  PROVE  text[from] \in Nat /\ text[to] \in Nat /\ text[from] <= text[to]
<1> DEFINE Lower == {b \in Words : from <= b /\ text[b] < text[from]}
<1>1. /\ Words \subseteq Nat \ {0} /\ \A b \in Words : text[b] \in Nat
      /\ \A b \in Words : b + 1 \in Words => text[b] + 2 <= text[b + 1]
      /\ \A b \in Words : b - 1 = 0 \/ b - 1 \in Words
  <2>1. text \in Texts /\ text \in Seq(Nat \ {0})
    BY WrappingAssumption DEF Typed
  <2>2. Len(text) \in Nat
    BY <2>1
  <2> QED
    BY <2>1, <2>2, WrappingAssumption DEF Words
<1>2. Lower = {}
  <2> SUFFICES ASSUME Lower # {} PROVE FALSE
    OBVIOUS
  <2>1. Lower \in SUBSET Nat /\ \A b \in Lower : b \in Words /\ from <= b /\ text[b] < text[from]
    BY <1>1
  <2>2. \A b \in Words : from <= b /\ text[b] < text[from] => b \in Lower
    OBVIOUS
  <2> HIDE DEF Lower
  <2>3. PICK b \in Lower : \A c \in Lower : b <= c
    BY <2>1, Least
  <2>4. b # from /\ b - 1 \in Words /\ from <= b - 1
    BY <1>1, <2>1, <2>3
  <2>5. b - 1 \notin Lower
    BY <1>1, <2>1, <2>3
  <2>6. text[b - 1] + 2 <= text[b]
    <3>1. (b - 1) + 1 = b
      BY <1>1, <2>1, <2>3
    <3> QED
      BY <1>1, <2>1, <2>3, <2>4, <3>1
  <2> QED
    BY <1>1, <2>1, <2>2, <2>3, <2>4, <2>5, <2>6
<1> QED
  BY <1>1, <1>2

LEMMA LengthIsPositive ==
  ASSUME Typed, NEW from \in Words, NEW to \in Words, from <= to
  PROVE  Length(from, to) \in Nat \ {0}
<1>1. text[from] \in Nat \ {0} /\ text[to] \in Nat /\ text[from] <= text[to]
  BY WordsAscend, TextType DEF Words
<1>2. CASE from = 1
  BY <1>1, <1>2 DEF Length
<1>3. CASE from # 1
  <2>1. from - 1 \in Words /\ text[from - 1] \in Nat /\ text[from - 1] + 2 <= text[from]
    <3>1. text \in Texts /\ text \in Seq(Nat \ {0}) /\ Len(text) \in Nat
      BY TextType DEF Typed
    <3>2. from - 1 \in 1..(Len(text) - 1) /\ (from - 1) + 1 = from
      BY <1>3, <3>1 DEF Words
    <3>3. text[from - 1] + 2 <= text[(from - 1) + 1]
      BY <3>1, <3>2, WrappingAssumption
    <3> QED
      BY <3>1, <3>2, <3>3 DEF Words
  <2> QED
    BY <1>1, <1>3, <2>1 DEF Length
<1> QED
  BY <1>2, <1>3

\* Shrinking makes room; an ellipsis and a character have room at the smallest size.
LEMMA RoomGrows == ASSUME NEW w \in Nat PROVE (w * FontSize) \div MinSize \in Nat /\ w <= (w * FontSize) \div MinSize
<1>1. FontSize \in Nat /\ MinSize \in Nat \ {0} /\ MinSize <= FontSize
  BY WrappingAssumption
<1>2. \A m, f \in Nat : m <= f => w * m <= w * f
  BY SMTT(30)
<1>3. w * FontSize \in Nat /\ w * MinSize <= w * FontSize /\ w * MinSize \in Nat
  BY <1>1, <1>2
<1>4. \A a \in Nat, b \in Nat \ {0} : a \div b \in Nat /\ b * (a \div b) <= a /\ a < b * ((a \div b) + 1)
  BY SMTT(30)
<1> DEFINE q == (w * FontSize) \div MinSize
<1>5. q \in Nat /\ w * FontSize < MinSize * (q + 1)
  BY <1>1, <1>3, <1>4
<1> HIDE DEF q
<1>6. \A a, b \in Nat, m \in Nat \ {0} : b * m < m * (a + 1) => b <= a
  BY SMTT(30)
<1>7. w <= q
  BY <1>1, <1>3, <1>5, <1>6
<1> QED
  BY <1>5, <1>7 DEF q

LEMMA MeasuredKept ==
  ASSUME NEW length \in Nat \ {0}, NEW width \in Nat, Ellipsis < width, NEW draw \in Measured(length, width)
  PROVE  draw \in [kept : Nat, truncated : BOOLEAN] /\ draw.kept # 0
<1> DEFINE room == (width * FontSize) \div MinSize
<1>1. room \in Nat /\ width <= room
  BY RoomGrows
<1>2. \/ draw = Whole(length)
      \/ draw = Cut(length - 1) /\ ~(length <= width)
      \/ draw = Cut(room)
  BY DEF Measured
<1> HIDE DEF room
<1>3. \E kept \in Nat \ {0}, cut \in BOOLEAN : draw = [kept |-> kept, truncated |-> cut]
  <2>1. CASE draw = Whole(length)
    BY <2>1 DEF Whole
  <2>2. CASE draw = Cut(length - 1) /\ ~(length <= width)
    <3>1. draw = [kept |-> length - 1 - Ellipsis, truncated |-> TRUE]
      BY <2>2 DEF Cut
    <3>2. length - 1 - Ellipsis \in Nat \ {0}
      BY <2>2 DEF Ellipsis
    <3> QED
      BY <3>1, <3>2
  <2>3. CASE draw = Cut(room)
    <3>1. draw = [kept |-> room - Ellipsis, truncated |-> TRUE]
      BY <2>3 DEF Cut
    <3>2. room - Ellipsis \in Nat \ {0}
      BY <1>1 DEF Ellipsis
    <3> QED
      BY <3>1, <3>2
  <2> QED
    BY <1>2, <2>1, <2>2, <2>3
<1> QED
  BY <1>3

LEMMA NextForward == WrapInv /\ Forward /\ [WrapNext]_wrapVars => Forward'
<1> SUFFICES ASSUME WrapInv, Forward, [WrapNext]_wrapVars PROVE Forward'
  OBVIOUS
<1> DEFINE n == Len(lines)
<1>1. n \in Nat \ {0} /\ lines \in Seq(Words \X (0..Len(text))) /\ Len(text) \in Nat /\ next \in Nat
  BY TextType DEF WrapInv, Typed
<1>2. CASE TakeWord
  <2>1. lines' = [lines EXCEPT ![n] = <<lines[n][1], next>>]
    BY <1>2 DEF TakeWord, Current, Starts
  <2>2. lines[n][1] <= next
    BY <1>1 DEF WrapInv, InOrder, AtHand, Words
  <2>3. Len(lines') = n /\ \A i \in 1..n : lines'[i] = IF i = n THEN <<lines[n][1], next>> ELSE lines[i]
    BY <1>1, <2>1
  <2> QED
    BY <2>2, <2>3 DEF Forward
<1>3. CASE NextLine
  <2>1. Len(lines') = n + 1 /\ \A i \in 1..(n + 1) : lines'[i] = IF i = n + 1 THEN <<next, 0>> ELSE lines[i]
    BY <1>1, <1>3 DEF NextLine
  <2> QED
    BY <1>1, <2>1 DEF Forward
<1>4. CASE Measure \/ UNCHANGED wrapVars
  BY <1>4 DEF Measure, wrapVars, Forward
<1> QED
  BY <1>2, <1>3, <1>4 DEF WrapNext

\* Every line that is drawn has words, and something of it is shown.
THEOREM SomethingIsDrawn == WrapSpec => [](WrapTypeOK /\ \A i \in 1..Len(draws) : draws[i].kept # 0)
<1>1. WrapInit => Forward
  BY DEF WrapInit, Forward
<1>2. ASSUME WrapInv, Forward PROVE WrapTypeOK /\ \A i \in 1..Len(draws) : draws[i].kept # 0
  <2>1. Typed /\ Len(lines) \in 1..Len(Widths) /\ Len(draws) \in Nat /\ Len(draws) <= Len(lines)
    BY <1>2, TextType DEF WrapInv, Typed
  <2>2. ASSUME NEW i \in 1..Len(draws)
        PROVE  draws[i] \in [kept : Nat, truncated : BOOLEAN] /\ draws[i].kept # 0
    <3>1. i \in 1..Len(lines) /\ i \in 1..Len(Widths) /\ Len(draws) # 0
      BY <2>1
    <3>2. next = Len(text) + 1
      BY <1>2, <2>1, <3>1 DEF WrapInv, AsMeasured
    <3>3. lines[i][1] \in Words /\ lines[i][2] \in Words
      <4>1. lines[i][1] \in Words
        BY <1>2, <3>1, TextType DEF WrapInv
      <4>2. CASE i = Len(lines)
        BY <1>2, <3>2, <4>1, <4>2, TextType DEF WrapInv, InOrder, AtHand, Words
      <4>3. CASE i # Len(lines)
        <5>1. i \in 1..(Len(lines) - 1)
          BY <2>1, <3>1, <4>3
        <5> QED
          BY <1>2, <4>1, <5>1 DEF WrapInv, InOrder
      <4> QED
        BY <4>1, <4>2, <4>3
    <3>4. lines[i][1] <= lines[i][2]
      <4>1. lines[i][2] # 0
        BY <2>1, <3>3, TextType DEF Words
      <4> QED
        BY <1>2, <3>1, <4>1 DEF Forward
    <3>5. Length(lines[i][1], lines[i][2]) \in Nat \ {0}
      BY <2>1, <3>3, <3>4, LengthIsPositive
    <3>6. Widths[i] \in Nat /\ Ellipsis < Widths[i]
      BY <2>1, <3>1, TextType, WrappingAssumption DEF Lines
    <3>7. draws[i] \in Measured(Length(lines[i][1], lines[i][2]), Widths[i])
      BY <1>2 DEF WrapInv, AsMeasured
    <3> QED
      BY <3>5, <3>6, <3>7, MeasuredKept
  <2>3. draws \in Seq([kept : Nat, truncated : BOOLEAN])
    <3> DEFINE Draw == [kept : Nat, truncated : BOOLEAN]
    <3>1. draws = [i \in 1..Len(draws) |-> draws[i]]
      BY <2>1 DEF Typed
    <3>2. \A i \in 1..Len(draws) : draws[i] \in Draw
      BY <2>2
    <3> HIDE DEF Draw
    <3>3. draws \in [1..Len(draws) -> Draw]
      BY <3>1, <3>2
    <3>4. draws \in Seq(Draw)
      BY <2>1, <3>3
    <3> QED
      BY <3>4 DEF Draw
  <2> QED
    BY <2>1, <2>2, <2>3 DEF Typed, WrapTypeOK, Words
<1> QED
  BY <1>1, <1>2, WrapInvariant, NextForward, PTL DEF WrapSpec

-----------------------------------------------------------------------------
(* Gate *)

\* A side's details come with the party they are of.
PartiesFirst == \A side \in Sides : \A f \in given : f[1] = side => <<side, "party">> \in given

GateInv == GateTypeOK /\ PartiesFirst

LEMMA OwnerOfSide ==
  ASSUME NEW side \in Sides, NEW f, f[1] = side
  PROVE  Owner(f) = <<side, "party">>
<1>1. side \in {"buyer", "seller"}
  BY DEF Sides
<1>2. \A s \in PropertySources : s[1][1] = "property"
  BY DEF PropertySources
<1>3. Page.property = {s[1] : s \in PropertySources}
  BY DEF Page
<1>4. f \notin Page.property /\ f[1] # "brokerage" /\ f[1] \in Sides
  BY <1>1, <1>2, <1>3 DEF Sides
<1> QED
  BY <1>4 DEF Owner

LEMMA InitGateInv == GateInit => GateInv
<1> SUFFICES ASSUME GateInit PROVE GateInv
  OBVIOUS
<1>1. GateTypeOK
  BY DEF GateInit, GateTypeOK
<1>2. \A side \in Sides : <<side, "party">> \in AllFields
  <2>1. \A side \in Sides : <<side, "party">> \in Page.parties
    BY DEF Page
  <2>2. Page.parties \subseteq AllFields
    <3>1. "parties" \in DOMAIN Page
      BY DEF Page
    <3> QED
      BY <3>1 DEF AllFields
  <2> QED
    BY <2>1, <2>2
<1>3. \A side \in Sides : <<side, "party">> \notin With(<<"property", "row">>)
  <2> TAKE side \in Sides
  <2>1. Owner(<<side, "party">>) = <<side, "party">>
    BY OwnerOfSide
  <2>2. <<side, "party">> # <<"property", "row">>
    BY DEF Sides
  <2> QED
    BY <2>1, <2>2 DEF With
<1> QED
  BY <1>1, <1>2, <1>3 DEF GateInv, GateInit, PartiesFirst

LEMMA NextGateInv == GateInv /\ [GateNext]_gateVars => GateInv'
<1> SUFFICES ASSUME GateInv, [GateNext]_gateVars PROVE GateInv'
  OBVIOUS
<1>1. ASSUME NEW field \in AllFields, Enter(field) PROVE GateInv'
  <2>1. PICK fields \in {{field}, With(field)} : given' = given \cup fields
    BY <1>1 DEF Enter
  <2>2. field \in fields /\ fields \subseteq AllFields /\ \A f \in fields : f = field \/ Owner(f) = field
    BY <1>1, <2>1 DEF With
  <2>3. Owner(field) \in given \cup {field}
    BY <1>1 DEF Enter, Open
  <2>4. \A side \in Sides : \A f \in given' : f[1] = side => <<side, "party">> \in given'
    BY <2>1, <2>2, <2>3, OwnerOfSide DEF GateInv, PartiesFirst
  <2> QED
    BY <1>1, <2>1, <2>2, <2>4 DEF GateInv, GateTypeOK, PartiesFirst, Enter
<1>2. ASSUME NEW field \in AllFields, Empty(field) PROVE GateInv'
  <2>1. given' = given \ With(field)
    BY <1>2 DEF Empty
  <2>2. ASSUME NEW side \in Sides, NEW f \in given', f[1] = side PROVE <<side, "party">> \in given'
    <3>1. Owner(f) = <<side, "party">> /\ Owner(<<side, "party">>) = <<side, "party">>
      BY <2>2, OwnerOfSide
    <3>2. f \in AllFields /\ <<side, "party">> \in given
      BY <2>1, <2>2 DEF GateInv, GateTypeOK, PartiesFirst
    <3> QED
      BY <2>1, <3>1, <3>2 DEF With
  <2> QED
    BY <1>2, <2>1, <2>2 DEF GateInv, GateTypeOK, PartiesFirst, Empty
<1>3. CASE UNCHANGED gateVars
  BY <1>3 DEF gateVars, GateInv, GateTypeOK, PartiesFirst
<1> QED
  BY <1>1, <1>2, <1>3 DEF GateNext

-----------------------------------------------------------------------------
(* The mapper: where each kind of blank comes from. *)

Brokerages == {"coopBrokerage", "listingBrokerage"}

LEMMA TypedInHeads ==
  \A f \in TypedIn :
    /\ f[1] \notin Sides \cup {"scheduleA"}
    /\ f[1] = "notices" => f[2] \in {"sellerFax", "buyerFax"}
    /\ f[1] \in Blocks => f \in Blocks \X {"all"}
BY DEF TypedIn, Dates, Blocks, Sides

LEMMA DerivedHeads ==
  \A s \in DerivedSources :
    s[2][1] \in {"purchasePrice", "deposit", "scheduleA"} /\ (s[2][1] = "scheduleA" => s[2][2] = "date")
BY DEF DerivedSources

LEMMA PropertyHeads ==
  \A s \in PropertySources :
    /\ s[2][1] \in {"property", "scheduleA"}
    /\ s[2][1] = "scheduleA" => s[2][2] \in {"propertyLine1", "propertyLine2"}
BY DEF PropertySources

LEMMA BrokerageHeads ==
  \A type \in TransactionTypes : \A s \in BrokerageSources[type] : s[2][1] \in Brokerages
BY DEF BrokerageSources, Block, Brokerages

LEMMA SideHeads ==
  \A side \in Sides : \A s \in SideSources[side] :
    /\ s[1][1] = side
    /\ \/ s[2][1] = side
       \/ s[2] = <<"scheduleA", side>>
       \/ s[2] = Email(side)
BY DEF SideSources

LEMMA EmailIs ==
  \A side \in Sides :
    /\ Email(side)[1] = "notices" /\ Email(side)[2] \in {"buyerEmail", "sellerEmail"}
    /\ \A other \in Sides : Email(side) = Email(other) => side = other
BY DEF Email, Sides

\* Nothing else fills a blank that the parties of a side fill.
LEMMA SideFillsItsOwn ==
  ASSUME NEW type \in TransactionTypes, NEW side \in Sides, NEW s \in SideSources[side],
         NEW t \in Sources[type], t[2] = s[2]
  PROVE  t[1][1] = side
<1>1. side \in {"buyer", "seller"} /\ Sides = {"buyer", "seller"}
  BY DEF Sides
<1>2. s[2][1] = side \/ s[2] = <<"scheduleA", side>> \/ s[2] = Email(side)
  BY SideHeads
<1>3. Email(side)[1] = "notices" /\ Email(side)[2] \in {"buyerEmail", "sellerEmail"}
  BY EmailIs
<1>4. CASE \E other \in Sides : t \in SideSources[other]
  <2>1. PICK other \in Sides : t \in SideSources[other]
    BY <1>4
  <2>2. t[1][1] = other
    BY <2>1, SideHeads
  <2>3. t[2][1] = other \/ t[2] = <<"scheduleA", other>> \/ t[2] = Email(other)
    BY <2>1, SideHeads
  <2>4. Email(other)[1] = "notices" /\ (Email(other) = Email(side) => other = side)
    BY EmailIs
  <2>5. other = side
    BY <1>1, <1>2, <1>3, <2>3, <2>4
  <2> QED
    BY <2>2, <2>5
<1>5. t \notin PropertySources
  BY <1>1, <1>2, <1>3, PropertyHeads
<1>6. t \notin BrokerageSources[type]
  BY <1>1, <1>2, <1>3, BrokerageHeads DEF Brokerages
<1>7. t \notin DerivedSources
  BY <1>1, <1>2, <1>3, DerivedHeads
<1>8. t \notin {<<f, f>> : f \in TypedIn}
  BY <1>1, <1>2, <1>3, TypedInHeads
<1>9. Sources[type] = DomainSources[type] \cup DerivedSources \cup {<<f, f>> : f \in TypedIn}
  BY DEF Sources
<1>10. DomainSources[type] =
         SideSources["buyer"] \cup SideSources["seller"] \cup PropertySources \cup BrokerageSources[type]
  BY DEF DomainSources
<1> QED
  BY <1>1, <1>4, <1>5, <1>6, <1>7, <1>8, <1>9, <1>10

\* So what is left out because nobody is on a side is not filled in.
LEMMA ExcusedIsEmpty ==
  ASSUME GateInv
  PROVE  Excused(given) \cap Merged(kind, given) = {}
<1> SUFFICES ASSUME NEW b \in Excused(given), b \in Merged(kind, given) PROVE FALSE
  OBVIOUS
<1>1. PICK side \in AbsentSides(given) : \E s \in SideSources[side] : s[2] = b
  BY DEF Excused
<1>2. PICK t \in Sources[kind] : t[2] = b /\ t[1] \in given
  BY DEF Merged
<1>3. side \in Sides /\ <<side, "party">> \notin given
  BY <1>1 DEF AbsentSides
<1>4. t[1][1] = side
  BY <1>1, <1>2, <1>3, SideFillsItsOwn DEF GateInv, GateTypeOK
<1> QED
  BY <1>2, <1>3, <1>4 DEF GateInv, PartiesFirst

-----------------------------------------------------------------------------
(* The template: a blank is one of the plain ones or a line of a block. *)

LEMMA PlainHeads == \A b \in PlainBlanks : b[1] \notin Blocks
<1>1. \A type \in TransactionTypes : \A s \in DomainSources[type] : s[2][1] \notin Blocks
  <2> SUFFICES ASSUME NEW type \in TransactionTypes, NEW s \in DomainSources[type]
      PROVE s[2][1] \notin Blocks
    OBVIOUS
  <2>1. Blocks \cap (Sides \cup Brokerages \cup {"scheduleA", "notices", "property"}) = {}
    BY DEF Blocks, Sides, Brokerages
  <2>2. ASSUME NEW side \in Sides, s \in SideSources[side] PROVE s[2][1] \notin Blocks
    <3>1. s[2][1] \in Sides \cup {"scheduleA", "notices"}
      BY <2>2, SideHeads, EmailIs
    <3> QED
      BY <2>1, <3>1
  <2>3. s \in PropertySources \cup BrokerageSources[type] => s[2][1] \notin Blocks
    BY <2>1, PropertyHeads, BrokerageHeads
  <2>4. "buyer" \in Sides /\ "seller" \in Sides
    BY DEF Sides
  <2> QED
    BY <2>2, <2>3, <2>4 DEF DomainSources
<1>2. \A s \in DerivedSources : s[2][1] \notin Blocks
  BY DerivedHeads DEF Blocks
<1>3. \A f \in TypedIn \ (Blocks \X {"all"}) : f[1] \notin Blocks
  BY TypedInHeads
<1>4. "LISTING" \in TransactionTypes /\ "PURCHASE" \in TransactionTypes
  BY DEF TransactionTypes
<1> QED
  BY <1>1, <1>2, <1>3, <1>4 DEF PlainBlanks

LEMMA ExcusedAreReportable == Excused(given) \subseteq ReportableBlankNames
<1> SUFFICES ASSUME NEW side \in Sides, NEW s \in SideSources[side] PROVE s[2] \in PlainBlanks
  <2>1. ASSUME NEW b \in Excused(given), \A side \in Sides : \A s \in SideSources[side] : s[2] \in PlainBlanks
        PROVE  b \in PlainBlanks
    <3>1. PICK side \in AbsentSides(given) : \E s \in SideSources[side] : s[2] = b
      BY DEF Excused
    <3> QED
      BY <2>1, <3>1 DEF AbsentSides
  <2> QED
    BY <2>1 DEF ReportableBlankNames
<1>1. s \in SideSources["buyer"] \cup SideSources["seller"]
  BY DEF Sides
<1>2. s \in DomainSources["LISTING"]
  BY <1>1 DEF DomainSources, TransactionTypes
<1> QED
  BY <1>2 DEF PlainBlanks

\* What the fill finds missing is what is reportable and has no value.
LEMMA MissingIs == Missing = ReportableBlankNames \ Merged(kind, given)
<1>1. \A c \in Blocks : \A n \in 1..4 : Line(c, n)[1] = c
  BY DEF Line
<1>2. \A c, d \in Blocks : Line(c, 1) = Line(d, 1) => c = d
  BY <1>1
<1>3. \A c \in Blocks : Line(c, 1) \in LinesOf(c) /\ \A l \in LinesOf(c) : l[1] = c
  BY <1>1 DEF LinesOf
<1>4. PlainBlanks \cap Drawn = PlainBlanks \cap Merged(kind, given)
  <2>1. \A c \in Blocks : Line(c, 1) \notin PlainBlanks
    BY <1>1, PlainHeads
  <2> QED
    BY <2>1 DEF Drawn
<1>5. \A c \in Blocks : LinesOf(c) \cap Drawn = {} <=> <<c, "all">> \notin Merged(kind, given)
  <2> SUFFICES ASSUME NEW c \in Blocks
      PROVE LinesOf(c) \cap Drawn = {} <=> <<c, "all">> \notin Merged(kind, given)
    OBVIOUS
  <2>1. <<c, "all">> \in Merged(kind, given) => Line(c, 1) \in Drawn
    BY DEF Drawn
  <2>2. ASSUME NEW l \in LinesOf(c), l \in Drawn PROVE <<c, "all">> \in Merged(kind, given)
    <3>1. l[1] = c
      BY <1>3
    <3>2. l \notin PlainBlanks
      BY <3>1, PlainHeads
    <3>3. PICK d \in Blocks : <<d, "all">> \in Merged(kind, given) /\ l = Line(d, 1)
      BY <2>2, <3>2 DEF Drawn
    <3> QED
      BY <1>1, <3>1, <3>3
  <2> QED
    BY <1>3, <2>1, <2>2
<1>6. \A b : b \in Missing <=> \/ b \in PlainBlanks /\ b \notin Merged(kind, given)
                               \/ \E c \in Blocks : b = <<c, "all">> /\ b \notin Merged(kind, given)
  BY <1>4, <1>5 DEF Missing
<1>7. \A b : b \in ReportableBlankNames <=> b \in PlainBlanks \/ \E c \in Blocks : b = <<c, "all">>
  BY DEF ReportableBlankNames
<1> QED
  BY <1>6, <1>7

\* The gate and the fill agree, whichever fields are filled in: not only those near to
\* empty or to full.
THEOREM GateIsTheFill == GateSpec => []GateAndFillAgree
<1>1. GateInv => GateAndFillAgree
  <2> SUFFICES ASSUME GateInv PROVE GateAndFillAgree
    OBVIOUS
  <2>1. {f.field : f \in MissingBlanks(kind, given)} =
          ReportableBlankNames \ (Excused(given) \cup Merged(kind, given))
    <3> DEFINE blanks == ReportableBlankNames \ (Excused(given) \cup Merged(kind, given))
    <3>1. \A b : Failure(b, AreaOf(kind, b)).field = b
      BY DEF Failure
    <3>2. MissingBlanks(kind, given) = {Failure(b, AreaOf(kind, b)) : b \in blanks}
      BY DEF MissingBlanks
    <3> HIDE DEF blanks
    <3>3. {f.field : f \in MissingBlanks(kind, given)} = blanks
      BY <3>1, <3>2
    <3> QED
      BY <3>3 DEF blanks
  <2>2. {f.field : f \in MissingBlanks(kind, given)} \cup Excused(given) = Missing
    BY <2>1, MissingIs, ExcusedIsEmpty, ExcusedAreReportable
  <2>3. ASSUME Failures(kind, given) = {}
        PROVE  Missing = {} /\ FilledCount = Cardinality(ReportableBlankNames)
    <3>1. MissingBlanks(kind, given) = {} /\ AbsentSides(given) = {}
      BY <2>3 DEF Failures
    <3>2. Excused(given) = {}
      BY <3>1 DEF Excused
    <3>3. Missing = {}
      BY <2>2, <3>1, <3>2
    <3>4. ReportableBlankNames \cap Merged(kind, given) = ReportableBlankNames
      BY <3>3, MissingIs
    <3> QED
      BY <3>3, <3>4 DEF FilledCount
  <2> QED
    BY <2>2, <2>3 DEF GateAndFillAgree
<1> QED
  BY <1>1, InitGateInv, NextGateInv, PTL DEF GateSpec

-----------------------------------------------------------------------------
(* Signers *)

LEMMA InitSignersTypeOK == SignersInit => SignersTypeOK
BY SignersAssumption DEF SignersInit, SignersTypeOK, Live

LEMMA NextSignersTypeOK == SignersTypeOK /\ [SignersNext]_signersVars => SignersTypeOK'
BY SignersAssumption
DEF SignersTypeOK, Live, Ids, SignersNext, signersVars, AddParty, EditParty, DropParty

LEMMA LiveIs ==
  ASSUME SignersTypeOK
  PROVE  /\ Live \subseteq Nat /\ IsFiniteSet(Live) /\ Cardinality(Live) \in Nat
         /\ \A p \in Live : party[p].role \in Roles /\ party[p].order \in Nat \cup {Unset}
<1>1. IsFiniteSet(Ids)
  BY SignersAssumption, FS_Interval DEF Ids
<1>2. Live \in SUBSET Ids
  BY DEF Live
<1>3. IsFiniteSet(Live)
  BY <1>1, <1>2, FS_Subset
<1> QED
  BY <1>2, <1>3, FS_CardinalityType, SignersAssumption DEF SignersTypeOK, Live, Ids, Person, Orders

\* listTransactionParties puts any two parties one before the other.
LEMMA BeforeIsAnOrder ==
  ASSUME SignersTypeOK, NEW p \in Live, NEW q \in Live
  PROVE  /\ ~Before(p, p)
         /\ p # q => Before(p, q) \/ Before(q, p)
         /\ \A r \in Live : Before(p, q) /\ Before(q, r) => Before(p, r)
BY LiveIs, SignersAssumption DEF Before

\* So a party's place in a list is its own, and among as many places as there are parties.
LEMMA PlaceIs ==
  ASSUME SignersTypeOK, NEW among \in SUBSET Live
  PROVE  /\ IsFiniteSet(among)
         /\ \A p \in among : Place(p, among) \in 1..Cardinality(among)
         /\ \A p, q \in among : Before(p, q) => Place(p, among) < Place(q, among)
         /\ \A p, q \in among : p # q => Place(p, among) # Place(q, among)
<1> DEFINE before == {pair \in among \X among : Before(pair[1], pair[2])}
           rank == [p \in among |-> Cardinality({q \in among : <<q, p>> \in before}) + 1]
<1>1. IsFiniteSet(among)
  BY LiveIs, FS_Subset
<1>2. \A p, q \in among : <<p, q>> \in before <=> Before(p, q)
  OBVIOUS
<1>3. \A p \in among : rank[p] = Place(p, among)
  <2> TAKE p \in among
  <2>1. {q \in among : <<q, p>> \in before} = {q \in among : Before(q, p)}
    BY <1>2
  <2> HIDE DEF before
  <2> QED
    BY <2>1 DEF Place
<1>4. /\ \A p \in among : <<p, p>> \notin before
      /\ \A p, q \in among : p # q => <<p, q>> \in before \/ <<q, p>> \in before
      /\ \A p, q, r \in among : <<p, q>> \in before /\ <<q, r>> \in before => <<p, r>> \in before
  <2> HIDE DEF before
  <2> QED
    BY <1>2, BeforeIsAnOrder
<1> HIDE DEF before
<1>5. /\ rank \in Injection(among, 1..Cardinality(among))
      /\ \A p, q \in among : <<p, q>> \in before <=> rank[p] < rank[q]
  BY <1>1, <1>4, RankIs
<1> HIDE DEF rank
<1>6. /\ \A p \in among : rank[p] \in 1..Cardinality(among)
      /\ \A p, q \in among : rank[p] = rank[q] => p = q
  BY <1>5 DEF Injection, IsInjective
<1> QED
  BY <1>1, <1>2, <1>3, <1>5, <1>6

\* The turns are 1, 2 ... as many as there are parties.
LEMMA TurnsAreAll ==
  ASSUME SignersTypeOK
  PROVE  {SigningOrder(p) : p \in Live} = 1..Cardinality(Live)
<1> DEFINE turn == [p \in Live |-> SigningOrder(p)]
           n == Cardinality(Live)
<1>1. turn \in Injection(Live, 1..n)
  BY PlaceIs DEF SigningOrder, Injection, IsInjective
<1>2. n \in Nat /\ IsFiniteSet(1..n) /\ Cardinality(1..n) = n
  BY LiveIs, FS_Interval
<1>3. turn \in Surjection(Live, 1..n)
  BY <1>1, <1>2, FS_Injection
<1>4. \A t \in 1..n : \E p \in Live : turn[p] = t
  BY <1>3 DEF Surjection
<1>5. \A p \in Live : SigningOrder(p) \in 1..n
  BY PlaceIs DEF SigningOrder
<1> QED
  BY <1>4, <1>5

\* However signNow lists the invites, a signer's own is there.
LEMMA InviteIsOwn ==
  ASSUME NEW n \in Nat, NEW listing \in Listings(n), NEW order \in 1..n
  PROVE  InviteOf(order, listing) = order
<1>1. listing \in Injection(1..n, 1..n)
  BY DEF Listings, Injection, IsInjective
<1>2. IsFiniteSet(1..n)
  BY FS_Interval
<1>3. listing \in Surjection(1..n, 1..n)
  BY <1>1, <1>2, FS_Injection
<1>4. DOMAIN listing = 1..n /\ \E i \in 1..n : listing[i] = order
  BY <1>3 DEF Surjection
<1> QED
  BY <1>4 DEF InviteOf

\* The first line of a side is its first party's; a line is one party's of one role.
LEMMA BoxIs ==
  ASSUME SignersTypeOK, NEW p \in Live
  PROVE  /\ BoxOf(p) \in {"buyer1", "seller1"} <=> p \in Addressee("BUYER") \cup Addressee("SELLER")
         /\ \A q \in Live : p # q /\ BoxOf(p) = BoxOf(q) => BoxOf(p) = "none"
<1>1. /\ SameRole(p) \in SUBSET Live /\ p \in SameRole(p)
      /\ Place(p, SameRole(p)) \in Nat \ {0}
  <2>1. SameRole(p) \in SUBSET Live /\ p \in SameRole(p)
    BY DEF SameRole
  <2>2. Cardinality(SameRole(p)) \in Nat
    BY <2>1, PlaceIs, FS_CardinalityType
  <2> QED
    BY <2>1, <2>2, PlaceIs
<1>2. party[p].role \in Roles
  BY LiveIs
<1>3. BoxOf(p) \in {"buyer1", "seller1"} <=> p \in Addressee("BUYER") \cup Addressee("SELLER")
  BY <1>1, <1>2 DEF BoxOf, Prefix, Addressee, Roles
<1>4. ASSUME NEW q \in Live, p # q, BoxOf(p) = BoxOf(q) PROVE BoxOf(p) = "none"
  <2>1. party[q].role \in Roles
    BY LiveIs
  <2>2. CASE party[q].role = party[p].role
    <3>1. SameRole(q) = SameRole(p) /\ q \in SameRole(p)
      BY <2>2 DEF SameRole
    <3>2. Place(q, SameRole(p)) # Place(p, SameRole(p)) /\ Place(q, SameRole(p)) \in Nat \ {0}
      <4>1. Cardinality(SameRole(p)) \in Nat
        BY <1>1, PlaceIs, FS_CardinalityType
      <4> QED
        BY <1>1, <1>4, <3>1, <4>1, PlaceIs
    <3> QED
      BY <1>1, <1>2, <1>4, <2>2, <3>1, <3>2 DEF BoxOf, Prefix, Roles
  <2>3. CASE party[q].role # party[p].role
    BY <1>2, <1>4, <2>1, <2>3 DEF BoxOf, Prefix, Roles
  <2> QED
    BY <2>2, <2>3
<1> QED
  BY <1>3, <1>4

\* Who signs where is who the form names there, for any number of parties and positions
\* and any order in which signNow lists the invites.
THEOREM OwnLines == SignersSpec => []EachSignsTheirOwnLine
<1>1. SignersTypeOK => EachSignsTheirOwnLine
  <2> SUFFICES ASSUME SignersTypeOK, Sendable, NEW listing \in Listings(Cardinality(Live))
      PROVE LET signer == Envelope(listing)
            IN /\ \A p \in Live :
                    /\ signer[p].box \in {"buyer1", "seller1"} <=>
                         p \in Addressee("BUYER") \cup Addressee("SELLER")
                    /\ signer[p].invite = signer[p].order
               /\ \A p, q \in Live : p # q => signer[p].box # signer[q].box
               /\ {signer[p].order : p \in Live} = 1..Cardinality(Live)
               /\ \A p, q \in Live :
                    party[p].order # Unset => (party[p].order < party[q].order <=>
                                               signer[p].order < signer[q].order)
    BY DEF EachSignsTheirOwnLine
  <2>1. \A p \in Live : /\ Envelope(listing)[p].box = BoxOf(p)
                        /\ Envelope(listing)[p].order = SigningOrder(p)
                        /\ Envelope(listing)[p].invite = InviteOf(SigningOrder(p), listing)
    BY DEF Envelope
  <2>2. \A p \in Live : SigningOrder(p) \in 1..Cardinality(Live)
    BY PlaceIs DEF SigningOrder
  <2>3. \A p \in Live : InviteOf(SigningOrder(p), listing) = SigningOrder(p)
    BY <2>2, LiveIs, InviteIsOwn
  <2>4. \A p, q \in Live : p # q => BoxOf(p) # BoxOf(q)
    <3>1. \A p \in Live : BoxOf(p) # "none"
      BY DEF Sendable, Placeable, Boxes
    <3> QED
      BY <3>1, BoxIs
  <2>5. {Envelope(listing)[p].order : p \in Live} = 1..Cardinality(Live)
    BY <2>1, TurnsAreAll
  <2>6. ASSUME NEW p \in Live, NEW q \in Live, party[p].order # Unset
        PROVE  party[p].order < party[q].order <=> SigningOrder(p) < SigningOrder(q)
    <3>1. party[p].order \in Nat /\ party[q].order \in Nat /\ (p # q => party[p].order # party[q].order)
      BY <2>6, LiveIs DEF Sendable, Resolvable
    <3>2. p # q => (Before(p, q) <=> party[p].order < party[q].order)
                   /\ (Before(q, p) <=> party[q].order < party[p].order)
      BY <3>1, SignersAssumption DEF Before
    <3>3. SigningOrder(p) \in Nat /\ SigningOrder(q) \in Nat
      BY <2>2, LiveIs
    <3>4. (Before(p, q) => SigningOrder(p) < SigningOrder(q))
          /\ (Before(q, p) => SigningOrder(q) < SigningOrder(p))
      BY PlaceIs DEF SigningOrder
    <3> QED
      BY <3>1, <3>2, <3>3, <3>4
  <2> QED
    BY <2>1, <2>3, <2>4, <2>5, <2>6, BoxIs
<1> QED
  BY <1>1, InitSignersTypeOK, NextSignersTypeOK, PTL DEF SignersSpec
=============================================================================
