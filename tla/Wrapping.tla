------------------------------ MODULE Wrapping ------------------------------
(***************************************************************************)
(* Drawing one value on a form (src/modules/forms/fill.service.ts): the    *)
(* words of a value are spread over the ruled lines of a block, and what   *)
(* is on each line is drawn at its size, shrunk to fit, or cut.  A blank   *)
(* of one line is a block of one line.                                     *)
(*                                                                         *)
(* Every character is one wide.  A value is where each of its words ends:  *)
(* <<3, 8>> is a word of three and one of four, a space between them.  A   *)
(* line is the first and the last of its words.                            *)
(*                                                                         *)
(* The definition commented "Mutant" is a plausible bug in the one that    *)
(* follows it, not part of the model.                                      *)
(***************************************************************************)
EXTENDS Integers, Sequences

CONSTANTS
  Texts,      \* values that may be drawn
  Widths,     \* the characters each line has room for, at its size
  FontSize,   \* the size of the block
  MinSize     \* MIN_FONT_SIZE

Ellipsis == 3

Lines == 1..Len(Widths)

\* A line is wide enough for a character and an ellipsis.
ASSUME WrappingAssumption ==
  /\ MinSize \in Nat \ {0} /\ FontSize \in Nat /\ MinSize <= FontSize
  /\ Widths \in Seq(Nat \ {0}) /\ Widths # <<>>
  /\ \A i \in Lines : Ellipsis < Widths[i]
  /\ \A t \in Texts :
       /\ t \in Seq(Nat \ {0}) /\ t # <<>>
       /\ \A n \in 1..(Len(t) - 1) : t[n] + 2 <= t[n + 1]

VARIABLES
  text,    \* the value
  next,    \* wrapAcross: the first of the remaining words
  lines,   \* what is on each line
  draws    \* measure: of each line, how much is drawn and whether that was reported cut

wrapVars == <<text, next, lines, draws>>

WrapTypeOK ==
  /\ text \in Texts
  /\ next \in 1..(Len(text) + 1)
  /\ lines \in Seq((1..Len(text)) \X (0..Len(text))) /\ Len(lines) <= Len(Widths)
  /\ draws \in Seq([kept : Nat, truncated : BOOLEAN]) /\ Len(draws) <= Len(lines)

WrapInit ==
  /\ text \in Texts
  /\ next = 1
  /\ lines = <<<<1, 0>>>>
  /\ draws = <<>>

-----------------------------------------------------------------------------
Length(from, to) == text[to] - (IF from = 1 THEN 0 ELSE text[from - 1] + 1)

Current == Len(lines)

Starts == lines[Current][1]

\* Mutant: the last line, too, takes only what fits.
FitsLine_EvenLast == next = Starts \/ Length(Starts, next) <= Widths[Current]

\* A line takes a word that fits at the block's size, or its first whatever its length;
\* the last takes whatever is left.
FitsLine ==
  next = Starts \/ Current = Len(Widths) \/ Length(Starts, next) <= Widths[Current]

\* wrapAcross
TakeWord ==
  /\ draws = <<>> /\ next <= Len(text)
  /\ FitsLine
  /\ lines' = [lines EXCEPT ![Current] = <<Starts, next>>]
  /\ next' = next + 1
  /\ UNCHANGED <<text, draws>>

NextLine ==
  /\ draws = <<>> /\ next <= Len(text)
  /\ ~FitsLine /\ Current < Len(Widths)
  /\ lines' = Append(lines, <<next, 0>>)
  /\ UNCHANGED <<text, next, draws>>

\* Every word taken, or the lines used up.
Wrapped == next <= Len(text) => ~FitsLine /\ Current = Len(Widths)

-----------------------------------------------------------------------------
Whole(length) == [kept |-> length, truncated |-> FALSE]

\* truncateToWidth: the longest beginning that fits with an ellipsis after it.
Cut(room) == [kept |-> room - Ellipsis, truncated |-> TRUE]

\* fitFontSize finds the size at which the line just fits and measure measures it again
\* at that size: the product of two roundings may come out a hair too wide.  A line that
\* does not fit at the smallest size is cut to what does.
Measured(length, width) ==
  IF length <= width THEN {Whole(length)}
  ELSE IF length * MinSize <= width * FontSize
       THEN {Whole(length), Cut(length - 1)}
       ELSE {Cut((width * FontSize) \div MinSize)}

Measure ==
  /\ Wrapped /\ Len(draws) < Len(lines)
  /\ LET i == Len(draws) + 1
     IN \E draw \in Measured(Length(lines[i][1], lines[i][2]), Widths[i]) :
          draws' = Append(draws, draw)
  /\ UNCHANGED <<text, next, lines>>

WrapNext == TakeWord \/ NextLine \/ Measure

WrapSpec == WrapInit /\ [][WrapNext]_wrapVars

-----------------------------------------------------------------------------
AllDrawn == Len(draws) = Len(lines)

\* "more use than dropping the tail silently" (fill.service.ts:244): once a value is drawn,
\* its words are on its lines in order and none is missing; a line is drawn whole or
\* reported cut; and only a word too long for its line, or the last line, is not at the
\* block's size.
NothingIsDroppedUnsaid ==
  AllDrawn =>
    /\ lines[1][1] = 1 /\ lines[Current][2] = Len(text)
    /\ \A i \in 1..(Current - 1) : lines[i + 1][1] = lines[i][2] + 1
    /\ \A i \in 1..Current :
         LET length == Length(lines[i][1], lines[i][2])
         IN /\ ~draws[i].truncated => draws[i].kept = length
            /\ length > Widths[i] => i = Len(Widths) \/ lines[i][1] = lines[i][2]

=============================================================================
