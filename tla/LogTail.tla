------------------------------- MODULE LogTail -------------------------------
(***************************************************************************)
(* The logs of other programs in a report (logs/LogTailer.cpp): the newest *)
(* file that fits a pattern, and the end of it or the lines around the     *)
(* crash.  A text is a sequence of characters; all but line ends are       *)
(* alike, except that a number above 0 stands for the time stamp that a    *)
(* line may begin with.                                                    *)
(***************************************************************************)
EXTENDS Integers, Sequences, FiniteSets, SequencesExt, Ordering

CONSTANTS
  Logs, Dirs,         \* the texts, and the directories with a pattern each, that are looked at
  ByteLimits,         \* the end of a log that is read: a megabyte
  LineLimits,         \* how many lines a report asks for
  Windows             \* times of a crash, with seconds before and after it

ASSUME LogsAssumption ==
  /\ Logs \subseteq Seq(Int)
  /\ ByteLimits \subseteq Nat /\ LineLimits \subseteq Nat
  /\ \A d \in Dirs :
       /\ d[1] \in Seq([name : Seq(STRING), time : Nat, isDir : BOOLEAN])
       /\ d[2] \in Seq(STRING)

NL == 0
Other == -1
CR == -2

LastOf(seq, n) == SubSeq(seq, (IF Len(seq) > n THEN Len(seq) - n ELSE 0) + 1, Len(seq))

\* Mutant: a line is dropped also when the whole log is read.
ReadTailBytesCut(log, maxBytes, got) ==
  LET text == LastOf(log, maxBytes)
      newlines == {i \in DOMAIN text : text[i] = NL}
      first == CHOOSE i \in newlines : \A j \in newlines : i <= j
  IN IF newlines # {} THEN SubSeq(text, first + 1, Len(text)) ELSE text

\* At most maxBytes from the end, without what is left of the line they begin in.  got: how many
\* of them could be read; if not all, the beginning is left as it is.
ReadTailBytes(log, maxBytes, got) ==
  LET text == LastOf(log, maxBytes)
      newlines == {i \in DOMAIN text : text[i] = NL}
      first == CHOOSE i \in newlines : \A j \in newlines : i <= j
  IN IF got < Len(text) THEN SubSeq(text, 1, got)
     ELSE IF Len(log) > maxBytes /\ newlines # {} THEN SubSeq(text, first + 1, Len(text))
     ELSE text

WithoutCR(line) == IF line # <<>> /\ Last(line) = CR THEN Front(line) ELSE line

SplitLines(text) ==
  LET read[i \in 0..Len(text)] ==
        IF i = 0 THEN [lines |-> <<>>, start |-> 1]
        ELSE LET s == read[i - 1] IN
             IF text[i] = NL
             THEN [lines |-> Append(s.lines, WithoutCR(SubSeq(text, s.start, i - 1))), start |-> i + 1]
             ELSE s
      s == read[Len(text)]
  IN IF s.start > Len(text) THEN s.lines
     ELSE Append(s.lines, WithoutCR(SubSeq(text, s.start, Len(text))))

\* A ring of maxLines lines, read from its head when it has gone round.
TailLines(text, maxLines) ==
  LET lines == SplitLines(text)
      push[i \in 0..Len(lines)] ==
        IF i = 0 THEN [ring |-> <<>>, head |-> 0]
        ELSE LET s == push[i - 1] IN
             IF Len(s.ring) < maxLines THEN [ring |-> Append(s.ring, lines[i]), head |-> s.head]
             ELSE [ring |-> [s.ring EXCEPT ![s.head + 1] = lines[i]], head |-> (s.head + 1) % maxLines]
      s == push[Len(lines)]
  IN IF maxLines = 0 THEN <<>>
     ELSE [k \in 1..Len(s.ring) |-> s.ring[((s.head + k - 1) % Len(s.ring)) + 1]]

IsStamped(line) == line # <<>> /\ line[1] > 0

InWindow(line, crashTime, windowSec) == line[1] >= crashTime - windowSec /\ line[1] <= crashTime + windowSec

\* Mutant: a line without a time stamp does not depend on the one before it.
WindowAroundAnyUnstamped(text, crashTime, windowSec, maxLines) ==
  LET lines == SplitLines(text)
  IN LastOf(Selected(lines, {i \in DOMAIN lines : IsStamped(lines[i]) => InWindow(lines[i], crashTime, windowSec)}), maxLines)

\* The lines stamped within the window, each with the lines without a stamp that follow it.
WindowAround(text, crashTime, windowSec, maxLines) ==
  LET lines == SplitLines(text)
      within[i \in 0..Len(lines)] ==
        IF i = 0 THEN FALSE
        ELSE IF IsStamped(lines[i]) THEN InWindow(lines[i], crashTime, windowSec) ELSE within[i - 1]
  IN LastOf(Selected(lines, {i \in DOMAIN lines : within[i]}), maxLines)

\* Where the match is: at p of the pattern and n of the name, with the last star before p, which has
\* taken the name up to mark.
MatchStates(pattern, name) ==
  {s \in [p : 1..Len(pattern) + 1, n : 1..Len(name) + 1, star : 0..Len(pattern), mark : 0..Len(name) + 1] :
     s.star < s.p /\ s.mark <= s.n}

\* Where it ends: at the end of the name, or at a difference that no star can take.  On a
\* difference the last star takes one more character.
MatchEnd(pattern, name) ==
  LET run[s \in MatchStates(pattern, name)] ==
        IF s.n > Len(name) THEN s
        ELSE IF s.p <= Len(pattern) /\ pattern[s.p] = "*"
             THEN run[[p |-> s.p + 1, n |-> s.n, star |-> s.p, mark |-> s.n]]
        ELSE IF s.p <= Len(pattern) /\ pattern[s.p] \in {"?", name[s.n]}
             THEN run[[p |-> s.p + 1, n |-> s.n + 1, star |-> s.star, mark |-> s.mark]]
        ELSE IF s.star # 0
             THEN run[[p |-> s.star + 1, n |-> s.mark + 1, star |-> s.star, mark |-> s.mark + 1]]
        ELSE s
  IN run[[p |-> 1, n |-> 1, star |-> 0, mark |-> 0]]

\* Mutant: stars at the end of the pattern are not skipped.
GlobMatchToItsEnd(pattern, name) ==
  LET s == MatchEnd(pattern, name) IN s.n > Len(name) /\ s.p > Len(pattern)

GlobMatch(pattern, name) ==
  LET s == MatchEnd(pattern, name)
  IN s.n > Len(name) /\ \A i \in s.p..Len(pattern) : pattern[i] = "*"

NoFile == [name |-> <<>>, time |-> 0, isDir |-> FALSE]

\* In the order of the directory: of two that are as new, the first.
FindNewestMatching(dir, glob) ==
  LET newest[i \in 0..Len(dir)] ==
        IF i = 0 THEN 0
        ELSE LET k == newest[i - 1] IN
             IF ~dir[i].isDir /\ GlobMatch(glob, dir[i].name) /\ (k = 0 \/ dir[i].time > dir[k].time) THEN i ELSE k
      k == newest[Len(dir)]
  IN IF k = 0 THEN NoFile ELSE dir[k]

----------------------------------------------------------------------------
(* What a report shows of a log *)

\* The line of a text that begins at a place, and the lines from there on.
LineAt(text, i) ==
  LET ends == {j \in i..Len(text) : text[j] = NL} \cup {Len(text) + 1}
  IN WithoutCR(SubSeq(text, i, (CHOOSE j \in ends : \A k \in ends : j <= k) - 1))
LinesFrom(text, from) ==
  LET starts == Ascending({i \in from..Len(text) : i = from \/ text[i - 1] = NL}) IN [k \in DOMAIN starts |-> LineAt(text, starts[k])]

\* The end of a log is whole lines, the last of them and as many as were asked for, unless fewer
\* lie behind the first line end among the bytes that are read.  A last line longer than all of
\* those bytes is cut.
TailIsExact(log, maxBytes, maxLines) ==
  LET newlines == {i \in DOMAIN log : i > Len(log) - maxBytes /\ log[i] = NL}
      from == IF Len(log) <= maxBytes THEN 1
              ELSE IF newlines = {} THEN Len(log) - maxBytes + 1
              ELSE 1 + CHOOSE i \in newlines : \A j \in newlines : i <= j
  IN TailLines(ReadTailBytes(log, maxBytes, Len(log)), maxLines) = LastOf(LinesFrom(log, from), maxLines)

\* The window holds a line exactly if the last time stamp at or before it is in it.
WindowIsExact(text, crashTime, windowSec, maxLines) ==
  LET lines == LinesFrom(text, 1)
      Within(i) == \E j \in 1..i : /\ IsStamped(lines[j]) /\ InWindow(lines[j], crashTime, windowSec)
                                   /\ \A k \in j + 1..i : ~IsStamped(lines[k])
  IN WindowAround(text, crashTime, windowSec, maxLines) = LastOf(Selected(lines, {i \in DOMAIN lines : Within(i)}), maxLines)

\* A name fits a pattern if it can be cut in pieces, one for each character of the pattern.
Fits(pattern, name) ==
  \E cut \in [1..Len(pattern) + 1 -> 0..Len(name)] :
    /\ cut[1] = 0 /\ cut[Len(pattern) + 1] = Len(name)
    /\ \A i \in DOMAIN pattern :
         \/ pattern[i] = "*" /\ cut[i] <= cut[i + 1]
         \/ cut[i + 1] = cut[i] + 1 /\ pattern[i] \in {"?", name[cut[i + 1]]}

\* The log is the newest of the files whose names fit, the first of those as new.
NewestIsExact(dir, glob) ==
  LET fitting == {i \in DOMAIN dir : ~dir[i].isDir /\ Fits(glob, dir[i].name)}
  IN FindNewestMatching(dir, glob) =
       IF fitting = {} THEN NoFile
       ELSE dir[CHOOSE i \in fitting : \A j \in fitting : dir[i].time > dir[j].time \/ (dir[i].time = dir[j].time /\ i <= j)]
=============================================================================
