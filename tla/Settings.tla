------------------------------- MODULE Settings -------------------------------
(***************************************************************************)
(* REDscope.ini: how it is read (Config.cpp) and how a script changes the  *)
(* one setting that it may change (WriteAutoDownloadIni in                 *)
(* breadcrumbs/BreadcrumbApi.cpp).  The two look at section headers and    *)
(* at keys in different ways.                                              *)
(*                                                                         *)
(* A line is a record: kind is "header", "key" or "note"; name is that of  *)
(* the section or key, or what a note begins with; value what a key is set *)
(* to, as the boolean and the number it can be read as; and rest says of a *)
(* header what is in the brackets besides the name, or follows them:       *)
(* nothing, "spaces", "comment", or "open" when the closing bracket is     *)
(* missing.                                                                *)
(***************************************************************************)
EXTENDS Integers, Sequences, FiniteSets, SequencesExt

CONSTANTS
  Inis,      \* the files of settings that are looked at
  Prefixed, \* the names that begin with "auto_download"
  TornValues \* what the beginning of a value may be read as

Bool(default) == [kind |-> "bool", default |-> default]
UintClamped(default, lo, hi) == [kind |-> "uint", default |-> default, lo |-> lo, hi |-> hi]
MaxUint == 2147483647 \* stands for 2^32 - 1, which TLC has not
Uint(default) == UintClamped(default, 0, MaxUint)

On == {<<"core", "respect_debugger">>, <<"core", "capture_all_thread_stacks">>, <<"watchdog", "hang_watchdog_enabled">>}
AutoDownload == <<"symbols", "auto_download">>
Off == {<<"core", "terminate_process_after_report">>, AutoDownload}
Numbers ==
  {<<<<"core", "max_crash_files">>, UintClamped(50, 1, 10000)>>,
   <<<<"buffers", "find_entity_ring_size">>, UintClamped(32, 4, 4096)>>,
   <<<<"buffers", "tweakdb_ring_size">>, UintClamped(16, 4, 4096)>>,
   <<<<"buffers", "archive_ring_size">>, UintClamped(16, 4, 4096)>>,
   <<<<"buffers", "snapshot_interval_ms">>, UintClamped(500, 50, 60000)>>,
   <<<<"stack", "dump_slot_count">>, UintClamped(512, 1, 65536)>>,
   <<<<"test", "test_inject_crash_after_seconds">>, Uint(0)>>,
   <<<<"watchdog", "hang_threshold_seconds">>, Uint(45)>>}

Config ==
  [k \in On \cup Off \cup {n[1] : n \in Numbers} |->
     IF k \in On THEN Bool(TRUE) ELSE IF k \in Off THEN Bool(FALSE)
     ELSE (CHOOSE n \in Numbers : n[1] = k)[2]]

Value == [says : {"true", "false", "neither"}, isNum : BOOLEAN, num : Int]
IniLine == [kind : {"header", "key", "note"}, name : STRING, rest : {"", "spaces", "comment", "open"}, value : Value]

\* No other setting has a name with the prefix.
ASSUME SettingsAssumption ==
  /\ Inis \subseteq Seq(IniLine) /\ TornValues \subseteq Value
  /\ \A k \in DOMAIN Config : k[2] \in Prefixed <=> k = AutoDownload

----------------------------------------------------------------------------
\* A word that is none of the eight known ones, and a number that is negative or too large, count
\* as not being there.
ParseBool(v, def) == IF v.says = "neither" THEN def ELSE v.says = "true"
ParseUint(v, def) == IF v.isNum /\ v.num \in 0..MaxUint THEN v.num ELSE def
ParseUintClamped(v, def, lo, hi) ==
  LET parsed == ParseUint(v, def) IN IF parsed < lo THEN lo ELSE IF parsed > hi THEN hi ELSE parsed

\* The section of a line: a header ends with its bracket, or it is none.
SectionOf(lines, i) ==
  LET headers == {j \in 1..i : lines[j].kind = "header" /\ lines[j].rest \in {"", "spaces"}}
  IN IF headers = {} THEN "" ELSE lines[Max(headers)].name

\* Where a key is set.
Settings(lines, k) == {i \in DOMAIN lines : lines[i].kind = "key" /\ <<SectionOf(lines, i), lines[i].name>> = k}

\* The last line of a key counts.
LoadConfig(lines) ==
  [k \in DOMAIN Config |->
     LET c == Config[k]
         v == lines[Max(Settings(lines, k))].value
     IN IF Settings(lines, k) = {} THEN c.default
        ELSE IF c.kind = "bool" THEN ParseBool(v, c.default) ELSE ParseUintClamped(v, c.default, c.lo, c.hi)]

Line(enabled) ==
  [kind |-> "key", name |-> "auto_download", rest |-> "",
   value |-> [says |-> IF enabled THEN "true" ELSE "false", isNum |-> FALSE, num |-> 0]]
NoValue == [says |-> "neither", isNum |-> FALSE, num |-> 0]
Header(name) == [kind |-> "header", name |-> name, rest |-> "", value |-> NoValue]
Note(name) == [kind |-> "note", name |-> name, rest |-> "", value |-> NoValue]

\* A header is read up to its first bracket, spaces and all.
Section(lines, i) ==
  LET headers == {j \in 1..i : lines[j].kind = "header"}
      last == lines[Max(headers)]
  IN IF headers = {} \/ last.rest = "open" THEN "" ELSE IF last.rest = "spaces" THEN " " ELSE last.name

\* Every line of the section that begins with the key is replaced, whatever comes behind it.
Hits(lines) == {i \in DOMAIN lines : lines[i].kind # "header" /\ lines[i].name \in Prefixed /\ Section(lines, i) = "symbols"}

Replaced(lines, at, enabled) ==
  IF at = {} THEN lines \o <<Header("symbols"), Line(enabled)>>
  ELSE [i \in DOMAIN lines |-> IF i \in at THEN Line(enabled) ELSE lines[i]]

\* Mutant: the search ends with the first line that is replaced.
RewrittenOnce(lines, enabled) ==
  Replaced(lines, {i \in Hits(lines) : \A j \in Hits(lines) : i <= j}, enabled)

\* Mutant: a file without the setting is written anew.
RewrittenAnew(lines, enabled) ==
  IF Hits(lines) = {} THEN <<Header("symbols"), Line(enabled)>> ELSE Replaced(lines, Hits(lines), enabled)

\* What is to be written, of the lines that were read.
Rewritten(lines, enabled) == Replaced(lines, Hits(lines), enabled)

\* What may be left of a line whose end is missing: of a header all but its bracket, or what
\* follows it; of a key part of its value, or not even the sign of equality.
Cut(line) ==
  CASE line.kind = "header" ->
         {[line EXCEPT !.rest = rest] : rest \in {"open"} \cup IF line.rest = "comment" THEN {"", "comment"} ELSE {}}
    [] line.kind = "key" -> {Note(line.name)} \cup {[line EXCEPT !.value = v] : v \in TornValues}
    [] OTHER -> {line}

Truncations(lines) ==
  {SubSeq(lines, 1, n) : n \in 0..Len(lines)}
  \cup UNION {{Append(SubSeq(lines, 1, n - 1), c) : c \in Cut(lines[n])} : n \in 1..Len(lines)}

\* The files that a change may leave.  Nobody looks whether the file could be read, to its end or
\* at all; it is emptied and written in place, and the disk may be full or the process killed on
\* the way; when it cannot be opened for that, it stays as it is.
WriteAutoDownloadIni(lines, enabled) ==
  {lines} \cup UNION {Truncations(Rewritten(read, enabled)) : read \in Truncations(lines)}

----------------------------------------------------------------------------
\* When nothing fails, no other setting changes, in any file, and changing it again the same way
\* changes nothing.  What the script sets is what the next launch reads in every file whose
\* headers both ways of reading find alike; in the others it is that, or what it was.  They
\* disagree on what is below a header with a comment behind its bracket, or without one, and on
\* which line of the setting counts when its section has headers with spaces in the brackets and
\* without.
SettingIsKept(lines, enabled) ==
  LET after == Rewritten(lines, enabled)
      set == [LoadConfig(lines) EXCEPT ![AutoDownload] = enabled]
      Rests(name) == {l.rest : l \in {k \in Range(lines) : k.kind = "header" /\ k.name = name}}
      readAlike == /\ \A l \in Range(lines) : l.kind = "header" => l.rest \in {"", "spaces"}
                   /\ ~({"", "spaces"} \subseteq Rests("symbols"))
  IN /\ LoadConfig(after) \in {set, LoadConfig(lines)}
     /\ readAlike => LoadConfig(after) = set
     /\ Rewritten(after, enabled) = after

\* Whatever fails, the other settings that the next launch reads are those of a beginning of the
\* file: each is as it was or falls back to what an earlier line says, or to its default, but for
\* the one whose line is torn.
SettingsSurvive(lines, enabled) ==
  \A file \in WriteAutoDownloadIni(lines, enabled) :
    \E n \in 0..Len(lines) :
      \A k \in DOMAIN Config \ {AutoDownload} :
        \/ LoadConfig(file)[k] = LoadConfig(SubSeq(lines, 1, n))[k]
        \/ n + 1 \in Settings(file, k) /\ n < Len(lines) /\ file[n + 1] \in Cut(lines[n + 1])
=============================================================================
