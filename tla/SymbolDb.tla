------------------------------- MODULE SymbolDb -------------------------------
(***************************************************************************)
(* symbols/SymbolDb.cpp: the names of the game's own functions.  A thread  *)
(* of the boot parses them into four columns sorted by address; a crash    *)
(* handler or a watchdog that writes a report looks names up in them, at   *)
(* any moment of the load and without a lock.                              *)
(***************************************************************************)
EXTENDS Naturals, Sequences, FiniteSets, SequencesExt

CONSTANTS
  Width,     \* 2^32: addresses within a module are counted modulo it
  NearLimit, \* 0x1000: a name this far from the address is marked as approximate
  FarLimit,  \* 0x10000: a name this far from it is not a name of it
  Files,     \* what cyberpunk2077_addresses.json may hold
  NoFile,
  Readers    \* threads that look addresses up

ASSUME SymbolDbAssumption ==
  /\ Width \in Nat \ {0} /\ NearLimit \in Nat /\ FarLimit \in Nat
  /\ \A f \in Files \ {NoFile} : f.complete \in BOOLEAN /\ f.addresses \in BOOLEAN
  /\ \A f \in Files \ {NoFile} :
       /\ IsFiniteSet(f.entries) /\ f.codeConst \in Nat
       /\ \A e \in f.entries : e.offset \in Nat

VARIABLES
  file,      \* the symbol file
  loadStarted, status, ready,  \* g_loadStarted, g_status, g_ready
  sorted,    \* the loader's table: a sequence of addresses and names
  columns,   \* g_rva, g_symbolStart, g_symbolLen, g_symbolBlob: how many are moved into place
  reader     \* per reader: the address it looks up after it has seen g_ready, or Width

dbVars == <<file, loadStarted, status, ready, sorted, columns, reader>>

\* An entry is a section offset and a name; an empty name has length 0.
Rva(f, e) == (e.offset + f.codeConst) % Width

\* std::sort is not stable: entries of one address come in any order.  The sentinel has no name.
SortedTables(f) ==
  {Append([i \in DOMAIN s |-> [rva |-> Rva(f, s[i]), name |-> s[i].name]],
          [rva |-> Width - 1, name |-> ""]) :
     s \in {p \in SetToAllKPermutations(f.entries) :
              /\ Len(p) = Cardinality(f.entries)
              /\ \A i, j \in DOMAIN p : i < j => Rva(f, p[i]) <= Rva(f, p[j])}}

NotFound == [found |-> FALSE, name |-> "", offset |-> 0, approximate |-> FALSE]

\* std::lower_bound: the first entry at or after the address; otherwise the one before it.
LowerBound(table, rva) ==
  1 + Cardinality({i \in DOMAIN table : table[i].rva < rva})

Hit(table, i, rva) ==
  IF i = 0 \/ table[i].name = "" THEN NotFound
  ELSE [found |-> TRUE, name |-> table[i].name, offset |-> rva - table[i].rva, approximate |-> FALSE]

Lookup(table, rva) ==
  LET at == LowerBound(table, rva)
      exact == at <= Len(table) /\ table[at].rva = rva
  IN Hit(table, IF exact THEN at ELSE at - 1, rva)

ResolveCodeAddress(table, rva) ==
  LET s == Lookup(table, rva)
  IN IF s.found /\ s.offset < FarLimit THEN [s EXCEPT !.approximate = s.offset >= NearLimit]
                                       ELSE NotFound

----------------------------------------------------------------------------
DbInit ==
  /\ file \in Files
  /\ loadStarted = FALSE /\ status = "idle" /\ ready = FALSE
  /\ sorted = <<>> /\ columns = 0
  /\ reader = [r \in Readers |-> Width]

\* The compare-exchange, and the thread that is started when there is a file.
StartLoad ==
  /\ ~loadStarted
  /\ loadStarted' = TRUE
  /\ status' = IF file = NoFile THEN "missing" ELSE "loading"
  /\ UNCHANGED <<file, ready, sorted, columns, reader>>

\* The document is broken off or of another form, has no addresses, or memory runs out.
ParseFails ==
  /\ status = "loading" /\ sorted = <<>>
  /\ status' = "parse_error"
  /\ UNCHANGED <<file, loadStarted, ready, sorted, columns, reader>>

Parse ==
  /\ status = "loading" /\ sorted = <<>>
  /\ file.complete /\ file.addresses
  /\ sorted' \in SortedTables(file)
  /\ UNCHANGED <<file, loadStarted, status, ready, columns, reader>>

MoveColumn ==
  /\ sorted # <<>> /\ columns < 4
  /\ columns' = columns + 1
  /\ UNCHANGED <<file, loadStarted, status, ready, sorted, reader>>

\* Mutant: the flag is set before the blob of the names is in place.
SetReadyEarly ==
  /\ columns >= 3 /\ ~ready
  /\ ready' = TRUE
  /\ UNCHANGED <<file, loadStarted, status, sorted, columns, reader>>

SetReady ==
  /\ columns = 4 /\ ~ready
  /\ ready' = TRUE
  /\ UNCHANGED <<file, loadStarted, status, sorted, columns, reader>>

\* The store of the status, and the end of the thread.
SetStatusReady ==
  /\ ready /\ status = "loading"
  /\ status' = "ready"
  /\ UNCHANGED <<file, loadStarted, ready, sorted, columns, reader>>

\* A report asks for an address; before the table is ready it gets no name.
BeginLookup(r) ==
  /\ ready /\ reader[r] = Width
  /\ \E rva \in 0..(Width - 1) : reader' = [reader EXCEPT ![r] = rva]
  /\ UNCHANGED <<file, loadStarted, status, ready, sorted, columns>>

EndLookup(r) ==
  /\ reader[r] # Width
  /\ reader' = [reader EXCEPT ![r] = Width]
  /\ UNCHANGED <<file, loadStarted, status, ready, sorted, columns>>

LoadThread == ParseFails \/ Parse \/ MoveColumn \/ SetReady \/ SetStatusReady

DbNext == StartLoad \/ LoadThread \/ \E r \in Readers : BeginLookup(r) \/ EndLookup(r)

DbSpec == DbInit /\ [][DbNext]_dbVars

----------------------------------------------------------------------------
\* What a function's nearest named neighbour is, by the file: the symbols at the greatest
\* address that is not after it.
Below(rva) == {e \in file.entries : Rva(file, e) <= rva}
Nearest(rva) == {e \in Below(rva) : \A d \in Below(rva) : Rva(file, d) <= Rva(file, e)}

\* The answer is a symbol nearest below the address, with the right distance, and says when the
\* name is a guess; there is none only when none is near enough, or when one of the nearest has
\* an empty name (or the address is the last of all).
NameIsRight(rva, answer) ==
  IF answer.found
  THEN \E e \in Nearest(rva) :
         /\ answer.name = e.name /\ answer.offset = rva - Rva(file, e)
         /\ answer.offset < FarLimit /\ answer.approximate = (answer.offset >= NearLimit)
  ELSE \/ rva = Width - 1
       \/ \E e \in Nearest(rva) : e.name = ""
       \/ \A e \in Nearest(rva) : rva - Rva(file, e) >= FarLimit

\* A report, which takes no lock, never meets columns that are still moved into place, and what
\* it calls a function of the game by is its nearest name.
NamesAreNearest ==
  \A r \in Readers :
    reader[r] # Width => columns = 4 /\ NameIsRight(reader[r], ResolveCodeAddress(sorted, reader[r]))
=============================================================================
