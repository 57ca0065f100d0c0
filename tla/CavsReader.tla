------------------------------ MODULE CavsReader ------------------------------
(***************************************************************************)
(* CavsReader.py: the iterator over the records of one section of a NIST  *)
(* CAVS response file.  __iter__ calls seek(), which empties self.entry,  *)
(* rewinds the file and reads up to the section's header line; each       *)
(* next() reads lines into the same self.entry dict until it has seen     *)
(* len(elements) element lines, reads one line more (parsed into the      *)
(* entry only after enablePeekOne) and returns the dict.  A line starting *)
(* with '[' or the end of the file raises StopIteration.                  *)
(*                                                                         *)
(* A line is a record: kind "section" (a header such as [AES]), "kv"      *)
(* (key = value) or "blank"; line.partition("=") with strip() gives the   *)
(* key and value below.  Values are model strings, one per record, so a   *)
(* value from the wrong record is visible.                                *)
(***************************************************************************)
EXTENDS Integers, Sequences, SequencesExt, FiniteSets

CONSTANTS
    Files,           \* the response files the reader may be given
    Sections,        \* the section names callers select
    Elements         \* the constructor's elements list

\* key.strip() and value.strip(" \n") of line.partition("=").
Key(line) == CASE line.kind = "kv"      -> line.key
               [] line.kind = "section" -> line.name
               [] line.kind = "blank"   -> ""
Val(line) == IF line.kind = "kv" THEN line.value ELSE ""

\* line[0:1] == "[" (only header lines start with a bracket).
IsHeader(line) == line.kind = "section"

\* Mutant: a key already in the entry keeps its first value.
PutKeepFirst(entry, line) == [k \in DOMAIN entry \cup {Key(line)} |->
                                IF k \in DOMAIN entry THEN entry[k] ELSE Val(line)]

\* self.entry[key.strip()] = value.strip(" \n")
Put(entry, line) == [k \in DOMAIN entry \cup {Key(line)} |->
                        IF k = Key(line) THEN Val(line) ELSE entry[k]]

\* Mutant: the line after the header is skipped as well.
RECURSIVE SeekFromPastHeader(_, _, _, _)
SeekFromPastHeader(file, section, k, entry) ==
    IF k > Len(file) THEN [found |-> FALSE, pos |-> k, entry |-> entry]
    ELSE IF IsHeader(file[k]) /\ file[k].name = section
         THEN [found |-> TRUE, pos |-> k + 2, entry |-> entry]
         ELSE SeekFromPastHeader(file, section, k + 1, Put(entry, file[k]))

\* seek(): the for loop from the first line; returns at the section's
\* header with the lines before it in entry, or finds none.
RECURSIVE SeekFrom(_, _, _, _)
SeekFrom(file, section, k, entry) ==
    IF k > Len(file) THEN [found |-> FALSE, pos |-> k, entry |-> entry]
    ELSE IF IsHeader(file[k]) /\ file[k].name = section
         THEN [found |-> TRUE, pos |-> k + 1, entry |-> entry]
         ELSE SeekFrom(file, section, k + 1, Put(entry, file[k]))

\* Mutant: the end-of-file test one line early.
RECURSIVE NextFromEarlyEof(_, _, _, _, _)
NextFromEarlyEof(file, peek, k, entry, count) ==
    IF count = Len(Elements)
    THEN [stop |-> FALSE, pos |-> k + 1,
          entry |-> IF peek THEN Put(entry, file[k]) ELSE entry]
    ELSE IF IsHeader(file[k]) THEN [stop |-> TRUE, pos |-> k + 1, entry |-> entry]
    ELSE LET e == Put(entry, file[k])
             c == IF Key(file[k]) \in Range(Elements) THEN count + 1 ELSE count
         IN  IF k + 1 >= Len(file) THEN [stop |-> TRUE, pos |-> k + 1, entry |-> e]
             ELSE NextFromEarlyEof(file, peek, k + 1, e, c)

\* The loop of next() with line k just read: file.next() past the last
\* line raises StopIteration, as does a header line.
RECURSIVE NextFrom(_, _, _, _, _)
NextFrom(file, peek, k, entry, count) ==
    IF count = Len(Elements)
    THEN [stop |-> FALSE, pos |-> k + 1,
          entry |-> IF peek THEN Put(entry, file[k]) ELSE entry]
    ELSE IF IsHeader(file[k]) THEN [stop |-> TRUE, pos |-> k + 1, entry |-> entry]
    ELSE LET e == Put(entry, file[k])
             c == IF Key(file[k]) \in Range(Elements) THEN count + 1 ELSE count
         IN  IF k + 1 > Len(file) THEN [stop |-> TRUE, pos |-> k + 1, entry |-> e]
             ELSE NextFrom(file, peek, k + 1, e, c)

VARIABLES
    file,      \* the open file's lines
    pos,       \* the next line file.next() returns
    section,   \* self.section
    peek,      \* self.peek
    entry,     \* self.entry
    pc,        \* "ready", "iterating", "stopped" or "error"
    yielded    \* the entries next() returned in this iteration, as returned

vars == <<file, pos, section, peek, entry, pc, yielded>>

Empty == [k \in {} |-> ""]

\* Every key a line of some file can give.
FileKeys == UNION {{Key(f[k]) : k \in DOMAIN f} : f \in Files}

TypeOK ==
    /\ file \in Files /\ pos \in 1..Len(file) + 1
    /\ section \in Sections \cup {"none"} /\ peek \in BOOLEAN
    /\ DOMAIN entry \subseteq FileKeys
    /\ pc \in {"ready", "iterating", "stopped", "error"}
    /\ \A i \in DOMAIN yielded : DOMAIN yielded[i] \subseteq FileKeys

\* CavsReader(filename, section, elements): section may be None.
Init ==
    /\ file \in Files /\ pos = 1
    /\ section \in Sections \cup {"none"}
    /\ peek = FALSE /\ entry = Empty
    /\ pc = "ready" /\ yielded = <<>>

SelectSection ==
    /\ pc \in {"ready", "stopped"}
    /\ \E s \in Sections : section' = s
    /\ pc' = "ready"
    /\ UNCHANGED <<file, pos, peek, entry, yielded>>

EnablePeekOne ==
    /\ pc \in {"ready", "stopped"} /\ ~peek
    /\ peek' = TRUE
    /\ UNCHANGED <<file, pos, section, entry, pc, yielded>>

\* for entry in test_vectors: __iter__ -> seek(); RuntimeError when the
\* section is not in the file.
Iter ==
    /\ pc \in {"ready", "stopped"}
    /\ LET r == SeekFrom(file, section, 1, Empty)
       IN  /\ pos' = r.pos /\ entry' = r.entry
           /\ pc' = IF r.found THEN "iterating" ELSE "error"
    /\ yielded' = <<>>
    /\ UNCHANGED <<file, section, peek>>

\* next(): the first file.next() may already be past the end.
Next1 ==
    /\ pc = "iterating"
    /\ IF pos > Len(file)
       THEN pc' = "stopped" /\ UNCHANGED <<pos, entry, yielded>>
       ELSE LET r == NextFrom(file, peek, pos, entry, 0)
            IN  /\ pos' = r.pos /\ entry' = r.entry
                /\ IF r.stop THEN pc' = "stopped" /\ UNCHANGED yielded
                   ELSE yielded' = Append(yielded, r.entry) /\ UNCHANGED pc
    /\ UNCHANGED <<file, section, peek>>

Next == SelectSection \/ EnablePeekOne \/ Iter \/ Next1

Spec == Init /\ [][Next]_vars

-----------------------------------------------------------------------------
(* Properties                                                             *)

\* The reference reading of a section: its lines up to the next header,
\* split at blank lines; a record is a group with element lines, as a
\* function from element to value.
SectionLines(f, s) ==
    LET h == {k \in DOMAIN f : IsHeader(f[k]) /\ f[k].name = s}
        start == IF h = {} THEN Len(f) + 1 ELSE Min(h) + 1
        ends  == {k \in start..Len(f) : IsHeader(f[k])}
        stop  == IF ends = {} THEN Len(f) ELSE Min(ends) - 1
    IN  SubSeq(f, start, stop)

Records(f, s) ==
    LET ls    == SectionLines(f, s)
        blank == {k \in DOMAIN ls : ls[k].kind = "blank"}
        \* group boundaries: the blank lines and both ends
        cuts  == SetToSortSeq(blank \cup {0, Len(ls) + 1}, <)
        grp(i) == SubSeq(ls, cuts[i] + 1, cuts[i + 1] - 1)
        elts(g) == {k \in DOMAIN g : g[k].kind = "kv" /\ g[k].key \in Range(Elements)}
        groups == SelectSeq([i \in 1..Len(cuts) - 1 |-> grp(i)], LAMBDA g : elts(g) # {})
    IN  [i \in DOMAIN groups |->
            [e \in {groups[i][k].key : k \in elts(groups[i])} |->
                groups[i][CHOOSE k \in elts(groups[i]) : groups[i][k].key = e].value]]

\* Every record is presented in order with its own values: the i-th entry
\* next() returned holds, for each element, the value of the i-th record
\* of the selected section -- none from the record before, none missing.
RecordsInOrder ==
    pc \in {"iterating", "stopped"} =>
        /\ Len(yielded) <= Len(Records(file, section))
        /\ \A i \in DOMAIN yielded :
              LET r == Records(file, section)[i]
              IN  \A e \in DOMAIN r : e \in DOMAIN yielded[i] /\ yielded[i][e] = r[e]

\* The class comment: the file's data "in an iterable form" -- when the
\* iteration ends, every record of the section has been presented.
AllRecordsPresented ==
    pc = "stopped" => Len(yielded) = Len(Records(file, section))

=============================================================================
