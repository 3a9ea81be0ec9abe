------------------------------ MODULE AuditTrail ------------------------------
(***************************************************************************)
(* services/audit-store.ts: the audit entries the pipeline and the runner  *)
(* append, one JSON line each, to the file of the day or, once that is     *)
(* full, to a file of their own; the telemetry server reads pages of them, *)
(* the soak runner all of them.                                            *)
(*                                                                         *)
(* An entry is a number.  A line is a sequence of chunks: an entry whose   *)
(* text was written whole, or -1 for one the disk took only a part of.  A  *)
(* line end is the last byte of an append: one that tears leaves its line  *)
(* open, even if all the entry's text is there, and the next entry is      *)
(* glued to it.                                                            *)
(***************************************************************************)
EXTENDS Integers, Sequences, FiniteSets

CONSTANTS
    Writers,         \* "pipeline" and "runner"
    Dates,           \* bound: 1 .. the days considered
    MaxLines,        \* MAX_FILE_SIZE_BYTES, as a number of lines
    MaxEntries,      \* bound: entries
    PageLimit        \* the reader's limit

ASSUME AuditAssumption ==
    Dates \subseteq Nat \ {0} /\ 1 \in Dates /\ PageLimit \in Nat \ {0}

VARIABLES
    date,            \* today
    dayFile,         \* [Dates -> the lines of audit-<date>.ndjson]
    rotated,         \* the lines in files audit-<date>-<ms>.ndjson
    lineOpen,        \* the files whose last line has no end: dates
    entries,         \* entries so far
    writing,         \* [Writers -> the entry and file being appended, or NoWrite]
    torn,            \* history: appends that wrote a part only, be it all but the line end
    unended,         \* history: entries of which only the line end is missing
    kept,            \* history: entries whose append succeeded
    page             \* the reader: its date, its offset and, for each line it has passed,
                     \* the entry it was given or NoEntry

historyVars == <<torn, unended, kept>>
auditVars == <<date, dayFile, rotated, lineOpen, entries, writing, historyVars, page>>

NoWrite == [entry |-> 0]
NoEntry == 0
Part == -1

AuditInit ==
    /\ date = 1
    /\ dayFile = [d \in Dates |-> <<>>] /\ rotated = <<>> /\ lineOpen = {}
    /\ entries = 0 /\ writing = [w \in Writers |-> NoWrite]
    /\ torn = 0 /\ unended = {} /\ kept = {}
    /\ page \in {[date |-> d, offset |-> 0, got |-> <<>>] : d \in Dates}

\* write up to its await: today's file, or a new one when that is full.
BeginWrite(w) ==
    /\ writing[w] = NoWrite /\ entries < MaxEntries
    /\ entries' = entries + 1
    /\ writing' = [writing EXCEPT ![w] =
                      [entry |-> entries', date |-> date,
                       rotates |-> Len(dayFile[date]) >= MaxLines]]
    /\ UNCHANGED <<date, dayFile, rotated, lineOpen, historyVars, page>>

\* A chunk goes to the open last line of a file, or to a line of its own.
Glued(lines, open, chunk) ==
    IF open THEN [lines EXCEPT ![Len(lines)] = Append(@, chunk)] ELSE Append(lines, <<chunk>>)

\* Mutant: no line end is written.
EndForgotten(d, ends) == lineOpen \cup {d}

\* Whether the append got as far as the line end.
LinesOpen(d, ends) == IF ends THEN lineOpen \ {d} ELSE lineOpen \cup {d}

\* Mutant: a full file is renamed and the entry goes to a new one of its name.
RotateByRename(x, chunk, ends) ==
    /\ dayFile' = [dayFile EXCEPT ![x.date] = IF x.rotates THEN <<<<chunk>>>>
                                              ELSE Glued(@, x.date \in lineOpen, chunk)]
    /\ rotated' = IF x.rotates THEN rotated \o dayFile[x.date] ELSE rotated
    /\ lineOpen' = LinesOpen(x.date, ends)

\* appendFile: a rotated entry's file is new.
AppendTo(x, chunk, ends) ==
    IF x.rotates
    THEN rotated' = Append(rotated, <<chunk>>) /\ UNCHANGED <<dayFile, lineOpen>>
    ELSE /\ dayFile' = [dayFile EXCEPT ![x.date] = Glued(@, x.date \in lineOpen, chunk)]
         /\ lineOpen' = LinesOpen(x.date, ends)
         /\ UNCHANGED rotated

WriteSucceeds(w) ==
    /\ writing[w] # NoWrite
    /\ AppendTo(writing[w], writing[w].entry, TRUE)
    /\ kept' = kept \cup {writing[w].entry}
    /\ writing' = [writing EXCEPT ![w] = NoWrite]
    /\ UNCHANGED <<date, entries, torn, unended, page>>

\* The append fails, having written nothing, a part of the entry's text or all of it
\* without the line end: the error is logged.
WriteFails(w) ==
    /\ writing[w] # NoWrite
    /\ \/ /\ AppendTo(writing[w], Part, FALSE)
          /\ torn' = torn + 1 /\ UNCHANGED unended
       \/ /\ AppendTo(writing[w], writing[w].entry, FALSE)
          /\ torn' = torn + 1 /\ unended' = unended \cup {writing[w].entry}
       \/ UNCHANGED <<dayFile, rotated, lineOpen, torn, unended>>
    /\ writing' = [writing EXCEPT ![w] = NoWrite]
    /\ UNCHANGED <<date, entries, kept, page>>

Midnight ==
    /\ date + 1 \in Dates /\ date' = date + 1
    /\ UNCHANGED <<dayFile, rotated, lineOpen, entries, writing, historyVars, page>>

\* JSON.parse: a line is an entry, with or without its end, or is skipped.
Parses(line) == Len(line) = 1 /\ line[1] # Part
Shown(line) == IF Parses(line) THEN line[1] ELSE NoEntry

\* readAuditEntriesSync for handleAudit: the next page of the day's file.
ReadPage ==
    LET lines == dayFile[page.date]
        upTo == page.offset + PageLimit
    IN  \* a reader that gets less than a page comes back for the whole of it
        /\ upTo <= Len(lines)
        /\ page' = [page EXCEPT !.offset = upTo,
                                !.got = [i \in 1 .. upTo |-> IF i <= page.offset THEN @[i]
                                                             ELSE Shown(lines[i])]]
        /\ UNCHANGED <<date, dayFile, rotated, lineOpen, entries, writing, historyVars>>

AuditNext ==
    \/ \E w \in Writers : BeginWrite(w) \/ WriteSucceeds(w) \/ WriteFails(w)
    \/ Midnight \/ ReadPage

\* collectAuditEntries reads every file of the directory: the lines by their file, which
\* is 0 for the rotated ones, and those of them that parse.
Files == [f \in Dates \cup {0} |-> IF f = 0 THEN rotated ELSE dayFile[f]]
Places == UNION {{f} \X DOMAIN Files[f] : f \in DOMAIN Files}
LineAt(p) == Files[p[1]][p[2]]
Collected == {p \in Places : Parses(LineAt(p))}

AuditSpec == AuditInit /\ [][AuditNext]_auditVars

-----------------------------------------------------------------------------
\* A reader that pages through a day, while entries are appended, torn and glued and files
\* fill up, has been given the entry of every line it has passed that still parses, in its
\* place; what else it was given has only been glued to since, and nothing came twice.
PagesInOrder ==
    LET lines == dayFile[page.date]
    IN  /\ page.offset <= Len(lines)
        /\ \A i \in 1 .. page.offset :
              /\ Parses(lines[i]) => page.got[i] = lines[i][1]
              /\ page.got[i] # NoEntry => lines[i][1] = page.got[i]
              /\ \A j \in 1 .. page.offset :
                    page.got[i] = page.got[j] => i = j \/ page.got[i] = NoEntry

\* The soak runner finds no entry twice, none but those appended without an error and
\* those of which the line end is missing, and all the former less at most one for each
\* append that tore: the entry glued to it.
TornCostsOne ==
    LET found == {LineAt(p)[1] : p \in Collected}
    IN  /\ found \subseteq kept \cup unended
        /\ Cardinality(Collected) = Cardinality(found)
        /\ Cardinality(kept \ found) <= torn
=============================================================================
