------------------------------ MODULE AuditLog ------------------------------
(***************************************************************************)
(* The signed audit log (gommage-audit): an append-only file of JSON lines *)
(* that the daemon, hooks and operator commands open at the same time, and *)
(* the walks that check it.  An append writes the line and its newline     *)
(* with two calls and takes no lock.  ApprovalStore and the webhook        *)
(* dead-letter queue append to their files in the same way.                *)
(***************************************************************************)
EXTENDS Integers, Sequences, FiniteSets

CONSTANTS
  Writers,     \* processes holding an AuditWriter
  MaxRecords,  \* bound on the appends begun
  MaxFaults,   \* bound on the appends cut short and entries changed in place
  KindOf,      \* what the record with an id is, a function: a decision's
               \* kind, or the type of an event
  Foreign,     \* records signed with another key than the one they are checked with
  None

ASSUME AuditBounds == {MaxRecords, MaxFaults} \subseteq Nat
ASSUME EveryRecordHasAKind == DOMAIN KindOf = 1..MaxRecords

\* A record: its number, which is the order of the timestamps, and whether
\* the verifying key accepts it.
Entry == [id : 1..MaxRecords, signed : BOOLEAN]

\* What one write leaves in a line: a record, or the beginning of one.
Fragment == [entry : Entry, whole : BOOLEAN]

VARIABLES
  file,    \* lines, each a sequence of fragments; the last has no newline yet
  pen,     \* the entry a writer is appending, or None
  step,    \* a writer's next call: "open", "line" or "newline"
  begun, aborted,   \* appends begun, appends cut short
  acked,   \* entries whose append returned Ok
  damaged, \* entries changed in place
  crossed, \* history: lines written between another's line and its newline
  overtaken \* history: lines written before that of an older entry

history == <<crossed, overtaken>>
log == <<file, pen, step, begun, aborted, acked, damaged, history>>

Init ==
  /\ file = << <<>> >>
  /\ pen = [w \in Writers |-> None]
  /\ step = [w \in Writers |-> "open"]
  /\ begun = 0 /\ aborted = 0
  /\ acked = {}
  /\ damaged = 0
  /\ crossed = 0 /\ overtaken = 0

Goto(w, s) == step' = [step EXCEPT ![w] = s]

\* O_APPEND: the fragment goes to the end of the file, wherever that is by now.
AtEnd(f, fragment) == [f EXCEPT ![Len(f)] = Append(@, fragment)]

---------------------------------------------------------------------------
(* AuditWriter::append and append_event *)

\* The entry gets its id and is signed, by the key the writer holds.
Sign(w) ==
  /\ step[w] = "open"
  /\ begun < MaxRecords
  /\ begun' = begun + 1
  /\ pen' = [pen EXCEPT ![w] = [id |-> begun + 1, signed |-> begun + 1 \notin Foreign]]
  /\ Goto(w, "line")
  /\ UNCHANGED <<file, aborted, acked, damaged, history>>

Count(w) ==
  /\ crossed' = crossed + IF \E o \in Writers \ {w} : step[o] = "newline" THEN 1 ELSE 0
  /\ overtaken' = overtaken +
       IF \E o \in Writers : step[o] = "line" /\ pen[o].id < pen[w].id THEN 1 ELSE 0

WriteLine(w) ==
  /\ step[w] = "line"
  /\ file' = AtEnd(file, [entry |-> pen[w], whole |-> TRUE])
  /\ Goto(w, "newline")
  /\ Count(w)
  /\ UNCHANGED <<pen, begun, aborted, acked, damaged>>

\* Faulty variant: no newline follows the line.
WriteNewlineNever(w) ==
  /\ step[w] = "newline"
  /\ acked' = acked \union {pen[w]}
  /\ pen' = [pen EXCEPT ![w] = None]
  /\ Goto(w, "open")
  /\ UNCHANGED <<file, begun, aborted, damaged, history>>

WriteNewline(w) ==
  /\ step[w] = "newline"
  /\ file' = Append(file, <<>>)
  /\ acked' = acked \union {pen[w]}
  /\ pen' = [pen EXCEPT ![w] = None]
  /\ Goto(w, "open")
  /\ UNCHANGED <<begun, aborted, damaged, history>>

\* The process is killed, or a write fails and the caller gets the error: what
\* was written stays, down to part of a line.
Abort(w) ==
  /\ step[w] # "open"
  /\ aborted + damaged < MaxFaults
  /\ aborted' = aborted + 1
  /\ \/ UNCHANGED file
     \/ /\ step[w] = "line"
        /\ file' = AtEnd(file, [entry |-> pen[w], whole |-> FALSE])
  /\ pen' = [pen EXCEPT ![w] = None]
  /\ Goto(w, "open")
  /\ UNCHANGED <<begun, acked, damaged, history>>

\* An editor or the disk changes a byte of an entry, which no longer verifies.
Damage ==
  /\ aborted + damaged < MaxFaults
  /\ damaged' = damaged + 1
  /\ \E i \in DOMAIN file : \E j \in DOMAIN file[i] :
       /\ file[i][j].whole /\ file[i][j].entry.signed
       /\ file' = [file EXCEPT ![i][j].entry.signed = FALSE]
  /\ UNCHANGED <<pen, step, begun, aborted, acked, history>>

Writing(w) == Sign(w) \/ WriteLine(w) \/ WriteNewline(w) \/ Abort(w)

---------------------------------------------------------------------------
(* The walks: verify_log stops at the first bad line, explain_log goes on *)

\* The lines that are not empty, the others are skipped; a line parses if it is
\* one record and nothing else.
Written(f) == {i \in DOMAIN f : f[i] # <<>>}
Parses(line) == Len(line) = 1 /\ line[1].whole
Parsed(f) == {i \in Written(f) : Parses(f[i])}
EntryAt(f, i) == f[i][1].entry

Verifies(line) == Parses(line) /\ line[1].entry.signed

\* verify_log: the count, or the error of the first line that fails.
VerifyLog(f) ==
  IF \A i \in Written(f) : Verifies(f[i]) THEN Cardinality(Written(f)) ELSE None

\* explain_log: the anomalies it lists, by line.
Malformed(f) == {i \in Written(f) : ~Parses(f[i])}
BadSignature(f) == {i \in Parsed(f) : ~Verifies(f[i])}

\* The line that parsed before line i.
Precedes(f, j, i) == j < i /\ ~\E k \in Parsed(f) : j < k /\ k < i

\* Faulty variant: the comparison is turned round.
ReversedWhenLater(f) ==
  {i \in Parsed(f) : \E j \in Parsed(f) :
     Precedes(f, j, i) /\ EntryAt(f, i).id > EntryAt(f, j).id}

\* The entries older than the one that parsed before them.
TimestampOutOfOrder(f) ==
  {i \in Parsed(f) : \E j \in Parsed(f) :
     Precedes(f, j, i) /\ EntryAt(f, i).id < EntryAt(f, j).id}

\* Allowed bypasses of a hard stop.
HardStopBypassAttempt(f) ==
  {i \in Parsed(f) : KindOf[EntryAt(f, i).id] = "hard_stop_bypassed"}

\* The entry stands alone on its line.
Readable(f, e) == \E i \in DOMAIN f : f[i] = <<[entry |-> e, whole |-> TRUE]>>

---------------------------------------------------------------------------
(* Properties *)

\* docs/architecture.md, invariant 4: "Killing the daemon mid-write corrupts at
\* most one line; all prior lines remain independently verifiable".  Of the
\* entries whose append returned Ok, an abort costs the one that comes after
\* it, a crossing both of the entries that cross, a damage its own.
LossHasACause ==
  Cardinality({e \in acked : ~Readable(file, e)}) <= aborted + 2 * crossed + damaged

\* "Timestamps should be monotonically non-decreasing" (Anomaly): a reversal is
\* reported only where a writer has overtaken one that read the clock before it.
ReversalsAreOvertakings == Cardinality(TimestampOutOfOrder(file)) <= overtaken
=============================================================================
