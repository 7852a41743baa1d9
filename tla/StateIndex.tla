----------------------------- MODULE StateIndex -----------------------------
(***************************************************************************)
(* state.sqlite (state.rs): an index of the audit log for the console.     *)
(* `gommage state rebuild` reads the log three times, while others append  *)
(* to it, and commits what it found with the fingerprint it took first.    *)
(* The console shows the index where the fingerprint is still that of the  *)
(* log, and the log itself otherwise (tui_stream.rs, operator_metrics.rs). *)
(***************************************************************************)
EXTENDS AuditLog

CONSTANTS
  Rebuilders,   \* processes that rebuild the index
  MaxRebuilds,  \* bound on the rebuilds begun
  Limit         \* items a view shows

ASSUME IndexBounds == MaxRebuilds \in Nat /\ Limit \in Nat \ {0}

VARIABLES
  index,    \* what state.sqlite holds: [records, stat, hash], None if missing
  job,      \* a rebuild: its step and what it has read
  rebuilds,
  view,     \* the console's stream view: its step, what it shows
  seen      \* history: what the log would have shown while a view loads the index

indexVars == <<index, job, rebuilds>>
vars == <<log, indexVars, view, seen>>

Idle == [step |-> "idle", hash |-> None, stat |-> None, records |-> None]

SInit ==
  /\ Init
  /\ index = None
  /\ job = [r \in Rebuilders |-> Idle] /\ rebuilds = 0
  /\ view = [step |-> "done", items |-> <<>>] /\ seen = {}

---------------------------------------------------------------------------
(* audit_fingerprint *)

\* A file's length; it tells a log from all it becomes by appends.
Size(f) == <<Len(f), Cardinality(UNION {{i} \X DOMAIN f[i] : i \in DOMAIN f})>>

\* fs::metadata: the length, and a modification time that every write changes.
Stat == [size |-> Size(file), modified |-> <<Size(file), damaged>>]

---------------------------------------------------------------------------
(* The rows of the index, and the same from the log itself *)

Decisions == {"allow", "ask_picto", "gommage", "hard_stop"}
CountedEvents == {"approval_requested", "approval_resolved", "picto_created", "picto_consumed",
                  "picto_rejected", "approval_webhook_dead_lettered"}

ASSUME NoneIsNoKind == None \notin Decisions \union CountedEvents

Decides(entry) == KindOf[entry.id] \in Decisions

\* Faulty variant: a hard stop is a decision of a kind of its own.
IndexDecisionOfKind(line, entry) ==
  LET kind == KindOf[entry.id] IN
  [line |-> line, raw |-> entry, record_kind |-> "decision", summary |-> kind,
   decision_kind |-> kind, hard_stop |-> kind = "hard_stop", event_type |-> None]

\* A hard stop is a denial.
IndexDecision(line, entry) ==
  LET kind == KindOf[entry.id] IN
  [line |-> line, raw |-> entry, record_kind |-> "decision", summary |-> kind,
   decision_kind |-> IF kind = "hard_stop" THEN "gommage" ELSE kind,
   hard_stop |-> kind = "hard_stop", event_type |-> None]

IndexEvent(line, entry) ==
  LET kind == KindOf[entry.id] IN
  [line |-> line, raw |-> entry, record_kind |-> "event", summary |-> kind,
   decision_kind |-> None, hard_stop |-> FALSE, event_type |-> kind]

\* Lines in the order of the file.
InOrder(lines) ==
  [n \in 1..Cardinality(lines) |->
     CHOOSE i \in lines : Cardinality({j \in lines : j <= i}) = n]

RowOf(line, entry) ==
  IF Decides(entry) THEN IndexDecision(line, entry) ELSE IndexEvent(line, entry)

\* read_indexed_records: an error if any line does not parse.
IndexedRecords(f) ==
  IF Malformed(f) # {} THEN None
  ELSE LET lines == InOrder(Written(f))
       IN  [n \in DOMAIN lines |-> RowOf(lines[n], EntryAt(f, lines[n]))]

\* load_counters, and counters_from_records: the rows WHERE a column has a value.
Counters(rows) ==
  LET Where(column, value) == Cardinality({i \in DOMAIN rows : rows[i][column] = value}) IN
  [audit_entries |-> Len(rows),
   decisions  |-> Where("record_kind", "decision"),
   allows     |-> Where("decision_kind", "allow"),
   asks       |-> Where("decision_kind", "ask_picto"),
   denies     |-> Where("decision_kind", "gommage"),
   hard_stops |-> Where("hard_stop", TRUE),
   events     |-> [t \in CountedEvents |-> Where("event_type", t)]]

\* add_audit_metrics: lines that do not parse are left out, signatures are
\* not looked at.
AuditMetrics(f) ==
  LET Of(set) == Cardinality({i \in Parsed(f) : KindOf[EntryAt(f, i).id] \in set}) IN
  [audit_entries |-> Cardinality(Parsed(f)),
   decisions  |-> Of(Decisions),
   allows     |-> Of({"allow"}),
   asks       |-> Of({"ask_picto"}),
   denies     |-> Of({"gommage", "hard_stop"}),
   hard_stops |-> Of({"hard_stop"}),
   events     |-> [t \in CountedEvents |-> Of({t})]]

LastOf(n, seq) == SubSeq(seq, IF Len(seq) > n THEN Len(seq) - n + 1 ELSE 1, Len(seq))

\* decision_item and event_item
StreamItem(line, entry) ==
  [line |-> line, id |-> entry.id, kind |-> IF Decides(entry) THEN "decision" ELSE "event",
   summary |-> KindOf[entry.id]]

\* recent_stream_items: a line that does not parse is passed over.
RecentItems(f) ==
  LET lines == InOrder(Parsed(f))
  IN  LastOf(Limit, [n \in DOMAIN lines |-> StreamItem(lines[n], EntryAt(f, lines[n]))])

\* load_recent_items: ORDER BY line DESC LIMIT, reversed.
LoadRecentItems(rows) ==
  LastOf(Limit, [i \in DOMAIN rows |->
    [line |-> rows[i].line, id |-> rows[i].raw.id, kind |-> rows[i].record_kind,
     summary |-> rows[i].summary]])

---------------------------------------------------------------------------
(* quick_current and verify_state *)

QuickCurrent == index # None /\ index.stat = Stat

\* verify_state: the hash is compared for `state verify`, not for `state stats`.
VerifyState(strong) ==
  IF index = None THEN "missing"
  ELSE IF index.stat.size # Stat.size THEN "changed"
  ELSE IF strong /\ index.hash # file THEN "hash differs" ELSE "ok"

---------------------------------------------------------------------------
(* rebuild_state and reset *)

Becomes(r, new) == job' = [job EXCEPT ![r] = new]

\* audit_fingerprint: the bytes to hash first, the metadata second.
ReadBytes(r) ==
  /\ job[r].step = "idle" /\ rebuilds < MaxRebuilds
  /\ rebuilds' = rebuilds + 1
  /\ Becomes(r, [Idle EXCEPT !.step = "stat", !.hash = file])
  /\ UNCHANGED index

StatLog(r) ==
  /\ job[r].step = "stat"
  /\ Becomes(r, [job[r] EXCEPT !.step = "explain", !.stat = Stat])
  /\ UNCHANGED <<index, rebuilds>>

\* critical_anomaly_count
Critical(f) == Malformed(f) \union BadSignature(f) \union HardStopBypassAttempt(f)

\* explain_log: any critical anomaly ends the rebuild.
Explain(r) ==
  /\ job[r].step = "explain"
  /\ Becomes(r, IF Critical(file) # {} THEN Idle ELSE [job[r] EXCEPT !.step = "read"])
  /\ UNCHANGED <<index, rebuilds>>

\* Faulty variant: the metadata are those of the log the records come from.
ReadRecordsAndStat(r) ==
  /\ job[r].step = "read"
  /\ Becomes(r, IF IndexedRecords(file) = None THEN Idle
                ELSE [job[r] EXCEPT !.step = "commit", !.records = IndexedRecords(file),
                                    !.stat = Stat])
  /\ UNCHANGED <<index, rebuilds>>

ReadRecords(r) ==
  /\ job[r].step = "read"
  /\ Becomes(r, IF IndexedRecords(file) = None THEN Idle
                ELSE [job[r] EXCEPT !.step = "commit", !.records = IndexedRecords(file)])
  /\ UNCHANGED <<index, rebuilds>>

\* One transaction replaces the rows and the metadata; a rebuild killed before
\* it leaves the index as it was.
Commit(r) ==
  /\ job[r].step = "commit"
  /\ index' = [records |-> job[r].records, stat |-> job[r].stat, hash |-> job[r].hash]
  /\ Becomes(r, Idle)
  /\ UNCHANGED rebuilds

\* `gommage state reset`
Reset ==
  /\ index # None /\ index' = None
  /\ UNCHANGED <<job, rebuilds>>

---------------------------------------------------------------------------
(* load_stream_snapshot: the daemon, else the index, else the log *)

Show(items) == view' = [step |-> "done", items |-> items]
Turn(to) == view' = [step |-> to, items |-> None]

\* A refresh.  The daemon answers from the log under its mutex, or not at all.
AskDaemon ==
  /\ view.step = "done"
  /\ Show(RecentItems(file)) \/ Turn("check")

\* Faulty variant: an index is used if there is one.
CheckIndexIsThere ==
  /\ view.step = "check"
  /\ Turn(IF index # None THEN "load" ELSE "scan")

CheckIndex ==
  /\ view.step = "check"
  /\ Turn(IF QuickCurrent THEN "load" ELSE "scan")

\* Another connection; an error falls back to the log.
LoadItems ==
  /\ view.step = "load"
  /\ IF index = None THEN Turn("scan") ELSE Show(LoadRecentItems(index.records))

ScanLog ==
  /\ view.step = "scan"
  /\ Show(RecentItems(file))

---------------------------------------------------------------------------

\* Kept beside every step.
Watch == seen' = IF view'.step = "load" THEN seen \union {RecentItems(file')} ELSE {}

Rebuild(r) ==
  ReadBytes(r) \/ StatLog(r) \/ Explain(r) \/ ReadRecords(r) \/ Commit(r)

SNext ==
  /\ \/ /\ Damage \/ \E w \in Writers : Writing(w)
        /\ UNCHANGED <<indexVars, view>>
     \/ /\ Reset \/ \E r \in Rebuilders : Rebuild(r)
        /\ UNCHANGED <<log, view>>
     \/ /\ AskDaemon \/ CheckIndex \/ LoadItems \/ ScanLog
        /\ UNCHANGED <<log, indexVars>>
  /\ Watch

SSpec == SInit /\ [][SNext]_vars

---------------------------------------------------------------------------
(* Properties *)

\* Whatever was appended or changed between the three reads of a rebuild: an
\* index that passes for current, quickly or by its hash, holds the records of
\* the log as it is, and audit-verify accepts as many (rebuild_state,
\* quick_current, verify_state, verify_log).
CurrentIndexIsTheLog ==
  QuickCurrent \/ VerifyState(TRUE) = "ok" =>
    /\ index.records = IndexedRecords(file)
    /\ Critical(file) = {} /\ VerifyLog(file) = Len(index.records)

\* The console's numbers and its stream do not depend on whether they come from
\* a current index or from the log (load_counters, add_audit_metrics,
\* load_recent_items, recent_stream_items).
SourcesAgree ==
  QuickCurrent =>
    /\ Counters(index.records) = AuditMetrics(file)
    /\ LoadRecentItems(index.records) = RecentItems(file)

\* docs/diagnostics.md: "TUI metrics and stream views use the index only when it
\* is current; otherwise they fall back to the signed audit log": a view shows
\* what the log was at some moment since its check, with one rebuild at a time.
ViewIsOfTheLog ==
  [][view.step # "done" /\ view'.step = "done" =>
       view'.items \in seen \union {RecentItems(file)}]_vars
=============================================================================
