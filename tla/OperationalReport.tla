-------------------------- MODULE OperationalReport --------------------------
(***************************************************************************)
(* From the holdings history to a report a user may get: the comparison    *)
(* export (export_latest_holdings_comparison), the readiness verdict on it *)
(* (`check-operational-readiness`) and the report bound to that verdict    *)
(* (`run-report` and workflows/signal_report.py).                          *)
(*                                                                         *)
(* One check and one report run at a time, interleaved at each file they   *)
(* open, write or read; each can die at any step.  The export is one       *)
(* partition per date, a manifest, then a summary with the fingerprint of  *)
(* both as they are on disk; the legacy sync writes the same partitions    *)
(* and manifest, then its own record of them, without a fingerprint.  All  *)
(* reports store their artifacts under the same root and the same names.   *)
(*                                                                         *)
(* A snapshot is one row, known by its revision.  A fingerprint is the     *)
(* content it covers.                                                      *)
(***************************************************************************)
EXTENDS Naturals, Sequences, FiniteSets, FiniteSetsExt, SequencesExt

CONSTANTS
    Etfs,          \* the active ETFs, which are also the focus set
    MinEligible,   \* focus ETFs with two snapshots that a verdict asks for
    MaxDate,       \* bound: dates are 1..MaxDate
    Observed,      \* --observed-partitions: how many dates are looked at
    Initially,     \* the snapshots there are at first
    Updatable,     \* bound: the snapshots that change
    MaxUpdates,    \* bound: changes of the history
    MaxExports,    \* bound: exports and syncs
    MaxFaults      \* bound: failing models and stores, and commands that die

Dates == 1..MaxDate
Revisions == 0..1

ASSUME BoundsAssumption ==
    /\ IsFiniteSet(Etfs) /\ MinEligible \in 1..Cardinality(Etfs) /\ MaxDate \in Nat /\ MaxDate >= 2
    /\ Observed \in Nat \ {0} /\ Initially \union Updatable \subseteq Etfs \X Dates
    /\ {MaxUpdates, MaxExports, MaxFaults} \subseteq Nat

VARIABLES
    history,      \* snapshots: a revision for each <<ETF, date>> there is
    partitions,   \* the files of the export
    manifest,
    summary,      \* collection_summary.json of the last export that was not a sync
    metadata,     \* sync_metadata.json of the last sync
    readiness,    \* the last verdict that was printed
    cmd,          \* the running commands
    root,         \* artifact root: the artifacts that the last run its verdict admitted
                  \* stored itself and kept
    announced,    \* what that run printed at its end
    exported,     \* observation: the rows of each export, by its timestamp
    updates, faults

files == <<partitions, manifest, summary, metadata>>
artifacts == <<root, announced>>
bounds == <<updates, faults>>
vars == <<history, files, readiness, cmd, artifacts, exported, bounds>>

Commands == {"check", "report"}
Artifacts == {"readiness", "payload", "quality", "report", "html", "telegram", "review"}

\* What a run stores after its gate: what is published, and the evaluator's review of it.
Published == <<"report", "html", "telegram", "review">>

Missing == [is |-> "missing"]
Torn == [is |-> "torn"]                      \* half written: not JSON
File(data) == [is |-> "file", data |-> data]
Opened == File({})                           \* a partition that is not written yet

NoVerdict == [status |-> "none"]
NoAnnouncement == [kind |-> "none"]
Stopped == [kind |-> "stopped"]
Succeeded == {"user_ready", "operator_review_only"}

\* phase is what the fingerprint is computed for; left the dates or artifacts still to be
\* handled; out the rows to export; man, parts what was read; fp the check's fingerprint;
\* verdict, allow, given the report's readiness, its override, and whether it has one;
\* stamp when its export was made.
Idle == [pc |-> "idle", phase |-> "none", left |-> << >>, out |-> << >>,
         man |-> << >>, parts |-> << >>, fp |-> << >>, severity |-> "none",
         stamp |-> 0, given |-> FALSE, allow |-> FALSE, verdict |-> NoVerdict, rows |-> << >>]

Init ==
    /\ history = [k \in Initially |-> 0]
    /\ partitions = [d \in Dates |-> Missing]
    /\ manifest = Missing /\ summary = Missing /\ metadata = Missing
    /\ readiness = NoVerdict
    /\ cmd = [c \in Commands |-> Idle]
    /\ root = {}
    /\ announced = NoAnnouncement
    /\ exported = << >>
    /\ updates = 0 /\ faults = 0

Writes == {"export", "sync"}

Becomes(c, new) == cmd' = [cmd EXCEPT ![c] = new]
Ends(c) == Becomes(c, Idle)

\* External: an update adds the snapshot of an ETF or revises it.  Only the next export
\* sees it, so it is enough that it happens while no check runs.
UpdateHistory(e, d) ==
    /\ cmd["check"].pc = "idle" /\ <<e, d>> \in Updatable         \* bound
    /\ updates < MaxUpdates                                     \* bound
    /\ updates' = updates + 1
    /\ history' = [k \in DOMAIN history \union {<<e, d>>} |->
                      IF k # <<e, d>> THEN history[k]
                      ELSE IF k \in DOMAIN history THEN 1 - history[k] ELSE 0]
    /\ UNCHANGED <<files, readiness, cmd, artifacts, exported, faults>>

-----------------------------------------------------------------------------
(* Comparison windows *)

Descending(S) ==
    CHOOSE s \in [1..Cardinality(S) -> S] : \A i, j \in DOMAIN s : i < j => s[i] > s[j]
TwoLatest(S) == {Max(S), Max(S \ {Max(S)})}

\* _latest_history_comparison_windows: the two latest dates of every ETF that has two.
ExportDates(h) ==
    LET of(e) == {d \in Dates : <<e, d>> \in DOMAIN h}
    IN  UNION {TwoLatest(of(e)) : e \in {x \in Etfs : Cardinality(of(x)) >= 2}}

RowsOf(h, dates) ==
    [d \in dates |-> {<<e, h[<<e, d>>]>> : e \in {x \in Etfs : <<x, d>> \in DOMAIN h}}]

\* _history_export_rows_for_date: all active ETFs that have the date.
ExportRows(h) == RowsOf(h, ExportDates(h))

\* _latest_observed_source_dates, and a fixture's selected dates.
LatestDates(h) ==
    LET dates == {k[2] : k \in DOMAIN h}
    IN  {d \in dates : Cardinality({x \in dates : x > d}) < Observed}

\* The first dates[:observed_partitions].
ScanDates(man) == SubSeq(man.dates, 1, Min({Observed, Len(man.dates)}))

\* The focus ETFs with two dates in the partitions that were read; the window of each.
DatesOf(parts, e) == {d \in DOMAIN parts : \E row \in parts[d] : row[1] = e}
Eligible(parts) == {e \in Etfs : Cardinality(DatesOf(parts, e)) >= 2}
Windows(parts) == {TwoLatest(DatesOf(parts, e)) : e \in Eligible(parts)}
Current(parts) == Max({Max(w) : w \in Windows(parts)})

\* Mutant: the latest of all dates that are compared.
PreviousOfAll(parts) == Max(UNION Windows(parts))

Previous(parts) == Max({Min(w) : w \in Windows(parts)})

-----------------------------------------------------------------------------
(* The fingerprint: manifest, then every partition it lists *)

\* Mutant: the fingerprint of the manifest alone.
FingerprintOfManifest(man, parts) == [manifest |-> man, parts |-> << >>]

Fingerprint(man, parts) == [manifest |-> man, parts |-> parts]

\* A manifest that cannot be read is an error of the command.
PrintManifest(c) ==
    /\ cmd[c].pc = "print"
    /\ IF manifest.is = "file"
       THEN Becomes(c, [cmd[c] EXCEPT !.pc = "digest", !.man = manifest.data,
                                      !.left = manifest.data.dates, !.parts = << >>])
       ELSE Ends(c)
    /\ UNCHANGED <<history, files, readiness, artifacts, exported, bounds>>

With(parts, d, rows) == [x \in DOMAIN parts \union {d} |-> IF x = d THEN rows ELSE parts[x]]

PrintPartition(c) ==
    LET d == Head(cmd[c].left) IN
    /\ cmd[c].pc = "digest" /\ cmd[c].left # << >>
    /\ IF partitions[d].is = "file"
       THEN Becomes(c, [cmd[c] EXCEPT !.left = Tail(@),
                                      !.parts = With(@, d, partitions[d].data)])
       ELSE Ends(c)
    /\ UNCHANGED <<history, files, readiness, artifacts, exported, bounds>>

Printed(c, phase) ==
    cmd[c].pc = "digest" /\ cmd[c].left = << >> /\ cmd[c].phase = phase

-----------------------------------------------------------------------------
(* The export *)

\* The rows are chosen; there must be some.
Writing(c, options, phase, rows) ==
    /\ DOMAIN rows # {}
    /\ Len(exported) < MaxExports                               \* bound
    /\ \A x \in Commands : cmd[x].phase \notin Writes           \* bound: one at a time
    /\ exported' = Append(exported, rows)
    /\ Becomes(c, [options EXCEPT !.pc = "open", !.phase = phase,
                      !.left = Descending(DOMAIN rows), !.out = rows,
                      !.stamp = Len(exported) + 1])

\* export_latest_holdings_comparison reads the history; there must be a window.
Exporting(c, options) == Writing(c, options, "export", ExportRows(history))

\* collect-holdings-fixture writes all the rows of the fixture's latest dates the same way.
Collecting == Writing("check", Idle, "export", RowsOf(history, LatestDates(history)))

\* Partitions are rewritten in place, the latest first, then the manifest.
OpenPartition(c) ==
    /\ cmd[c].pc = "open" /\ cmd[c].left # << >>
    /\ partitions' = [partitions EXCEPT ![Head(cmd[c].left)] = Opened]
    /\ Becomes(c, [cmd[c] EXCEPT !.pc = "fill"])
    /\ UNCHANGED <<history, manifest, summary, metadata, readiness, artifacts, exported, bounds>>

FillPartition(c) ==
    LET d == Head(cmd[c].left) IN
    /\ cmd[c].pc = "fill"
    /\ partitions' = [partitions EXCEPT ![d] = File(cmd[c].out[d])]
    /\ Becomes(c, [cmd[c] EXCEPT !.pc = "open", !.left = Tail(@)])
    /\ UNCHANGED <<history, manifest, summary, metadata, readiness, artifacts, exported, bounds>>

OpenManifest(c) ==
    /\ cmd[c].pc = "open" /\ cmd[c].left = << >>
    /\ manifest' = Torn
    /\ Becomes(c, [cmd[c] EXCEPT !.pc = "manifest"])
    /\ UNCHANGED <<history, partitions, summary, metadata, readiness, artifacts, exported, bounds>>

ManifestOf(kind, stamp, out) ==
    [kind |-> kind, stamp |-> stamp, dates |-> Descending(DOMAIN out),
     counts |-> [d \in DOMAIN out |-> Cardinality(out[d])]]

FillManifest(c) ==
    /\ cmd[c].pc = "manifest"
    /\ manifest' = File(ManifestOf(cmd[c].phase, cmd[c].stamp, cmd[c].out))
    /\ Becomes(c, [cmd[c] EXCEPT !.pc = IF cmd[c].phase = "sync" THEN "record" ELSE "print"])
    /\ UNCHANGED <<history, partitions, summary, metadata, readiness, artifacts, exported, bounds>>

\* The summary has the fingerprint of what is on disk now.
OpenSummary(c) ==
    /\ Printed(c, "export")
    /\ summary' = Torn
    /\ Becomes(c, [cmd[c] EXCEPT !.pc = "summary"])
    /\ UNCHANGED <<history, partitions, manifest, metadata, readiness, artifacts, exported, bounds>>

FillSummary(c) ==
    /\ cmd[c].pc = "summary"
    /\ summary' = File([manifest |-> ManifestOf("export", cmd[c].stamp, cmd[c].out),
                        fp |-> Fingerprint(cmd[c].man, cmd[c].parts)])
    /\ Becomes(c, [Idle EXCEPT !.pc = IF c = "check" THEN "print" ELSE "readiness",
                               !.phase = c, !.given = cmd[c].given, !.allow = cmd[c].allow])
    /\ UNCHANGED <<history, partitions, manifest, metadata, readiness, artifacts, exported, bounds>>

Export(c) ==
    \/ OpenPartition(c) \/ FillPartition(c) \/ OpenManifest(c) \/ FillManifest(c)
    \/ PrintManifest(c) \/ PrintPartition(c) \/ OpenSummary(c) \/ FillSummary(c)

-----------------------------------------------------------------------------
(* sync-operational-holdings: a source's partitions, its manifest, a record of both *)

\* The source, a copied export of another program, has the rows of the history and stays
\* as it is while it is copied; dates whose files are missing are not of it.
StartSync ==
    /\ cmd["check"].pc = "idle"
    /\ Writing("check", Idle, "sync", RowsOf(history, LatestDates(history)))
    /\ UNCHANGED <<history, files, readiness, artifacts, bounds>>

\* What the record says of the manifest: its time and dates, and totals of its counts.
RecordOf(man) ==
    [stamp |-> man.stamp, dates |-> man.dates,
     records |-> SumFunction(man.counts), partitions |-> Len(man.dates)]

OpenRecord ==
    /\ cmd["check"].pc = "record"
    /\ metadata' = Torn
    /\ Becomes("check", [cmd["check"] EXCEPT !.pc = "fill_record"])
    /\ UNCHANGED <<history, partitions, manifest, summary, readiness, artifacts, exported, bounds>>

FillRecord ==
    LET c == cmd["check"] IN
    /\ c.pc = "fill_record"
    /\ metadata' = File(RecordOf(ManifestOf("sync", c.stamp, c.out)))
    /\ Ends("check")
    /\ UNCHANGED <<history, partitions, manifest, summary, readiness, artifacts, exported, bounds>>

-----------------------------------------------------------------------------
(* check-operational-readiness *)

\* With provider cache inputs the check exports first.  The commands that only export
\* (export-holdings-comparison, collect-holdings-fixture) are taken with the check of it.
StartCheck ==
    /\ cmd["check"].pc = "idle"
    /\ \/ Exporting("check", Idle) \/ Collecting
       \/ /\ Becomes("check", [Idle EXCEPT !.pc = "print", !.phase = "check"])
          /\ UNCHANGED exported
    /\ UNCHANGED <<history, files, readiness, artifacts, bounds>>

\* The manifest is read again, after its fingerprint.
InspectManifest ==
    LET c == cmd["check"] IN
    /\ Printed("check", "check")
    /\ IF manifest.is = "file"
       THEN Becomes("check", [c EXCEPT !.pc = "compare", !.man = manifest.data,
                                       !.fp = Fingerprint(c.man, c.parts), !.parts = << >>])
       ELSE Ends("check")
    /\ UNCHANGED <<history, files, readiness, artifacts, exported, bounds>>

\* Mutant: the summary is trusted when it names the manifest's dates and counts.
DescribesManifest(s, man, fp) == s.manifest = man

\* _apply_collection_summary_checks: the summary is of this very export.
Describes(s, man, fp) == s.manifest = man /\ s.fp = fp

\* _apply_metadata_checks: the record of a sync, by its time, dates and totals.
Records(m, man) == man.kind = "sync" /\ m = RecordOf(man)

\* A sync's record is looked at first, whatever wrote the manifest; the summary of an
\* export only if there is none.
Evidence(man, fp) ==
    CASE metadata.is # "missing" -> Records(metadata.data, man)
      [] OTHER -> Describes(summary.data, man, fp)

\* A verdict that is failed stays so, whatever else is looked at.
Refused == [Idle EXCEPT !.pc = "scan", !.phase = "check", !.severity = "failed"]

InspectEvidence ==
    LET c == cmd["check"]
        file == IF metadata.is = "missing" THEN summary ELSE metadata
    IN
    /\ c.pc = "compare"
    /\ IF file.is = "torn" THEN Ends("check")
       ELSE IF file.is = "file" /\ ~Evidence(c.man, c.fp) THEN Becomes("check", Refused)
       ELSE Becomes("check", [c EXCEPT !.pc = "scan", !.left = ScanDates(c.man),
               !.severity = IF file.is = "missing" THEN "hold" ELSE "none"])
    /\ UNCHANGED <<history, files, readiness, artifacts, exported, bounds>>

\* What a reader that knows the manifest gets from a partition file.
Readable(man, d) ==
    partitions[d].is = "file" /\ Cardinality(partitions[d].data) = man.counts[d]

\* A missing partition is passed over, one that is not as the manifest says ends the scan.
ScanPartition ==
    LET c == cmd["check"]
        d == Head(c.left) IN
    /\ c.pc = "scan" /\ c.left # << >>
    /\ Becomes("check",
          CASE partitions[d].is = "missing" -> [c EXCEPT !.left = Tail(@)]
            [] partitions[d].is # "missing" /\ Readable(c.man, d) ->
                 [c EXCEPT !.left = Tail(@), !.parts = With(@, d, partitions[d].data)]
            [] OTHER -> Refused)
    /\ UNCHANGED <<history, files, readiness, artifacts, exported, bounds>>

\* No report asks a failed verdict for more than its status.
\* other: a stale date, another day, low coverage and the like ask for a hold.
Conclude(other) ==
    LET c == cmd["check"]
        some == Eligible(c.parts) # {}
        hold == other \/ c.severity = "hold" \/ Cardinality(Eligible(c.parts)) < MinEligible
    IN
    /\ c.pc = "scan" /\ c.left = << >>
    /\ readiness' = IF c.severity = "failed" THEN [status |-> "failed"]
                    ELSE [status |-> IF hold THEN "hold" ELSE "ready",
                          fp |-> c.fp, checked |-> c.parts,
                          current |-> IF some THEN Current(c.parts) ELSE 0,
                          previous |-> IF some THEN Previous(c.parts) ELSE 0]
    /\ Ends("check")
    /\ UNCHANGED <<history, files, artifacts, exported, bounds>>

Check == InspectManifest \/ InspectEvidence \/ ScanPartition \/ \E o \in BOOLEAN : Conclude(o)

-----------------------------------------------------------------------------
(* run-report: the gate *)

\* given: --readiness-path; allow: --allow-operator-review-output.  With provider cache
\* inputs an export is made if its manifest or its summary is missing.
StartReport(given, allow) ==
    LET options == [Idle EXCEPT !.phase = "report", !.given = given, !.allow = allow] IN
    /\ cmd["report"].pc = "idle"
    /\ \/ /\ Becomes("report", [options EXCEPT !.pc = "readiness"])
          /\ UNCHANGED exported
       \/ /\ metadata.is = "missing"                             \* bound
          /\ "missing" \in {manifest.is, summary.is}
          /\ Exporting("report", options)
    /\ UNCHANGED <<history, files, readiness, artifacts, bounds>>

\* Mutant: the override is asked for whatever the verdict is.
AdmitsOverridden(verdict, allow) == verdict.status \in {"ready", "hold"} /\ allow

\* _validate_operational_readiness_status
Admits(verdict, allow) ==
    verdict.status = "ready" \/ (verdict.status = "hold" /\ allow)

ReadReadiness ==
    LET r == cmd["report"] IN
    /\ r.pc = "readiness"
    /\ IF r.given /\ ~Admits(readiness, r.allow) THEN Ends("report")
       ELSE Becomes("report", [r EXCEPT !.pc = "load",
                                        !.verdict = IF r.given THEN readiness ELSE @])
    /\ UNCHANGED <<history, files, readiness, artifacts, exported, bounds>>

\* load_operational_signal_report_inputs
LoadManifest ==
    LET r == cmd["report"] IN
    /\ r.pc = "load"
    /\ IF manifest.is = "file"
       THEN Becomes("report", [r EXCEPT !.pc = "rows", !.man = manifest.data,
                                        !.left = ScanDates(manifest.data)])
       ELSE Ends("report")
    /\ UNCHANGED <<history, files, readiness, artifacts, exported, bounds>>

LoadPartition ==
    LET r == cmd["report"]
        d == Head(r.left) IN
    /\ r.pc = "rows" /\ r.left # << >>
    /\ CASE partitions[d].is = "missing" -> Becomes("report", [r EXCEPT !.left = Tail(@)])
         [] partitions[d].is # "missing" /\ Readable(r.man, d) ->
              Becomes("report", [r EXCEPT !.left = Tail(@),
                                          !.rows = With(@, d, partitions[d].data)])
         [] OTHER -> Ends("report")
    /\ UNCHANGED <<history, files, readiness, artifacts, exported, bounds>>

ToStore(r) ==
    [Idle EXCEPT !.pc = "begin", !.left = <<"readiness", "payload">>,
                 !.rows = r.rows, !.verdict = r.verdict]

\* The loader takes quality notes from the sync's record, or else from the summary.
NotesAreTorn ==
    metadata.is = "torn" \/ (metadata.is = "missing" /\ summary.is = "torn")

\* Without a verdict the report goes on for review only (with neither it would stop here:
\* such reports are left out); with one, the export's fingerprint is computed again,
\* after the rows were loaded.
Loaded ==
    LET r == cmd["report"] IN
    /\ r.pc = "rows" /\ r.left = << >>
    /\ CASE Eligible(r.rows) = {} \/ NotesAreTorn -> Ends("report")
         [] Eligible(r.rows) # {} /\ ~NotesAreTorn /\ ~r.given -> Becomes("report", ToStore(r))
         [] OTHER -> Becomes("report", [r EXCEPT !.pc = "print"])
    /\ UNCHANGED <<history, files, readiness, artifacts, exported, bounds>>

\* The loader's own selection of the dates that are compared.
LoadedWindow(rows) == <<Current(rows), Previous(rows)>>

\* _validate_operational_readiness_match, and an override that nothing asks for.
Validate ==
    LET r == cmd["report"]
        matches == /\ r.verdict.fp = Fingerprint(r.man, r.parts)
                   /\ <<r.verdict.current, r.verdict.previous>> = LoadedWindow(r.rows)
    IN
    /\ Printed("report", "report")
    /\ IF matches /\ ~(r.allow /\ r.verdict.status = "ready")
       THEN Becomes("report", ToStore(r)) ELSE Ends("report")
    /\ UNCHANGED <<history, files, readiness, artifacts, exported, bounds>>

-----------------------------------------------------------------------------
(* run-report: the workflow *)

\* The first artifact of a run makes all others leftovers of earlier ones.
Stored(a) == (IF a = "readiness" THEN {} ELSE root) \union {a}

\* What a failed run stored stays, as leftovers.
Fails ==
    /\ faults < MaxFaults                                       \* bound
    /\ faults' = faults + 1
    /\ root' = {}
    /\ Ends("report")

\* The approval is missing, or what the report says is refused: now, and maybe whenever it
\* is tried again.  This is not bounded.
Stops ==
    /\ announced' = Stopped
    /\ root' = {}
    /\ Ends("report")
    /\ UNCHANGED faults

\* Once its inputs are there a run asks for the approval to send them to its model, opens
\* model and stores and puts its payload together, and stores nothing until all of this is
\* done.  Without the approval it is blocked, whatever its verdict; a payload can be
\* refused for what it says; the model or a store may fail to open.
Begin ==
    LET r == cmd["report"] IN
    /\ r.pc = "begin"
    /\ \/ /\ Becomes("report", [r EXCEPT !.pc = "store"])
          /\ UNCHANGED <<artifacts, faults>>
       \/ Stops
       \/ Fails /\ announced' = NoAnnouncement
    /\ UNCHANGED <<history, files, readiness, exported, updates>>

\* Mutant: an artifact that cannot be stored is passed over.
PassesOver(r) ==
    /\ faults < MaxFaults /\ faults' = faults + 1
    /\ Becomes("report", [r EXCEPT !.left = Tail(@)])
    /\ UNCHANGED root

StoreFails(r) == Fails

\* Artifacts are stored one after the other, in place of those of earlier runs.
Store ==
    LET r == cmd["report"] IN
    /\ r.pc \in {"store", "publish"} /\ r.left # << >>
    /\ \/ /\ root' = Stored(Head(r.left))
          /\ Becomes("report", [r EXCEPT !.left = Tail(@)])
          /\ UNCHANGED faults
       \/ StoreFails(r)
    /\ announced' = NoAnnouncement
    /\ UNCHANGED <<history, files, readiness, exported, updates>>

\* The model comments, the payload is read back (it is this run's: reports do not
\* overlap) and rendered, and the gate's result is stored whatever it is; only what
\* passed is published.  Model and store may fail; renderers and gate refuse for what the
\* payload and the commentary say, which may be the same at every retry.
Render ==
    LET r == cmd["report"] IN
    /\ r.pc = "store" /\ r.left = << >>
    /\ \/ /\ root' = Stored("quality")
          /\ Becomes("report", [r EXCEPT !.pc = "publish",
                                         !.left = Published])
          /\ UNCHANGED <<announced, faults>>
       \/ Stops
       \/ Fails /\ UNCHANGED announced
    /\ UNCHANGED <<history, files, readiness, exported, updates>>

\* What a run that succeeded prints: for the user, or for the operator's review.
Announcement(r) ==
    IF r.verdict.status = "ready"
    THEN [kind |-> "user_ready", rows |-> r.rows, checked |-> r.verdict.checked]
    ELSE [kind |-> "operator_review_only"]

\* The end of the run; putting the announcement together may still fail.
Announce ==
    LET r == cmd["report"] IN
    /\ r.pc = "publish" /\ r.left = << >>
    /\ \/ /\ announced' = Announcement(r)
          /\ Ends("report")
          /\ UNCHANGED <<root, faults>>
       \/ Fails /\ UNCHANGED announced
    /\ UNCHANGED <<history, files, readiness, exported, updates>>

Report ==
    \/ ReadReadiness \/ LoadManifest \/ LoadPartition \/ Loaded \/ Validate
    \/ Begin \/ Store \/ Render \/ Announce

-----------------------------------------------------------------------------

\* A command dies while it exports.  (One that dies later changes nothing more: what a
\* report leaves then, Fails leaves too.)
Crash(c) ==
    /\ cmd[c].phase \in Writes /\ faults < MaxFaults            \* bound
    /\ faults' = faults + 1
    /\ Ends(c)
    /\ UNCHANGED <<history, files, readiness, artifacts, exported, updates>>

CheckStep == Export("check") \/ OpenRecord \/ FillRecord \/ Check
ReportStep == Export("report") \/ Report

\* bound: what makes and stores a report and what checks or exports touch nothing of each other, so
\* it is enough that the check waits then.
Storing == cmd["report"].pc \in {"begin", "store", "publish"}

Next ==
    \/ /\ ~Storing
       /\ \/ \E e \in Etfs, d \in Dates : UpdateHistory(e, d)
          \/ StartCheck \/ StartSync
          \/ CheckStep \/ Crash("check")
    \/ \E given, allow \in BOOLEAN : (given \/ allow) /\ StartReport(given, allow)
    \/ ReportStep \/ Crash("report")

Spec == Init /\ [][Next]_vars

\* A report that runs goes on, and the operator asks for it again and again.
FairSpec == Spec /\ WF_vars(ReportStep) /\ SF_vars(StartReport(TRUE, FALSE))

-----------------------------------------------------------------------------
(* Properties *)

\* What the files and the commands hold; a verdict that is ready compares two dates.
TypeOK ==
    /\ DOMAIN history \subseteq Etfs \X Dates /\ history \in [DOMAIN history -> Revisions]
    /\ \A d \in Dates : partitions[d] \in {Missing, Torn} \/ partitions[d].is = "file"
    /\ readiness.status \in {"none", "ready", "hold", "failed"}
    /\ readiness.status = "ready" =>
         readiness.previous \in 1..(readiness.current - 1) /\ readiness.current \in Dates
    /\ DOMAIN cmd = Commands
    /\ root \subseteq Artifacts
    /\ announced.kind \in Succeeded \union {"none", "stopped"}
    /\ updates \in 0..MaxUpdates /\ faults \in 0..MaxFaults

\* A report for the user was made from exactly the rows that its verdict was reached on,
\* whatever exports and checks ran meanwhile (the fingerprint is computed again after the
\* rows are loaded).
ReportedRowsWereChecked ==
    announced.kind = "user_ready" => announced.rows = announced.checked

\* A verdict that is ready is on the rows of one export, never on a mixture of the files
\* of several (the summary's fingerprint).  After a sync, whose record has no fingerprint,
\* it is at least on whole partitions of the dates the manifest names.
ReadyIsOneExport ==
    LET man == readiness.fp.manifest IN
    readiness.status = "ready" =>
        /\ man.kind = "export" => readiness.fp.parts = exported[man.stamp]
        /\ \A d \in DOMAIN readiness.checked : \E i \in DOMAIN exported :
               d \in DOMAIN exported[i] /\ readiness.checked[d] = exported[i][d]

\* What a run announces is all its own: no artifact that it refers to is a leftover of an
\* earlier run under the same root.
AnnouncedWhole ==
    announced.kind \in Succeeded => root = Artifacts

OnDisk ==
    IF /\ manifest.is = "file"
       /\ \A i \in DOMAIN manifest.data.dates : partitions[manifest.data.dates[i]].is = "file"
    THEN {Fingerprint(manifest.data,
                      [d \in ToSet(manifest.data.dates) |-> partitions[d].data])}
    ELSE {}

\* A ready verdict that stays, on an export that stays, ends in a report for the user,
\* unless the approval is missing or the content is refused, again and again: check and
\* loader choose the same windows, and nothing else stops what the verdict let pass.
\* (Failures of model and stores come to an end: MaxFaults.)
ReadyVerdictsGetReported ==
    <>[](readiness.status = "ready" /\ readiness.fp \in OnDisk)
        => []<>(announced.kind \in {"user_ready", "stopped"})

=============================================================================
