--------------------------- MODULE HoldingsHistory ---------------------------
(***************************************************************************)
(* The holdings history store (adapters/operational_holdings.py): one      *)
(* JSONL partition per observed date and a manifest that lists the dates   *)
(* with their record counts.  Commands that update it (the native fixture, *)
(* the import of a normalised export) and commands that only read it (the  *)
(* comparison export) first read all of it; an update then decides what to *)
(* add or refresh, and rewrites every partition and last the manifest.     *)
(* There is no lock, no file is replaced atomically, and a command can die *)
(* at any step; the record counts are the only check a reader makes that   *)
(* manifest and partitions belong together.                                *)
(*                                                                         *)
(* A snapshot is an ETF at an observed date; its rows are one of Contents, *)
(* of which only identity (the fingerprint) and the number of rows matter. *)
(***************************************************************************)
EXTENDS Integers, FiniteSets

CONSTANTS
    Etfs,
    MaxDate,        \* bound: observed dates are 1..MaxDate, in calendar order
    Contents,       \* what the rows of a snapshot may be
    RowCount,       \* how many rows each has
    Commands,       \* commands that may be running at once
    MaxSnapshots    \* bound: snapshots one command brings or refreshes

ASSUME RowCountAssumption == RowCount \in [Contents -> Nat \ {0}]
ASSUME BoundsAssumption ==
    IsFiniteSet(Etfs) /\ MaxDate \in Nat \ {0} /\ MaxSnapshots \in Nat

Dates == 1..MaxDate
Snapshots == Etfs \X Dates
Partial(f, S, T) == DOMAIN f \subseteq S /\ f \in [DOMAIN f -> T]
Histories == UNION {[D -> Contents] : D \in SUBSET Snapshots}
Nothing == << >>   \* no snapshots, no rows

VARIABLES
    partition,     \* the JSONL file of each date
    manifest,      \* holdings_history.json
    cmd,           \* the state of each command
    known,         \* observation: what the last successful read or write showed
    offered,       \* observation: what the commands that wrote since then were given
    interrupted    \* observation: some command died while it was writing

vars == <<partition, manifest, cmd, known, offered, interrupted>>

Absent == [is |-> "absent"]
Garbled == [is |-> "garbled"]   \* not JSON: any reader refuses it
File(data) == [is |-> "file", data |-> data]
Truncated == File(Nothing)      \* an empty JSONL file parses, as no rows

Phases == {"idle", "manifest", "partitions", "decide", "open_partition",
           "write_partition", "open_manifest", "write_manifest"}
WritePhases == {"open_partition", "write_partition", "open_manifest", "write_manifest"}

\* incoming and refresh are the command's arguments; counts what the manifest said;
\* todo the dates still to read or write; stored what was read; next what is written.
Idle == [pc |-> "idle", incoming |-> Nothing, refresh |-> {}, counts |-> Nothing,
         todo |-> {}, stored |-> Nothing, next |-> Nothing]

Init ==
    /\ partition = [d \in Dates |-> Absent]
    /\ manifest = Absent
    /\ cmd = [c \in Commands |-> Idle]
    /\ known = Nothing
    /\ offered = {}
    /\ interrupted = FALSE

-----------------------------------------------------------------------------
(* What is computed from the files *)

Latest(dates) == CHOOSE d \in dates : \A e \in dates : e <= d
DatesOf(history) == {s[2] : s \in DOMAIN history}

\* A snapshot of an ETF has so many records; a partition those of all its snapshots.
Records(rows) == UNION {{e} \X (1..RowCount[rows[e]]) : e \in DOMAIN rows}
RecordCount(rows) == Cardinality(Records(rows))

\* The rows a partition is written with: all the ETFs the history has at its date.
RowsAt(history, d) ==
    [e \in {f \in Etfs : <<f, d>> \in DOMAIN history} |-> history[<<e, d>>]]

\* Mutant: the snapshot count of a date goes where its record count belongs.
ManifestCountsOfSnapshots(history) ==
    [d \in DatesOf(history) |-> Cardinality(DOMAIN RowsAt(history, d))]

ManifestCounts(history) ==
    [d \in DatesOf(history) |-> RecordCount(RowsAt(history, d))]

\* Mutant: the number of rows is not compared with the manifest.
PartitionReadableAnyCount(file, count) == file.is = "file"

\* _read_normalized_partition: a missing file, a bad line or another number of
\* rows than the manifest says is an error.
PartitionReadable(file, count) ==
    file.is = "file" /\ RecordCount(file.data) = count

\* The history with d's rows read from its partition.
WithDate(history, d, rows) ==
    LET read == {<<e, d>> : e \in DOMAIN rows}
    IN [s \in DOMAIN history \union read |-> IF s \in read THEN rows[s[1]] ELSE history[s]]

Merged(stored, incoming) ==
    [s \in DOMAIN stored \union DOMAIN incoming |->
        IF s \in DOMAIN incoming THEN incoming[s] ELSE stored[s]]

Changed(stored, incoming) ==
    {s \in DOMAIN incoming : s \in DOMAIN stored => stored[s] # incoming[s]}

\* What a command was given.
Offers(m) == {<<s, m.incoming[s], s \in m.refresh>> : s \in DOMAIN m.incoming}

\* Stored snapshots that differ from what the command brings, and that it was not
\* told to refresh.
Conflicts(stored, incoming, refresh) ==
    (Changed(stored, incoming) \intersect DOMAIN stored) \ refresh

-----------------------------------------------------------------------------
(* The steps of a command *)

End(c) == cmd' = [cmd EXCEPT ![c] = Idle]

\* A command starts with the snapshots it brings (none, if it only reads).
Start(c, incoming, refresh) ==
    /\ cmd[c].pc = "idle"
    /\ cmd' = [cmd EXCEPT ![c].pc = "manifest", ![c].incoming = incoming,
                          ![c].refresh = refresh]
    /\ UNCHANGED <<partition, manifest, known, offered, interrupted>>

\* Mutant: a manifest that is not JSON is read as one that lists no dates.
ReadManifestForgives(c) ==
    /\ cmd[c].pc = "manifest"
    /\ IF manifest.is = "absent" THEN cmd' = [cmd EXCEPT ![c].pc = "decide"]
       ELSE LET counts == IF manifest = Garbled THEN Nothing ELSE manifest.data
            IN cmd' = [cmd EXCEPT ![c].pc = "partitions", ![c].counts = counts,
                                  ![c].todo = DOMAIN counts]
    /\ UNCHANGED <<partition, manifest, known, offered, interrupted>>

ReadManifest(c) ==
    /\ cmd[c].pc = "manifest"
    /\ CASE manifest.is = "absent" -> cmd' = [cmd EXCEPT ![c].pc = "decide"]
         [] manifest.is = "garbled" -> End(c)
         [] OTHER -> cmd' = [cmd EXCEPT ![c].pc = "partitions",
                                        ![c].counts = manifest.data,
                                        ![c].todo = DOMAIN manifest.data]
    /\ UNCHANGED <<partition, manifest, known, offered, interrupted>>

\* The partitions are read one by one, the latest first; an error ends the command.
ReadPartition(c) ==
    LET d == Latest(cmd[c].todo) IN
    /\ cmd[c].pc = "partitions"
    /\ IF PartitionReadable(partition[d], cmd[c].counts[d])
       THEN cmd' = [cmd EXCEPT
                ![c].pc = IF cmd[c].todo = {d} THEN "decide" ELSE "partitions",
                ![c].todo = @ \ {d},
                ![c].stored = WithDate(@, d, partition[d].data)]
       ELSE End(c)
    /\ UNCHANGED <<partition, manifest, known, offered, interrupted>>

\* _apply_history_snapshot_update: refuse a refresh of a snapshot that was not
\* brought, then any conflict; write only if something is new or refreshed.
Decide(c) ==
    LET m == cmd[c]
        writes == /\ m.refresh \subseteq DOMAIN m.incoming
                  /\ Conflicts(m.stored, m.incoming, m.refresh) = {}
                  /\ Changed(m.stored, m.incoming) # {}
        next == Merged(m.stored, m.incoming)
    IN
    /\ m.pc = "decide"
    /\ IF writes
       THEN cmd' = [cmd EXCEPT ![c].pc = "open_partition", ![c].next = next,
                               ![c].todo = DatesOf(next)]
       ELSE End(c)
    /\ known' = m.stored
    /\ offered' = UNION {Offers(cmd[q]) :
                         q \in {p \in Commands : cmd'[p].pc \in WritePhases}}
    /\ UNCHANGED <<partition, manifest, interrupted>>

\* Each partition is truncated ...
OpenPartition(c) ==
    /\ cmd[c].pc = "open_partition"
    /\ partition' = [partition EXCEPT ![Latest(cmd[c].todo)] = Truncated]
    /\ cmd' = [cmd EXCEPT ![c].pc = "write_partition"]
    /\ UNCHANGED <<manifest, known, offered, interrupted>>

\* ... and written; over what another command wrote meanwhile, it may be garbled.
WritePartition(c) ==
    LET d == Latest(cmd[c].todo)
        new == File(RowsAt(cmd[c].next, d))
    IN
    /\ cmd[c].pc = "write_partition"
    /\ \E file \in IF partition[d] = Truncated THEN {new} ELSE {new, Garbled} :
         partition' = [partition EXCEPT ![d] = file]
    /\ cmd' = [cmd EXCEPT
           ![c].pc = IF cmd[c].todo = {d} THEN "open_manifest" ELSE "open_partition",
           ![c].todo = @ \ {d}]
    /\ UNCHANGED <<manifest, known, offered, interrupted>>

OpenManifest(c) ==
    /\ cmd[c].pc = "open_manifest"
    /\ manifest' = Garbled
    /\ cmd' = [cmd EXCEPT ![c].pc = "write_manifest"]
    /\ UNCHANGED <<partition, known, offered, interrupted>>

WriteManifest(c) ==
    LET m == cmd[c]
        new == File(ManifestCounts(m.next))
    IN
    /\ m.pc = "write_manifest"
    /\ manifest' \in IF manifest = Garbled THEN {new} ELSE {new, Garbled}
    /\ known' = m.next
    /\ End(c)
    /\ UNCHANGED <<partition, offered, interrupted>>

\* The process dies; what it wrote stays.
Crash(c) ==
    /\ cmd[c].pc # "idle"
    /\ End(c)
    /\ interrupted' = (interrupted \/ cmd[c].pc \in WritePhases)
    /\ UNCHANGED <<partition, manifest, known, offered>>

\* Bound: the snapshots of one command.  A refresh that it does not bring is only
\* tried alone: it stops any command the same way.
Arguments ==
    {a \in [incoming : Histories, refresh : SUBSET Snapshots] :
        /\ Cardinality(DOMAIN a.incoming) <= MaxSnapshots
        /\ \/ a.refresh \subseteq DOMAIN a.incoming
           \/ a.incoming = Nothing /\ Cardinality(a.refresh) = 1}

Next ==
    \E c \in Commands :
        \/ \E a \in Arguments : Start(c, a.incoming, a.refresh)
        \/ ReadManifest(c) \/ ReadPartition(c) \/ Decide(c)
        \/ OpenPartition(c) \/ WritePartition(c) \/ OpenManifest(c) \/ WriteManifest(c)
        \/ Crash(c)

Spec == Init /\ [][Next]_vars

-----------------------------------------------------------------------------
(* Properties *)

\* The files, and the memory of the commands; a command never waits for a date when
\* none is left.
TypeOK ==
    /\ \A d \in Dates : \/ partition[d] \in {Absent, Garbled}
                        \/ partition[d].is = "file"
                           /\ Partial(partition[d].data, Etfs, Contents)
    /\ \/ manifest \in {Absent, Garbled}
       \/ manifest.is = "file" /\ Partial(manifest.data, Dates, Nat)
    /\ \A c \in Commands :
         /\ cmd[c].pc \in Phases
         /\ Partial(cmd[c].incoming, Snapshots, Contents)
         /\ cmd[c].refresh \subseteq Snapshots
         /\ Partial(cmd[c].counts, Dates, Nat)
         /\ cmd[c].todo \subseteq Dates
         /\ Partial(cmd[c].stored, Snapshots, Contents)
         /\ Partial(cmd[c].next, Snapshots, Contents)
         /\ cmd[c].pc \in {"partitions", "open_partition", "write_partition"}
              => cmd[c].todo # {}
    /\ Partial(known, Snapshots, Contents)
    /\ offered \subseteq Snapshots \X Contents \X BOOLEAN
    /\ interrupted \in BOOLEAN

\* What the history promises its readers: SnapshotStore.  A command that was killed
\* between two writes may leave the history unreadable, but never with a snapshot
\* missing, never with one replaced without a refresh, never with one back from an
\* update that was abandoned (_write_history_snapshot_rows' order of writes, and the
\* record counts).
Store == INSTANCE SnapshotStore
StoreIsKept == Store!Spec

\* What a reader gets: an error unless Readable; exactly the snapshots of h if Shows(h).
Readable ==
    \/ manifest = Absent
    \/ /\ manifest.is = "file"
       /\ \A d \in DOMAIN manifest.data : PartitionReadable(partition[d], manifest.data[d])
Shows(h) ==
    IF h = Nothing THEN manifest = Absent
    ELSE /\ manifest.is = "file"
         /\ DOMAIN manifest.data = DatesOf(h)
         /\ \A d \in DatesOf(h) :
              /\ PartitionReadable(partition[d], manifest.data[d])
              /\ partition[d].data = RowsAt(h, d)

\* Whoever reads the history between two updates gets exactly what the last update wrote
\* (the round trip of _write_history_snapshot_rows and _read_history_snapshot_rows).  If a
\* command died while it wrote, he gets an error or the same: the whole update or nothing of
\* it, never some of its dates, unless it was to replace a snapshot by --refresh.
Replacing ==
    \E s \in DOMAIN known, x \in Contents : x # known[s] /\ <<s, x, TRUE>> \in offered

ReadersSeeTheLastUpdate ==
    /\ (~interrupted /\ \A c \in Commands : cmd[c].pc \notin WritePhases) => Shows(known)
    /\ (Readable /\ ~Replacing) => Shows(known)

=============================================================================
