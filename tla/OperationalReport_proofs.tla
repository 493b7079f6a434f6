---------------------- MODULE OperationalReport_proofs ----------------------
(***************************************************************************)
(* Theorems about OperationalReport, for any ETFs, dates and histories.    *)
(***************************************************************************)
EXTENDS OperationalReport, FiniteSetTheorems, SequenceTheorems, TLAPS

Storage == {"begin", "store", "publish"}
First == <<"readiness", "payload">>

\* What is left to store, and what the run has stored by then.
StoredWhenLeft(pc, left) ==
    IF pc = "begin" THEN {}
    ELSE IF pc = "store"
    THEN CASE left = First -> {}
           [] left = <<"payload">> -> {"readiness"}
           [] OTHER -> {"readiness", "payload"}
    ELSE CASE left = Published -> {"readiness", "payload", "quality"}
           [] left = <<"html", "telegram", "review">> ->
                {"readiness", "payload", "quality", "report"}
           [] left = <<"telegram", "review">> ->
                {"readiness", "payload", "quality", "report", "html"}
           [] left = <<"review">> -> Artifacts \ {"review"}
           [] OTHER -> Artifacts

Lefts(pc) ==
    IF pc = "begin" THEN {First}
    ELSE IF pc = "store" THEN {First, <<"payload">>, << >>}
    ELSE {Published, <<"html", "telegram", "review">>, <<"telegram", "review">>,
          <<"review">>, << >>}

\* The commands have the fields of Idle, and only a report stores.
CommandsInv ==
    /\ DOMAIN cmd = Commands
    /\ \A c \in Commands : DOMAIN cmd[c] = DOMAIN Idle
    /\ cmd["check"].pc \notin Storage

\* What a report that is storing has stored is still there, under this run.
StoringInv ==
    LET r == cmd["report"] IN
    r.pc \in Storage =>
        /\ r.left \in Lefts(r.pc)
        /\ StoredWhenLeft(r.pc, r.left) \subseteq root

\* From its first artifact on, a run leaves no announcement of an earlier one.
AnnouncedInv ==
    LET r == cmd["report"] IN
    /\ announced.kind \in Succeeded => root = Artifacts
    /\ announced.kind # "none" /\ r.pc \in Storage =>
         r.pc \in {"begin", "store"} /\ r.left = First

Inv ==
    /\ CommandsInv
    /\ StoringInv
    /\ AnnouncedInv
    /\ root \subseteq Artifacts

LEMMA InitInv == Init => Inv
BY DEF Init, Inv, CommandsInv, StoringInv, AnnouncedInv, Idle, Commands, Storage,
       NoAnnouncement, Succeeded

\* A command that goes on to anything but storing, or ends, disturbs nothing.
LEMMA GoesOn ==
    ASSUME Inv, UNCHANGED artifacts,
           NEW c \in Commands, NEW new, Becomes(c, new),
           DOMAIN new = DOMAIN Idle, new.pc \notin Storage
    PROVE  Inv'
<1>1. cmd' = [cmd EXCEPT ![c] = new] /\ root' = root /\ announced' = announced
  BY DEF Becomes, artifacts
<1>2. DOMAIN cmd = Commands /\ "report" \in Commands /\ "check" \in Commands
  BY DEF Inv, CommandsInv, Commands
<1>3. CommandsInv'
  BY <1>1, <1>2 DEF Inv, CommandsInv, Commands
<1>4. cmd'["report"] = cmd["report"] \/ cmd'["report"].pc \notin Storage
  BY <1>1, <1>2
<1>5. StoringInv'
  BY <1>1, <1>4 DEF Inv, StoringInv
<1>6. AnnouncedInv'
  BY <1>1, <1>4 DEF Inv, AnnouncedInv
<1> QED
  BY <1>1, <1>3, <1>5, <1>6 DEF Inv

LEMMA EndsInv ==
    ASSUME Inv, UNCHANGED artifacts, NEW c \in Commands, Ends(c)
    PROVE  Inv'
<1>1. DOMAIN Idle = DOMAIN Idle /\ Idle.pc \notin Storage
  BY DEF Idle, Storage
<1> QED
  BY <1>1, GoesOn DEF Ends

LEMMA ExportInv ==
    ASSUME Inv, NEW c \in Commands, Export(c)
    PROVE  Inv'
<1> USE DEF Storage
<1>1. DOMAIN cmd[c] = DOMAIN Idle
  BY DEF Inv, CommandsInv
<1>2. "pc" \in DOMAIN Idle
  BY DEF Idle
<1>3. CASE OpenPartition(c)
  <2> DEFINE new == [cmd[c] EXCEPT !.pc = "fill"]
  <2>1. Becomes(c, new) /\ UNCHANGED artifacts
    BY <1>3 DEF OpenPartition
  <2>2. DOMAIN new = DOMAIN Idle /\ new.pc = "fill"
    BY <1>1, <1>2
  <2> QED
    BY <2>1, <2>2, GoesOn
<1>4. CASE FillPartition(c)
  <2> DEFINE new == [cmd[c] EXCEPT !.pc = "open", !.left = Tail(@)]
  <2>1. Becomes(c, new) /\ UNCHANGED artifacts
    BY <1>4 DEF FillPartition
  <2>2. DOMAIN new = DOMAIN Idle /\ new.pc = "open"
    BY <1>1, <1>2
  <2> QED
    BY <2>1, <2>2, GoesOn
<1>5. CASE OpenManifest(c)
  <2> DEFINE new == [cmd[c] EXCEPT !.pc = "manifest"]
  <2>1. Becomes(c, new) /\ UNCHANGED artifacts
    BY <1>5 DEF OpenManifest
  <2>2. DOMAIN new = DOMAIN Idle /\ new.pc = "manifest"
    BY <1>1, <1>2
  <2> QED
    BY <2>1, <2>2, GoesOn
<1>6. CASE FillManifest(c)
  <2> DEFINE new == [cmd[c] EXCEPT !.pc = IF cmd[c].phase = "sync" THEN "record" ELSE "print"]
  <2>1. Becomes(c, new) /\ UNCHANGED artifacts
    BY <1>6 DEF FillManifest
  <2>2. DOMAIN new = DOMAIN Idle /\ new.pc \in {"record", "print"}
    BY <1>1, <1>2
  <2> QED
    BY <2>1, <2>2, GoesOn
<1>7. CASE PrintManifest(c)
  <2> DEFINE new == [cmd[c] EXCEPT !.pc = "digest", !.man = manifest.data,
                                   !.left = manifest.data.dates, !.parts = << >>]
  <2>1. (Becomes(c, new) \/ Ends(c)) /\ UNCHANGED artifacts
    BY <1>7 DEF PrintManifest
  <2>2. DOMAIN new = DOMAIN Idle /\ new.pc = "digest"
    BY <1>1, <1>2
  <2> QED
    BY <2>1, <2>2, GoesOn, EndsInv
<1>8. CASE PrintPartition(c)
  <2> DEFINE d == Head(cmd[c].left)
             new == [cmd[c] EXCEPT !.left = Tail(@), !.parts = With(@, d, partitions[d].data)]
  <2>1. (Becomes(c, new) \/ Ends(c)) /\ cmd[c].pc = "digest" /\ UNCHANGED artifacts
    BY <1>8 DEF PrintPartition
  <2>2. DOMAIN new = DOMAIN Idle /\ new.pc = "digest"
    BY <1>1, <1>2, <2>1
  <2> QED
    BY <2>1, <2>2, GoesOn, EndsInv
<1>9. CASE OpenSummary(c)
  <2> DEFINE new == [cmd[c] EXCEPT !.pc = "summary"]
  <2>1. Becomes(c, new) /\ UNCHANGED artifacts
    BY <1>9 DEF OpenSummary
  <2>2. DOMAIN new = DOMAIN Idle /\ new.pc = "summary"
    BY <1>1, <1>2
  <2> QED
    BY <2>1, <2>2, GoesOn
<1>10. CASE FillSummary(c)
  <2> DEFINE new == [Idle EXCEPT !.pc = IF c = "check" THEN "print" ELSE "readiness",
                         !.phase = c, !.given = cmd[c].given, !.allow = cmd[c].allow]
  <2>1. Becomes(c, new) /\ UNCHANGED artifacts
    BY <1>10 DEF FillSummary
  <2>2. DOMAIN new = DOMAIN Idle /\ new.pc \in {"print", "readiness"}
    BY <1>2
  <2> QED
    BY <2>1, <2>2, GoesOn
<1> QED
  BY <1>3, <1>4, <1>5, <1>6, <1>7, <1>8, <1>9, <1>10 DEF Export

LEMMA RecordInv ==
    ASSUME Inv, OpenRecord \/ FillRecord
    PROVE  Inv'
<1> DEFINE new == [cmd["check"] EXCEPT !.pc = "fill_record"]
<1>1. "check" \in Commands /\ DOMAIN cmd["check"] = DOMAIN Idle /\ "pc" \in DOMAIN Idle
  BY DEF Inv, CommandsInv, Commands, Idle
<1>2. (Becomes("check", new) \/ Ends("check")) /\ UNCHANGED artifacts
  BY DEF OpenRecord, FillRecord
<1>3. DOMAIN new = DOMAIN Idle /\ new.pc \notin Storage
  BY <1>1 DEF Storage
<1> QED
  BY <1>1, <1>2, <1>3, GoesOn, EndsInv

LEMMA CheckInv ==
    ASSUME Inv, Check
    PROVE  Inv'
<1> USE DEF Storage
<1> DEFINE c == cmd["check"]
<1>1. "check" \in Commands /\ DOMAIN c = DOMAIN Idle /\ "pc" \in DOMAIN Idle
  BY DEF Inv, CommandsInv, Commands, Idle
<1>r. DOMAIN Refused = DOMAIN Idle /\ Refused.pc = "scan"
  BY <1>1 DEF Refused
<1>2. CASE InspectManifest
  <2> DEFINE new == [c EXCEPT !.pc = "compare", !.man = manifest.data,
                              !.fp = Fingerprint(c.man, c.parts), !.parts = << >>]
  <2>1. (Becomes("check", new) \/ Ends("check")) /\ UNCHANGED artifacts
    BY <1>2 DEF InspectManifest
  <2>2. DOMAIN new = DOMAIN Idle /\ new.pc = "compare"
    BY <1>1
  <2> QED
    BY <1>1, <2>1, <2>2, GoesOn, EndsInv
<1>3. CASE InspectEvidence
  <2> DEFINE file == IF metadata.is = "missing" THEN summary ELSE metadata
             severity == IF file.is = "missing" THEN "hold" ELSE "none"
             new == [c EXCEPT !.pc = "scan", !.left = ScanDates(c.man), !.severity = severity]
  <2>1. /\ UNCHANGED artifacts
        /\ Becomes("check", new) \/ Becomes("check", Refused) \/ Ends("check")
    BY <1>3 DEF InspectEvidence
  <2>2. DOMAIN new = DOMAIN Idle /\ new.pc = "scan"
    BY <1>1
  <2> QED
    BY <1>1, <1>r, <2>1, <2>2, GoesOn, EndsInv
<1>4. CASE ScanPartition
  <2> DEFINE d == Head(c.left)
             over == [c EXCEPT !.left = Tail(@)]
             read == [c EXCEPT !.left = Tail(@), !.parts = With(@, d, partitions[d].data)]
  <2>1. /\ c.pc = "scan" /\ UNCHANGED artifacts
        /\ Becomes("check", over) \/ Becomes("check", read) \/ Becomes("check", Refused)
    BY <1>4 DEF ScanPartition
  <2>2. /\ DOMAIN over = DOMAIN Idle /\ over.pc = "scan"
        /\ DOMAIN read = DOMAIN Idle /\ read.pc = "scan"
    BY <1>1, <2>1
  <2> QED
    BY <1>1, <1>r, <2>1, <2>2, GoesOn
<1>5. CASE \E o \in BOOLEAN : Conclude(o)
  <2>1. Ends("check") /\ UNCHANGED artifacts
    BY <1>5 DEF Conclude
  <2> QED
    BY <1>1, <2>1, EndsInv
<1> QED
  BY <1>2, <1>3, <1>4, <1>5 DEF Check

\* A report that passes its gate has everything still to store.
LEMMA ToStoreInv ==
    ASSUME Inv, UNCHANGED artifacts, Becomes("report", ToStore(cmd["report"]))
    PROVE  Inv'
<1> DEFINE r == cmd["report"]
<1>1. /\ cmd' = [cmd EXCEPT !["report"] = ToStore(r)]
      /\ root' = root /\ announced' = announced
  BY DEF Becomes, artifacts
<1>2. /\ DOMAIN ToStore(r) = DOMAIN Idle
      /\ ToStore(r).pc = "begin" /\ ToStore(r).left = First
  BY DEF ToStore, Idle, First
<1>3. DOMAIN cmd = Commands /\ "report" \in Commands /\ "check" \in Commands
  BY DEF Inv, CommandsInv, Commands
<1>4. cmd'["report"] = ToStore(r) /\ cmd'["check"] = cmd["check"]
  BY <1>1, <1>3
<1>5. CommandsInv'
  BY <1>1, <1>2, <1>3 DEF Inv, CommandsInv, Commands
<1>6. StoringInv'
  <2>1. StoredWhenLeft("begin", First) = {}
    BY DEF StoredWhenLeft
  <2> QED
    BY <1>2, <1>4, <2>1 DEF StoringInv, Lefts
<1>7. AnnouncedInv'
  BY <1>1, <1>2, <1>4 DEF Inv, AnnouncedInv
<1> QED
  BY <1>1, <1>5, <1>6, <1>7 DEF Inv

LEMMA GateInv ==
    ASSUME Inv, ReadReadiness \/ LoadManifest \/ LoadPartition \/ Loaded \/ Validate
    PROVE  Inv'
<1> USE DEF Storage
<1> DEFINE r == cmd["report"]
<1>1. "report" \in Commands /\ DOMAIN r = DOMAIN Idle /\ "pc" \in DOMAIN Idle
  BY DEF Inv, CommandsInv, Commands, Idle
<1>2. CASE ReadReadiness
  <2> DEFINE verdict == IF r.given THEN readiness ELSE r.verdict
             new == [r EXCEPT !.pc = "load", !.verdict = verdict]
  <2>1. (Becomes("report", new) \/ Ends("report")) /\ UNCHANGED artifacts
    BY <1>2 DEF ReadReadiness
  <2>2. DOMAIN new = DOMAIN Idle /\ new.pc = "load"
    BY <1>1
  <2> QED
    BY <1>1, <2>1, <2>2, GoesOn, EndsInv
<1>3. CASE LoadManifest
  <2> DEFINE new == [r EXCEPT !.pc = "rows", !.man = manifest.data,
                              !.left = ScanDates(manifest.data)]
  <2>1. (Becomes("report", new) \/ Ends("report")) /\ UNCHANGED artifacts
    BY <1>3 DEF LoadManifest
  <2>2. DOMAIN new = DOMAIN Idle /\ new.pc = "rows"
    BY <1>1
  <2> QED
    BY <1>1, <2>1, <2>2, GoesOn, EndsInv
<1>4. CASE LoadPartition
  <2> DEFINE d == Head(r.left)
             over == [r EXCEPT !.left = Tail(@)]
             read == [r EXCEPT !.left = Tail(@), !.rows = With(@, d, partitions[d].data)]
  <2>1. /\ r.pc = "rows" /\ UNCHANGED artifacts
        /\ Becomes("report", over) \/ Becomes("report", read) \/ Ends("report")
    BY <1>4 DEF LoadPartition
  <2>2. /\ DOMAIN over = DOMAIN Idle /\ over.pc = "rows"
        /\ DOMAIN read = DOMAIN Idle /\ read.pc = "rows"
    BY <1>1, <2>1
  <2> QED
    BY <1>1, <2>1, <2>2, GoesOn, EndsInv
<1>5. CASE Loaded
  <2> DEFINE new == [r EXCEPT !.pc = "print"]
  <2>1. /\ UNCHANGED artifacts
        /\ Ends("report") \/ Becomes("report", ToStore(r)) \/ Becomes("report", new)
    BY <1>5 DEF Loaded
  <2>2. DOMAIN new = DOMAIN Idle /\ new.pc = "print"
    BY <1>1
  <2> QED
    BY <1>1, <2>1, <2>2, GoesOn, EndsInv, ToStoreInv
<1>6. CASE Validate
  <2>1. /\ UNCHANGED artifacts
        /\ Ends("report") \/ Becomes("report", ToStore(r))
    BY <1>6 DEF Validate
  <2> QED
    BY <1>1, <2>1, EndsInv, ToStoreInv
<1> QED
  BY <1>2, <1>3, <1>4, <1>5, <1>6

\* A run that does not get to its end keeps nothing and announces no success.
LEMMA ReportEndsInv ==
    ASSUME Inv, Ends("report"), root' = {}, announced'.kind \notin Succeeded
    PROVE  Inv'
<1>1. cmd' = [cmd EXCEPT !["report"] = Idle]
  BY DEF Ends, Becomes
<1>2. DOMAIN cmd = Commands /\ "report" \in Commands /\ "check" \in Commands
  BY DEF Inv, CommandsInv, Commands
<1>3. cmd'["report"] = Idle /\ cmd'["check"] = cmd["check"] /\ Idle.pc \notin Storage
  BY <1>1, <1>2 DEF Idle, Storage
<1>4. CommandsInv'
  BY <1>1, <1>2, <1>3 DEF Inv, CommandsInv, Commands
<1>5. StoringInv'
  BY <1>3 DEF StoringInv
<1>6. AnnouncedInv'
  BY <1>3 DEF AnnouncedInv
<1> QED
  BY <1>4, <1>5, <1>6 DEF Inv

LEMMA FailsInv ==
    ASSUME Inv, Fails, announced'.kind = "none"
    PROVE  Inv'
BY ReportEndsInv DEF Fails, Succeeded

\* A run that may begin has everything still to store.
LEMMA BeginInv ==
    ASSUME Inv, Begin
    PROVE  Inv'
<1> DEFINE r == cmd["report"]
           new == [r EXCEPT !.pc = "store"]
<1>1. r.pc = "begin"
  BY DEF Begin
<1>2. /\ DOMAIN cmd = Commands /\ "report" \in Commands /\ "check" \in Commands
      /\ DOMAIN r = DOMAIN Idle /\ "pc" \in DOMAIN Idle /\ "left" \in DOMAIN Idle
  BY DEF Inv, CommandsInv, Commands, Idle
<1>3. r.left = First
  BY <1>1 DEF Inv, StoringInv, Storage, Lefts
<1>4. CASE Becomes("report", new) /\ UNCHANGED artifacts
  <2>1. cmd' = [cmd EXCEPT !["report"] = new] /\ root' = root /\ announced' = announced
    BY <1>4 DEF Becomes, artifacts
  <2>2. new.pc = "store" /\ new.left = First /\ DOMAIN new = DOMAIN Idle
    BY <1>2, <1>3
  <2> HIDE DEF new
  <2>3. cmd'["report"] = new /\ cmd'["check"] = cmd["check"]
    BY <1>2, <2>1
  <2>4. CommandsInv'
    BY <1>2, <2>1, <2>2, <2>3 DEF Inv, CommandsInv, Commands
  <2>5. StoredWhenLeft("store", First) = {}
    BY DEF StoredWhenLeft, First
  <2>6. StoringInv'
    BY <2>2, <2>3, <2>5 DEF StoringInv, Lefts
  <2>7. AnnouncedInv'
    BY <2>1, <2>2, <2>3 DEF Inv, AnnouncedInv
  <2> QED
    BY <2>1, <2>4, <2>6, <2>7 DEF Inv
<1>5. CASE Stops
  BY <1>5, ReportEndsInv DEF Stops, Stopped, Succeeded
<1>6. CASE Fails /\ announced' = NoAnnouncement
  BY <1>6, FailsInv DEF NoAnnouncement
<1> QED
  BY <1>4, <1>5, <1>6 DEF Begin

LEMMA StoredEffect ==
    ASSUME NEW a \in Artifacts, root \subseteq Artifacts
    PROVE  /\ Stored(a) \subseteq Artifacts /\ a \in Stored(a)
           /\ a # "readiness" => root \subseteq Stored(a)
BY DEF Stored

\* Storage one more artifact.
LEMMA LeftEffect ==
    ASSUME NEW pc \in {"store", "publish"}, NEW left \in Lefts(pc), left # << >>
    PROVE  /\ Head(left) \in Artifacts
           /\ Head(left) = "readiness" => StoredWhenLeft(pc, Tail(left)) = {"readiness"}
           /\ Tail(left) \in Lefts(pc)
           /\ StoredWhenLeft(pc, Tail(left)) \subseteq StoredWhenLeft(pc, left) \union {Head(left)}
           /\ StoredWhenLeft(pc, left) \subseteq Artifacts
<1> USE DEF Storage, Lefts, First, Published, StoredWhenLeft, Artifacts
<1>1. CASE pc = "store" /\ left = First
  <2>1. Head(left) = "readiness" /\ Tail(left) = <<"payload">>
    BY <1>1
  <2> QED
    BY <1>1, <2>1
<1>2. CASE pc = "store" /\ left = <<"payload">>
  <2>1. Head(left) = "payload" /\ Tail(left) = << >>
    BY <1>2
  <2> QED
    BY <1>2, <2>1
<1>3. CASE pc = "publish" /\ left = Published
  <2>1. Head(left) = "report" /\ Tail(left) = <<"html", "telegram", "review">>
    BY <1>3
  <2> QED
    BY <1>3, <2>1
<1>4. CASE pc = "publish" /\ left = <<"html", "telegram", "review">>
  <2>1. Head(left) = "html" /\ Tail(left) = <<"telegram", "review">>
    BY <1>4
  <2> QED
    BY <1>4, <2>1
<1>5. CASE pc = "publish" /\ left = <<"telegram", "review">>
  <2>1. Head(left) = "telegram" /\ Tail(left) = <<"review">>
    BY <1>5
  <2> QED
    BY <1>5, <2>1
<1>6. CASE pc = "publish" /\ left = <<"review">>
  <2>1. Head(left) = "review" /\ Tail(left) = << >>
    BY <1>6
  <2> QED
    BY <1>6, <2>1
<1> QED
  BY <1>1, <1>2, <1>3, <1>4, <1>5, <1>6

LEMMA StoreInv ==
    ASSUME Inv, Store
    PROVE  Inv'
<1> DEFINE r == cmd["report"]
           a == Head(r.left)
           new == [r EXCEPT !.left = Tail(@)]
<1>1. r.pc \in {"store", "publish"} /\ r.left # << >> /\ announced'.kind = "none"
  BY DEF Store, NoAnnouncement
<1>2. /\ root \subseteq Artifacts /\ DOMAIN cmd = Commands
      /\ "report" \in Commands /\ "check" \in Commands
      /\ DOMAIN r = DOMAIN Idle /\ "pc" \in DOMAIN Idle /\ "left" \in DOMAIN Idle
  BY DEF Inv, CommandsInv, Commands, Idle
<1>3. r.left \in Lefts(r.pc) /\ StoredWhenLeft(r.pc, r.left) \subseteq root
  BY <1>1 DEF Inv, StoringInv, Storage
<1>4. CASE root' = Stored(a) /\ Becomes("report", new)
  <2>1. cmd' = [cmd EXCEPT !["report"] = new]
    BY <1>4 DEF Becomes
  <2>2. new.pc = r.pc /\ new.left = Tail(r.left) /\ DOMAIN new = DOMAIN Idle
    BY <1>2
  <2> HIDE DEF new
  <2>3. cmd'["report"] = new /\ cmd'["check"] = cmd["check"]
    BY <1>2, <2>1
  <2>4. CommandsInv'
    BY <1>2, <2>1, <2>2, <2>3 DEF Inv, CommandsInv, Commands
  <2>5. /\ a \in Artifacts /\ Tail(r.left) \in Lefts(r.pc)
        /\ a = "readiness" => StoredWhenLeft(r.pc, Tail(r.left)) = {"readiness"}
        /\ StoredWhenLeft(r.pc, Tail(r.left)) \subseteq StoredWhenLeft(r.pc, r.left) \union {a}
        /\ StoredWhenLeft(r.pc, r.left) \subseteq Artifacts
    BY <1>1, <1>3, LeftEffect
  <2>6. /\ Stored(a) \subseteq Artifacts /\ a \in Stored(a)
        /\ a # "readiness" => root \subseteq Stored(a)
    BY <1>2, <2>5, StoredEffect
  <2>7. StoredWhenLeft(r.pc, Tail(r.left)) \subseteq root'
    BY <1>3, <1>4, <2>5, <2>6
  <2>8. StoringInv'
    BY <2>2, <2>3, <2>5, <2>7 DEF StoringInv
  <2>9. AnnouncedInv'
    BY <1>1 DEF AnnouncedInv, Succeeded
  <2> QED
    BY <1>4, <2>4, <2>6, <2>8, <2>9 DEF Inv
<1>5. CASE StoreFails(r)
  BY <1>1, <1>2, <1>5, FailsInv DEF StoreFails
<1> QED
  BY <1>4, <1>5 DEF Store

LEMMA RenderInv ==
    ASSUME Inv, Render
    PROVE  Inv'
<1> DEFINE r == cmd["report"]
           new == [r EXCEPT !.pc = "publish", !.left = Published]
<1>1. r.pc = "store" /\ r.left = << >>
  BY DEF Render
<1>2. announced.kind = "none"
  BY <1>1 DEF Inv, AnnouncedInv, Storage, First
<1>3. /\ root \subseteq Artifacts /\ DOMAIN cmd = Commands
      /\ "report" \in Commands /\ "check" \in Commands /\ "quality" \in Artifacts
      /\ DOMAIN r = DOMAIN Idle /\ "pc" \in DOMAIN Idle /\ "left" \in DOMAIN Idle
  BY DEF Inv, CommandsInv, Commands, Idle, Artifacts
<1>4. /\ Stored("quality") \subseteq Artifacts /\ "quality" \in Stored("quality")
      /\ root \subseteq Stored("quality")
  BY <1>3, StoredEffect
<1>5. CASE root' = Stored("quality") /\ Becomes("report", new) /\ announced' = announced
  <2>1. cmd' = [cmd EXCEPT !["report"] = new]
    BY <1>5 DEF Becomes
  <2>2. new.pc = "publish" /\ new.left = Published /\ DOMAIN new = DOMAIN Idle
    BY <1>3
  <2> HIDE DEF new
  <2>3. cmd'["report"] = new /\ cmd'["check"] = cmd["check"]
    BY <1>3, <2>1
  <2>4. CommandsInv'
    BY <1>3, <2>1, <2>2, <2>3 DEF Inv, CommandsInv, Commands
  <2>5. {"readiness", "payload"} \subseteq root
    BY <1>1 DEF Inv, StoringInv, Storage, StoredWhenLeft, First
  <2>6. StoredWhenLeft("publish", Published) = {"readiness", "payload", "quality"}
    BY DEF StoredWhenLeft, Published
  <2>7. StoredWhenLeft("publish", Published) \subseteq root'
    BY <1>4, <1>5, <2>5, <2>6
  <2>8. StoringInv'
    BY <2>2, <2>3, <2>7 DEF StoringInv, Lefts
  <2>9. AnnouncedInv'
    BY <1>2, <1>5 DEF AnnouncedInv, Succeeded
  <2> QED
    BY <1>4, <1>5, <2>4, <2>8, <2>9 DEF Inv
<1>6. CASE Stops
  BY <1>6, ReportEndsInv DEF Stops, Stopped, Succeeded
<1>7. CASE Fails /\ announced' = announced
  BY <1>2, <1>7, FailsInv
<1> QED
  BY <1>5, <1>6, <1>7 DEF Render

LEMMA AnnounceInv ==
    ASSUME Inv, Announce
    PROVE  Inv'
<1> DEFINE r == cmd["report"]
<1>1. r.pc = "publish" /\ r.left = << >>
  BY DEF Announce
<1>2. announced.kind = "none"
  BY <1>1 DEF Inv, AnnouncedInv, Storage
<1>3. /\ root \subseteq Artifacts /\ DOMAIN cmd = Commands
      /\ "report" \in Commands /\ "check" \in Commands
  BY DEF Inv, CommandsInv, Commands
<1>4. CASE Ends("report") /\ root' = root
  <2>1. cmd' = [cmd EXCEPT !["report"] = Idle]
    BY <1>4 DEF Ends, Becomes
  <2>2. cmd'["report"] = Idle /\ cmd'["check"] = cmd["check"] /\ Idle.pc \notin Storage
    BY <1>3, <2>1 DEF Idle, Storage
  <2>3. CommandsInv'
    BY <1>3, <2>1, <2>2 DEF Inv, CommandsInv, Commands
  <2>4. StoringInv'
    BY <2>2 DEF StoringInv
  <2>5. StoredWhenLeft("publish", << >>) = Artifacts
    BY DEF StoredWhenLeft, Published
  <2>6. root = Artifacts
    BY <1>1, <1>3, <2>5 DEF Inv, StoringInv, Storage
  <2>7. AnnouncedInv'
    BY <1>4, <2>2, <2>6 DEF AnnouncedInv
  <2> QED
    BY <1>3, <1>4, <2>3, <2>4, <2>7 DEF Inv
<1>5. CASE Fails /\ announced' = announced
  BY <1>2, <1>5, FailsInv
<1> QED
  BY <1>4, <1>5 DEF Announce

\* Starting a command: at its own first step, or with an export or a sync.
LEMMA StartInv ==
    ASSUME Inv,
           StartCheck \/ StartSync \/ \E given, allow \in BOOLEAN : StartReport(given, allow)
    PROVE  Inv'
<1> USE DEF Storage
<1>1. "report" \in Commands /\ "check" \in Commands /\ "pc" \in DOMAIN Idle
  BY DEF Commands, Idle
<1>2. ASSUME NEW c \in Commands, NEW options, DOMAIN options = DOMAIN Idle,
             NEW phase, NEW rows, Writing(c, options, phase, rows), UNCHANGED artifacts
      PROVE  Inv'
  <2> DEFINE new == [options EXCEPT !.pc = "open", !.phase = phase,
                        !.left = Descending(DOMAIN rows), !.out = rows,
                        !.stamp = Len(exported) + 1]
  <2>1. Becomes(c, new)
    BY <1>2 DEF Writing
  <2>2. DOMAIN new = DOMAIN Idle /\ new.pc = "open"
    BY <1>1, <1>2
  <2> QED
    BY <1>2, <2>1, <2>2, GoesOn
<1>3. CASE StartCheck
  <2> DEFINE new == [Idle EXCEPT !.pc = "print", !.phase = "check"]
  <2>1. /\ UNCHANGED artifacts
        /\ (\E rows : Writing("check", Idle, "export", rows)) \/ Becomes("check", new)
    BY <1>3 DEF StartCheck, Exporting, Collecting
  <2>2. DOMAIN new = DOMAIN Idle /\ new.pc = "print"
    BY <1>1
  <2> QED
    BY <1>1, <1>2, <2>1, <2>2, GoesOn
<1>4. ASSUME NEW given, NEW allow, StartReport(given, allow)
      PROVE  Inv'
  <2> DEFINE options == [Idle EXCEPT !.phase = "report", !.given = given, !.allow = allow]
             new == [options EXCEPT !.pc = "readiness"]
  <2>1. /\ UNCHANGED artifacts
        /\ Becomes("report", new) \/ Writing("report", options, "export", ExportRows(history))
    BY <1>4 DEF StartReport, Exporting
  <2>2. /\ DOMAIN options = DOMAIN Idle
        /\ DOMAIN new = DOMAIN Idle /\ new.pc = "readiness"
    BY <1>1
  <2> QED
    BY <1>1, <1>2, <2>1, <2>2, GoesOn
<1>5. CASE StartSync
  BY <1>1, <1>2, <1>5 DEF StartSync
<1> QED
  BY <1>3, <1>4, <1>5

LEMMA StutterInv ==
    ASSUME Inv, UNCHANGED <<cmd, artifacts>>
    PROVE  Inv'
BY DEF Inv, CommandsInv, StoringInv, AnnouncedInv, artifacts

LEMMA NextInv == Inv /\ [Next]_vars => Inv'
<1> SUFFICES ASSUME Inv, [Next]_vars PROVE Inv'
  OBVIOUS
<1>1. CASE \E e \in Etfs, d \in Dates : UpdateHistory(e, d)
  BY <1>1, StutterInv DEF UpdateHistory
<1>2. CASE StartCheck \/ StartSync
  BY <1>2, StartInv
<1>3. CASE \E given, allow \in BOOLEAN : (given \/ allow) /\ StartReport(given, allow)
  BY <1>3, StartInv
<1>4. CASE CheckStep
  BY <1>4, ExportInv, RecordInv, CheckInv DEF CheckStep, Commands
<1>5. CASE ReportStep
  BY <1>5, ExportInv, GateInv, BeginInv, StoreInv, RenderInv, AnnounceInv
  DEF ReportStep, Report, Commands
<1>6. ASSUME NEW c \in Commands, Crash(c) PROVE Inv'
  BY <1>6, EndsInv DEF Crash
<1>7. CASE UNCHANGED vars
  BY <1>7, StutterInv DEF vars
<1> QED
  BY <1>1, <1>2, <1>3, <1>4, <1>5, <1>6, <1>7 DEF Next, Commands

\* What a run announces is all its own: no artifact that it refers to is a leftover of an
\* earlier run under the same root (workflows/signal_report.py stores under fixed names).
THEOREM AnnouncedReportsAreWhole == Spec => []AnnouncedWhole
<1>1. Inv => AnnouncedWhole
  BY DEF Inv, AnnouncedInv, AnnouncedWhole
<1> QED
  BY <1>1, InitInv, NextInv, PTL DEF Spec

-----------------------------------------------------------------------------
(* Sets of dates, sorted and bounded *)

\* The place of a date among those of S, the latest first.
Place(S, d) == Cardinality({x \in S : x > d}) + 1

LEMMA Places ==
    ASSUME NEW S, S \subseteq Nat, IsFiniteSet(S)
    PROVE  /\ Cardinality(S) \in Nat
           /\ \A d \in S : Place(S, d) \in 1..Cardinality(S)
           /\ \A d, e \in S : d > e => Place(S, d) < Place(S, e)
           /\ \A n \in 1..Cardinality(S) : \E d \in S : Place(S, d) = n
<1> DEFINE later(d) == {x \in S : x > d}
<1>1. \A d \in S : IsFiniteSet(later(d)) /\ Cardinality(later(d)) \in Nat
  BY FS_Subset, FS_CardinalityType
<1>2. Cardinality(S) \in Nat
  BY FS_CardinalityType
<1>3. \A d \in S : Cardinality(later(d)) < Cardinality(S)
  <2> TAKE d \in S
  <2>1. d \notin later(d)
    OBVIOUS
  <2> QED
    BY <1>1, <1>2, <2>1, FS_Subset, FS_CardinalityType
<1>4. ASSUME NEW d \in S, NEW e \in S, d > e
      PROVE  Cardinality(later(d)) < Cardinality(later(e))
  <2>1. \A x \in S : x \in Nat /\ (x > d => x > e)
    BY <1>4
  <2>2. d \in later(e) /\ d \notin later(d)
    BY <1>4, <2>1
  <2>3. later(d) \subseteq later(e)
    BY <2>1, Zenon
  <2> QED
    BY <1>1, <2>2, <2>3, FS_Subset
<1>5. \A d \in S : Place(S, d) \in 1..Cardinality(S)
  BY <1>1, <1>2, <1>3 DEF Place
<1>6. \A d, e \in S : d > e => Place(S, d) < Place(S, e)
  BY <1>1, <1>4 DEF Place
<1> DEFINE place == [d \in S |-> Place(S, d)]
<1>7. place \in Injection(S, 1..Cardinality(S))
  <2>1. \A d, e \in S : place[d] = place[e] => d = e
    BY <1>5, <1>6
  <2> QED
    BY <1>5, <2>1 DEF Injection, IsInjective
<1>8. IsFiniteSet(1..Cardinality(S)) /\ Cardinality(1..Cardinality(S)) = Cardinality(S)
  BY <1>2, FS_Interval
<1>9. place \in Surjection(S, 1..Cardinality(S))
  BY <1>7, <1>8, FS_Injection
<1>10. \A n \in 1..Cardinality(S) : \E d \in S : place[d] = n
  BY <1>9 DEF Surjection
<1> QED
  BY <1>2, <1>5, <1>6, <1>10

\* Descending(S) is all of S, once each.
LEMMA DescendingIsAll ==
    ASSUME NEW S, S \subseteq Nat, IsFiniteSet(S)
    PROVE  /\ Cardinality(S) \in Nat
           /\ Descending(S) \in [1..Cardinality(S) -> S]
           /\ ToSet(Descending(S)) = S
<1> DEFINE n == Cardinality(S)
           Sorted(s) == \A i, j \in DOMAIN s : i < j => s[i] > s[j]
           at == [i \in 1..n |-> CHOOSE d \in S : Place(S, d) = i]
<1>1. n \in Nat
  BY Places
<1>2. \A i \in 1..n : at[i] \in S /\ Place(S, at[i]) = i
  BY Places
<1>3. at \in [1..n -> S] /\ Sorted(at)
  <2>1. at \in [1..n -> S]
    BY <1>2
  <2>2. ASSUME NEW i \in 1..n, NEW j \in 1..n, i < j, ~(at[i] > at[j])
        PROVE  FALSE
    <3>1. at[i] \in Nat /\ at[j] \in Nat
      BY <1>2
    <3>2. at[i] = at[j] \/ at[j] > at[i]
      BY <2>2, <3>1
    <3>3. Place(S, at[i]) \in 1..n /\ Place(S, at[j]) \in 1..n
      BY <1>2
    <3>4. at[j] > at[i] => Place(S, at[j]) < Place(S, at[i])
      BY <1>2, Places
    <3> QED
      BY <1>1, <1>2, <2>2, <3>2, <3>3, <3>4
  <2> HIDE DEF at
  <2> QED
    BY <2>1, <2>2
<1>4. Descending(S) \in [1..n -> S] /\ Sorted(Descending(S))
  <2> HIDE DEF at, n
  <2> QED
    BY <1>3 DEF Descending, n
<1> DEFINE s == Descending(S)
<1>5. s \in Injection(1..n, S)
  <2>1. \A i, j \in 1..n : s[i] \in Nat /\ s[j] \in Nat /\ (i < j => s[i] > s[j])
    BY <1>4
  <2> HIDE DEF s
  <2>2. \A i, j \in 1..n : s[i] = s[j] => i = j
    BY <1>1, <2>1
  <2> QED
    BY <1>4, <2>2 DEF Injection, IsInjective, s
<1>6. IsFiniteSet(1..n) /\ Cardinality(1..n) = n
  BY <1>1, FS_Interval
<1>7. s \in Surjection(1..n, S)
  BY <1>5, <1>6, FS_Injection
<1>8. ToSet(s) = S
  BY <1>4, <1>7 DEF Surjection, ToSet
<1> QED
  BY <1>1, <1>4, <1>8

LEMMA MaxAndMin ==
    ASSUME NEW S, S \subseteq Nat, IsFiniteSet(S), S # {}
    PROVE  /\ Max(S) \in S /\ \A x \in S : Max(S) >= x
           /\ Min(S) \in S /\ \A x \in S : Min(S) =< x
<1> DEFINE n == Cardinality(S)
<1>1. n \in Nat /\ n # 0
  BY FS_EmptySet, FS_CardinalityType
<1>2. \A d, e \in S : /\ Place(S, d) \in 1..n /\ Place(S, e) \in 1..n
                      /\ d > e => Place(S, d) < Place(S, e)
  BY Places
<1>p. \A m \in 1..n : \E d \in S : Place(S, d) = m
  BY Places
<1>q. 1 \in 1..n /\ n \in 1..n
  BY <1>1
<1>3. PICK d \in S : Place(S, d) = 1
  BY <1>p, <1>q
<1>4. PICK e \in S : Place(S, e) = n
  BY <1>p, <1>q
<1>5. (\A x \in S : d >= x) /\ (\A x \in S : e =< x)
  BY <1>1, <1>2, <1>3, <1>4
<1> QED
  BY <1>5 DEF Max, Min

LEMMA DatesFinite ==
    /\ Dates \subseteq Nat /\ Dates \subseteq 1..MaxDate
    /\ \A S \in SUBSET Dates : S \subseteq Nat /\ IsFiniteSet(S)
<1>1. IsFiniteSet(Dates)
  BY FS_Interval, BoundsAssumption DEF Dates
<1>2. \A S \in SUBSET Dates : IsFiniteSet(S)
  BY <1>1, FS_Subset
<1>3. Dates \subseteq Nat
  BY BoundsAssumption DEF Dates
<1> QED
  BY <1>2, <1>3 DEF Dates

\* The two latest of some dates are two of them.
LEMMA WindowIsApart ==
    ASSUME NEW S, S \subseteq Dates, Cardinality(S) >= 2
    PROVE  /\ TwoLatest(S) \subseteq S
           /\ Max(TwoLatest(S)) \in S /\ Min(TwoLatest(S)) \in S
           /\ Min(TwoLatest(S)) < Max(TwoLatest(S))
<1> DEFINE a == Max(S)
           b == Max(S \ {a})
           w == {a, b}
<1>1. S \subseteq Nat /\ IsFiniteSet(S) /\ S # {}
  BY DatesFinite, FS_EmptySet
<1>2. a \in S
  BY <1>1, MaxAndMin
<1>3. IsFiniteSet(S \ {a}) /\ S \ {a} # {}
  BY <1>1, <1>2, FS_RemoveElement, FS_EmptySet, FS_CardinalityType
<1>4. b \in S /\ b # a
  <2>1. S \ {a} \subseteq Nat
    BY <1>1
  <2> HIDE DEF a
  <2>2. b \in S \ {a}
    BY <1>3, <2>1, MaxAndMin
  <2> QED
    BY <2>2
<1>5. w \subseteq Nat /\ w \subseteq S /\ IsFiniteSet(w) /\ w # {}
  <2>1. w \subseteq Nat /\ w \subseteq S /\ w # {}
    BY <1>1, <1>2, <1>4
  <2> HIDE DEF w
  <2> QED
    BY <1>1, <2>1, FS_Subset
<1>6. /\ Max(w) \in w /\ \A x \in w : Max(w) >= x
      /\ Min(w) \in w /\ \A x \in w : Min(w) =< x
  <2> HIDE DEF w
  <2> QED
    BY <1>5, MaxAndMin
<1>7. Min(w) < Max(w)
  <2> HIDE DEF a, b
  <2>1. a \in Nat /\ b \in Nat
    BY <1>5
  <2> QED
    BY <1>4, <1>6, <2>1
<1> QED
  BY <1>5, <1>6, <1>7 DEF TwoLatest

\* What a verdict says of eligible windows is two dates, one before the other.
LEMMA VerdictDates ==
    ASSUME NEW parts, DOMAIN parts \subseteq Dates, Eligible(parts) # {}
    PROVE  /\ Current(parts) \in Dates
           /\ Previous(parts) \in 1..(Current(parts) - 1)
<1> DEFINE W == Windows(parts)
           M == {Max(w) : w \in W}
           P == {Min(w) : w \in W}
<1>1. \A w \in W : Max(w) \in Dates /\ Min(w) \in Dates /\ Min(w) < Max(w)
  <2> SUFFICES ASSUME NEW e \in Eligible(parts)
               PROVE  LET w == TwoLatest(DatesOf(parts, e))
                      IN  Max(w) \in Dates /\ Min(w) \in Dates /\ Min(w) < Max(w)
    BY DEF Windows
  <2>1. DatesOf(parts, e) \subseteq Dates /\ Cardinality(DatesOf(parts, e)) >= 2
    BY DEF DatesOf, Eligible
  <2> QED
    BY <2>1, WindowIsApart
<1>2. W # {}
  BY DEF Windows
<1>3. /\ M \subseteq Dates /\ M # {} /\ M \subseteq Nat /\ IsFiniteSet(M)
      /\ P \subseteq Dates /\ P # {} /\ P \subseteq Nat /\ IsFiniteSet(P)
  <2>1. M \subseteq Dates /\ M # {} /\ P \subseteq Dates /\ P # {}
    BY <1>1, <1>2
  <2> HIDE DEF M, P
  <2> QED
    BY <2>1, DatesFinite
<1>4. /\ Max(M) \in M /\ \A x \in M : Max(M) >= x
      /\ Max(P) \in P
  <2> HIDE DEF M, P
  <2> QED
    BY <1>3, MaxAndMin
<1>5. PICK w \in W : Max(P) = Min(w)
  BY <1>4
<1>6. Max(M) \in Dates /\ Max(P) \in Dates /\ Max(P) < Max(M)
  <2>1. Max(w) \in M /\ Min(w) < Max(w)
    BY <1>1
  <2>2. Max(M) \in Nat /\ Max(P) \in Nat /\ Max(w) \in Nat /\ Max(M) >= Max(w)
    BY <1>1, <1>3, <1>4, <2>1, DatesFinite
  <2> HIDE DEF M, P
  <2> QED
    BY <1>3, <1>4, <1>5, <2>1, <2>2
<1>7. Current(parts) = Max(M) /\ Previous(parts) = Max(P)
  BY DEF Current, Previous
<1> HIDE DEF M, P
<1> QED
  BY <1>6, <1>7 DEF Dates

-----------------------------------------------------------------------------
(* A verdict that is ready is on the rows of one export *)

\* What an export or a sync may write: for some dates, some snapshots of each.
RowSets == UNION {[D -> (SUBSET (Etfs \X Revisions)) \ {{}}] : D \in SUBSET Dates}

\* The content of a partition of some export.
Exported(rows, d) == \E i \in DOMAIN exported : d \in DOMAIN exported[i] /\ rows = exported[i][d]

\* The manifest of some export or sync.
IsManifest(m) == \E kind \in Writes, i \in DOMAIN exported : m = ManifestOf(kind, i, exported[i])

\* A fingerprint that covers the rows of one export, if it is of an export.
Sound(fp) ==
    /\ IsManifest(fp.manifest)
    /\ fp.manifest.kind = "export" => fp.parts = exported[fp.manifest.stamp]

FilesInv ==
    /\ exported \in Seq(RowSets)
    /\ DOMAIN partitions = Dates
    /\ \A d \in Dates :
          \/ partitions[d] \in {Missing, Opened}
          \/ partitions[d] = File(partitions[d].data) /\ Exported(partitions[d].data, d)
    /\ \/ manifest \in {Missing, Torn}
       \/ manifest = File(manifest.data) /\ IsManifest(manifest.data)
    /\ \/ summary \in {Missing, Torn}
       \/ /\ summary = File(summary.data) /\ Sound(summary.data.fp)
          /\ summary.data.manifest = summary.data.fp.manifest
          /\ summary.data.manifest.kind = "export"
    /\ metadata \in {Missing, Torn} \/ metadata = File(metadata.data)

\* Which steps each kind of command is made of.
Phased(c) ==
    LET r == cmd[c] IN
    /\ r.phase \in Writes \union {"check", "report", "none"}
    /\ r.pc \in {"open", "fill", "manifest", "summary", "record", "fill_record"} =>
         r.phase \in Writes
    /\ r.pc \in {"compare", "scan"} => r.phase = "check"
    /\ r.phase = "check" => c = "check" /\ r.pc \in {"print", "digest", "compare", "scan"}
    /\ r.phase = "sync" => r.pc \in {"open", "fill", "manifest", "record", "fill_record"}
    /\ r.phase = "export" => r.pc \in {"open", "fill", "manifest", "print", "digest", "summary"}

\* What a command that exports has written, and read again, is what it exports.
Writer(c) ==
    LET r == cmd[c]
        done(d) == partitions[d] = File(r.out[d])
    IN
    r.phase \in Writes =>
        /\ r.stamp \in DOMAIN exported /\ r.out = exported[r.stamp] /\ r.stamp = Len(exported)
        /\ r.pc \in {"open", "fill", "digest", "summary"} => r.left \in Seq(DOMAIN r.out)
        /\ r.pc \in {"open", "fill"} => \A d \in DOMAIN r.out : d \in ToSet(r.left) \/ done(d)
        /\ r.pc = "fill" => r.left # << >>
        /\ r.pc \in {"manifest", "print", "digest", "summary"} => \A d \in DOMAIN r.out : done(d)
        /\ r.pc \in {"print", "digest", "summary"} =>
             manifest = File(ManifestOf("export", r.stamp, r.out))
        /\ r.pc \in {"digest", "summary"} =>
             /\ r.man = ManifestOf("export", r.stamp, r.out)
             /\ DOMAIN r.parts \union ToSet(r.left) = DOMAIN r.out
             /\ r.parts = [d \in DOMAIN r.parts |-> r.out[d]]
        /\ r.pc = "summary" => r.parts = r.out

\* What the check has read is of exports; where a sync's record is looked at, no export
\* can have changed the manifest meanwhile.
Checker ==
    LET r == cmd["check"] IN
    r.phase = "check" =>
        /\ r.pc = "digest" =>
             /\ IsManifest(r.man)
             /\ metadata.is # "missing" => manifest = File(r.man)
        /\ r.pc = "compare" =>
             /\ IsManifest(r.man) /\ IsManifest(r.fp.manifest) /\ r.parts = << >>
             /\ metadata.is # "missing" => r.fp.manifest = r.man
        /\ r.pc = "scan" =>
             /\ r.left # << >> => IsManifest(r.man) /\ r.left \in Seq(DOMAIN r.man.counts)
             /\ \A d \in DOMAIN r.parts : d \in Dates /\ Exported(r.parts[d], d)
             /\ r.severity \in {"none", "hold", "failed"}
             /\ r.severity = "none" => Sound(r.fp)

ReadyInv ==
    readiness.status = "ready" =>
        /\ Sound(readiness.fp)
        /\ \A d \in DOMAIN readiness.checked : d \in Dates /\ Exported(readiness.checked[d], d)
        /\ Eligible(readiness.checked) # {}
        /\ readiness.current = Current(readiness.checked)
        /\ readiness.previous = Previous(readiness.checked)

\* One command exports at a time, and no report once there is a sync's record.
Turns ==
    /\ \E c \in Commands : cmd[c].phase \notin Writes
    /\ metadata.is # "missing" => cmd["report"].phase \notin Writes

ExportsInv ==
    /\ FilesInv
    /\ Turns
    /\ \A c \in Commands : Phased(c) /\ Writer(c)
    /\ Checker
    /\ ReadyInv

Fields == {"pc", "phase", "left", "out", "man", "parts", "fp", "severity", "stamp", "given",
           "allow", "verdict", "rows"}

\* The command that takes a step becomes what the step says, the other one stays.
LEMMA Becoming ==
    ASSUME Inv, NEW c \in Commands, NEW r, Becomes(c, r)
    PROVE  cmd'[c] = r /\ \A x \in Commands : x # c => cmd'[x] = cmd[x]
BY DEF Becomes, Inv, CommandsInv

LEMMA FieldsOfCommands ==
    ASSUME Inv
    PROVE  DOMAIN Idle = Fields /\ \A c \in Commands : DOMAIN cmd[c] = Fields
BY DEF Inv, CommandsInv, Idle, Fields

\* A command that reads goes on, or ends.
LEMMA Reading ==
    ASSUME ExportsInv, UNCHANGED <<files, exported, readiness>>,
           NEW c \in Commands, \A x \in Commands : x # c => cmd'[x] = cmd[x],
           cmd'[c].phase \in Writes => cmd[c].phase \in Writes,
           Phased(c)', Writer(c)', c = "check" => Checker'
    PROVE  ExportsInv'
<1> USE DEF ExportsInv
<1>1. FilesInv' /\ ReadyInv'
  BY DEF FilesInv, ReadyInv, Exported, IsManifest, Sound, files
<1>2. \A x \in Commands : Phased(x)' /\ Writer(x)'
  BY DEF Phased, Writer, files
<1>3. Checker'
  <2>1. CASE c # "check"
    BY <2>1 DEF Checker, Commands, IsManifest, Exported, Sound, files
  <2> QED
    BY <2>1
<1>4. Turns'
  BY DEF Turns, Commands, files
<1> QED
  BY <1>1, <1>2, <1>3, <1>4

\* What neither exports nor checks is of no account.
LEMMA Aside ==
    ASSUME ExportsInv, UNCHANGED <<files, exported, readiness>>,
           NEW c \in Commands, \A x \in Commands : x # c => cmd'[x] = cmd[x],
           cmd'[c].phase \in {"report", "none"},
           cmd'[c].pc \notin {"open", "fill", "manifest", "summary", "record", "fill_record",
                              "compare", "scan"}
    PROVE  ExportsInv'
<1>1. Phased(c)' /\ Writer(c)' /\ (c = "check" => Checker')
  BY DEF Phased, Writer, Checker, Writes
<1> QED
  BY <1>1, Reading DEF Writes

LEMMA Ending ==
    ASSUME Inv, ExportsInv, UNCHANGED <<files, exported, readiness>>,
           NEW c \in Commands, Ends(c)
    PROVE  ExportsInv'
<1>1. cmd'[c] = Idle /\ \A x \in Commands : x # c => cmd'[x] = cmd[x]
  BY Becoming DEF Ends
<1> QED
  BY <1>1, Aside DEF Idle

\* A command that exports writes a file.
LEMMA WritingStep ==
    ASSUME ExportsInv, UNCHANGED <<exported, readiness>>,
           NEW c \in Commands, \A x \in Commands : x # c => cmd'[x] = cmd[x],
           cmd[c].phase \in Writes, c = "check" \/ metadata' = metadata,
           FilesInv', Phased(c)', Writer(c)', c = "check" => Checker'
    PROVE  ExportsInv'
<1> USE DEF ExportsInv
<1>1. \A x \in Commands : x # c => cmd'[x].phase \notin Writes
  BY DEF Turns, Commands
<1>2. \A x \in Commands : Phased(x)' /\ Writer(x)'
  BY <1>1 DEF Phased, Writer
<1>3. Checker'
  <2>1. CASE c # "check"
    <3>1. metadata.is = "missing" /\ metadata' = metadata /\ cmd'["check"] = cmd["check"]
      BY <2>1 DEF Turns, Commands
    <3> QED
      BY <3>1 DEF Checker, IsManifest, Exported, Sound
  <2> QED
    BY <2>1
<1>4. Turns'
  BY <1>1 DEF Turns, Commands
<1>5. ReadyInv'
  BY DEF ReadyInv, Exported, IsManifest, Sound
<1> QED
  BY <1>2, <1>3, <1>4, <1>5

\* Facts about the rows that are exported
LEMMA RowsFit ==
    ASSUME NEW rows \in RowSets
    PROVE  /\ DOMAIN rows \subseteq Dates /\ rows = [d \in DOMAIN rows |-> rows[d]]
           /\ \A d \in DOMAIN rows : Cardinality(rows[d]) # 0
<1>1. PICK D \in SUBSET Dates : rows \in [D -> (SUBSET (Etfs \X Revisions)) \ {{}}]
  BY DEF RowSets
<1>2. IsFiniteSet(Etfs \X Revisions)
  <2>1. IsFiniteSet(Revisions)
    <3>1. 0 \in Int /\ 1 \in Int
      OBVIOUS
    <3>2. IsFiniteSet(0..1)
      BY <3>1, FS_Interval, Zenon
    <3> QED
      BY <3>2 DEF Revisions
  <2>2. IsFiniteSet(Etfs)
    BY BoundsAssumption
  <2> QED
    BY <2>1, <2>2, FS_Product
<1>3. \A R \in (SUBSET (Etfs \X Revisions)) \ {{}} : Cardinality(R) # 0
  <2> TAKE R \in (SUBSET (Etfs \X Revisions)) \ {{}}
  <2>1. IsFiniteSet(R)
    BY <1>2, FS_Subset
  <2> QED
    BY <2>1, FS_EmptySet
<1> QED
  BY <1>1, <1>3

LEMMA DescendingSeq ==
    ASSUME NEW S, S \subseteq Dates
    PROVE  Descending(S) \in Seq(S) /\ ToSet(Descending(S)) = S
<1>1. S \subseteq Nat /\ IsFiniteSet(S)
  BY DatesFinite
<1>2. /\ Cardinality(S) \in Nat /\ Descending(S) \in [1..Cardinality(S) -> S]
      /\ ToSet(Descending(S)) = S
  BY <1>1, DescendingIsAll
<1> QED
  BY <1>2, SeqDef

LEMMA HeadAndTail ==
    ASSUME NEW S, NEW s \in Seq(S), s # << >>
    PROVE  /\ Head(s) \in S /\ Tail(s) \in Seq(S)
           /\ ToSet(s) = {Head(s)} \union ToSet(Tail(s))
<1>1. /\ Head(s) \in S /\ Tail(s) \in Seq(S) /\ Head(s) = s[1]
      /\ Len(s) \in Nat /\ Len(s) # 0 /\ Len(Tail(s)) = Len(s) - 1
      /\ \A i \in 1..Len(Tail(s)) : Tail(s)[i] = s[i + 1]
      /\ DOMAIN s = 1..Len(s) /\ DOMAIN Tail(s) = 1..Len(Tail(s))
  OBVIOUS
<1>2. ASSUME NEW x, x \in ToSet(s) PROVE x \in {Head(s)} \union ToSet(Tail(s))
  <2>1. PICK i \in 1..Len(s) : x = s[i]
    BY <1>1, <1>2 DEF ToSet
  <2>2. CASE i = 1
    BY <1>1, <2>1, <2>2
  <2>3. CASE i # 1
    <3>1. i - 1 \in 1..Len(Tail(s)) /\ Tail(s)[i - 1] = s[i]
      BY <1>1, <2>1, <2>3
    <3> QED
      BY <1>1, <2>1, <3>1 DEF ToSet
  <2> QED
    BY <2>2, <2>3
<1>3. ASSUME NEW x, x \in {Head(s)} \union ToSet(Tail(s)) PROVE x \in ToSet(s)
  <2>1. CASE x = Head(s)
    BY <1>1, <2>1 DEF ToSet
  <2>2. CASE x \in ToSet(Tail(s))
    <3>1. PICK i \in 1..Len(Tail(s)) : x = Tail(s)[i]
      BY <1>1, <2>2 DEF ToSet
    <3>2. i + 1 \in 1..Len(s) /\ x = s[i + 1]
      BY <1>1, <3>1
    <3> QED
      BY <1>1, <3>2 DEF ToSet
  <2> QED
    BY <1>3, <2>1, <2>2
<1> QED
  BY <1>1, <1>2, <1>3

LEMMA NothingLeft == ToSet(<< >>) = {} /\ DOMAIN << >> = {}
<1>1. DOMAIN << >> = {}
  BY EmptySeq
<1> QED
  BY <1>1 DEF ToSet

\* A manifest names the dates of its export, and counts their rows.
LEMMA ManifestFacts ==
    ASSUME FilesInv, NEW m, IsManifest(m)
    PROVE  /\ m.kind \in Writes /\ m.stamp \in DOMAIN exported
           /\ m.dates \in Seq(DOMAIN exported[m.stamp])
           /\ ToSet(m.dates) = DOMAIN exported[m.stamp]
           /\ m.counts = [d \in DOMAIN exported[m.stamp] |-> Cardinality(exported[m.stamp][d])]
           /\ DOMAIN exported[m.stamp] \subseteq Dates
           /\ \A d \in DOMAIN exported[m.stamp] : m.counts[d] # 0
<1>1. PICK kind \in Writes, i \in DOMAIN exported : m = ManifestOf(kind, i, exported[i])
  BY DEF IsManifest
<1>2. /\ m.kind = kind /\ m.stamp = i /\ m.dates = Descending(DOMAIN exported[i])
      /\ m.counts = [d \in DOMAIN exported[i] |-> Cardinality(exported[i][d])]
  BY <1>1 DEF ManifestOf
<1>3. exported[i] \in RowSets
  BY DEF FilesInv
<1> QED
  BY <1>2, <1>3, RowsFit, DescendingSeq

\* A partition that a reader accepts is whole.
LEMMA ReadableIsExported ==
    ASSUME FilesInv, NEW m, IsManifest(m), NEW d \in DOMAIN m.counts, Readable(m, d)
    PROVE  d \in Dates /\ Exported(partitions[d].data, d)
<1>1. d \in Dates /\ m.counts[d] # 0
  BY ManifestFacts
<1>2. partitions[d].is = "file" /\ Cardinality(partitions[d].data) # 0
  BY <1>1 DEF Readable
<1>3. partitions[d] # Missing /\ partitions[d] # Opened
  BY <1>2, FS_EmptySet DEF Missing, Opened, File
<1> QED
  BY <1>1, <1>3 DEF FilesInv

LEMMA ScannedDates ==
    ASSUME FilesInv, NEW m, IsManifest(m)
    PROVE  ScanDates(m) \in Seq(DOMAIN m.counts)
<1> DEFINE n == Len(m.dates)
           k == Min({Observed, n})
<1>1. m.dates \in Seq(DOMAIN m.counts) /\ n \in Nat /\ Observed \in Nat
  BY ManifestFacts, LenProperties, BoundsAssumption
<1>2. k \in {Observed, n} /\ k =< n
  <2>1. {Observed, n} \subseteq Nat /\ IsFiniteSet({Observed, n}) /\ {Observed, n} # {}
    <3>1. {Observed, n} \subseteq 0..(Observed + n)
      BY <1>1
    <3>2. IsFiniteSet(0..(Observed + n))
      BY <1>1, FS_Interval
    <3>3. IsFiniteSet({Observed, n})
      BY <3>1, <3>2, FS_Subset
    <3> QED
      BY <1>1, <3>3
  <2>2. k \in {Observed, n} /\ \A x \in {Observed, n} : k =< x
    <3> DEFINE S == {Observed, n}
    <3> HIDE DEF S
    <3> QED
      BY <2>1, MaxAndMin DEF S
  <2> QED
    BY <2>2
<1> HIDE DEF k
<1>3. SubSeq(m.dates, 1, k) \in Seq(DOMAIN m.counts)
  <2>1. \A i \in 1..k : m.dates[i] \in DOMAIN m.counts
    BY <1>1, <1>2
  <2> QED
    <3>1. 1 \in Int /\ k \in Int
      BY <1>1, <1>2
    <3> QED
      BY <2>1, <3>1, SubSeqProperties, Zenon
<1> QED
  BY <1>3 DEF ScanDates, k

\* What is on record of the history can be exported.
HistoryInv == DOMAIN history \subseteq Etfs \X Dates /\ history \in [DOMAIN history -> Revisions]

LEMMA RowsOfHistory ==
    ASSUME HistoryInv, NEW D \in SUBSET Dates,
           \A d \in D : \E e \in Etfs : <<e, d>> \in DOMAIN history
    PROVE  RowsOf(history, D) \in RowSets
<1> DEFINE row(d) == {<<e, history[<<e, d>>]>> : e \in {x \in Etfs : <<x, d>> \in DOMAIN history}}
<1>1. \A d \in D : row(d) \subseteq Etfs \X Revisions /\ row(d) # {}
  <2> SUFFICES ASSUME NEW d \in D
               PROVE  row(d) \subseteq Etfs \X Revisions /\ row(d) # {}
    OBVIOUS
  <2>1. \A e \in Etfs : <<e, d>> \in DOMAIN history => history[<<e, d>>] \in Revisions
    BY DEF HistoryInv
  <2>2. row(d) \subseteq Etfs \X Revisions
    <3>1. \A e \in Etfs : <<e, d>> \in DOMAIN history
              => <<e, history[<<e, d>>]>> \in Etfs \X Revisions
      BY <2>1
    <3> QED
      BY <3>1, Zenon
  <2>3. row(d) # {}
    OBVIOUS
  <2> QED
    BY <2>2, <2>3
<1>2. RowsOf(history, D) = [d \in D |-> row(d)]
  BY DEF RowsOf
<1> HIDE DEF row
<1> QED
  <2>1. RowsOf(history, D) \in [D -> (SUBSET (Etfs \X Revisions)) \ {{}}]
    BY <1>1, <1>2
  <2> QED
    BY <2>1 DEF RowSets

LEMMA ExportedDates ==
    ASSUME HistoryInv
    PROVE  /\ ExportDates(history) \subseteq Dates
           /\ \A d \in ExportDates(history) : \E e \in Etfs : <<e, d>> \in DOMAIN history
<1> DEFINE of(e) == {d \in Dates : <<e, d>> \in DOMAIN history}
<1>1. ASSUME NEW d \in ExportDates(history)
      PROVE  \E e \in Etfs : d \in of(e)
  <2>1. PICK e \in Etfs : Cardinality(of(e)) >= 2 /\ d \in TwoLatest(of(e))
    BY DEF ExportDates
  <2>2. of(e) \subseteq Dates
    OBVIOUS
  <2>3. TwoLatest(of(e)) \subseteq of(e)
    <3> HIDE DEF of
    <3> QED
      BY <2>1, <2>2, WindowIsApart
  <2> QED
    BY <2>1, <2>3
<1> QED
  BY <1>1

LEMMA CollectedDates ==
    ASSUME HistoryInv
    PROVE  /\ LatestDates(history) \subseteq Dates
           /\ \A d \in LatestDates(history) : \E e \in Etfs : <<e, d>> \in DOMAIN history
BY DEF LatestDates, HistoryInv

LEMMA ExportedRowsFit ==
    ASSUME HistoryInv
    PROVE  /\ ExportRows(history) \in RowSets
           /\ RowsOf(history, LatestDates(history)) \in RowSets
BY RowsOfHistory, ExportedDates, CollectedDates DEF ExportRows

-----------------------------------------------------------------------------
(* The steps of an export or a sync *)

\* More exports change nothing of the earlier ones.
LEMMA ExportsGrow ==
    ASSUME FilesInv, NEW rows \in RowSets, exported' = Append(exported, rows)
    PROVE  /\ exported' \in Seq(RowSets)
           /\ DOMAIN exported \subseteq DOMAIN exported'
           /\ Len(exported) + 1 \in DOMAIN exported' /\ exported'[Len(exported) + 1] = rows
           /\ Len(exported') = Len(exported) + 1
           /\ \A i \in DOMAIN exported : exported'[i] = exported[i]
           /\ \A r, d : Exported(r, d) => Exported(r, d)'
           /\ \A m : IsManifest(m) => IsManifest(m)'
           /\ \A fp : Sound(fp) => Sound(fp)'
<1>1. exported \in Seq(RowSets)
  BY DEF FilesInv
<1>2. /\ exported' \in Seq(RowSets)
      /\ DOMAIN exported \subseteq DOMAIN exported'
      /\ Len(exported) + 1 \in DOMAIN exported' /\ exported'[Len(exported) + 1] = rows
      /\ Len(exported') = Len(exported) + 1
      /\ \A i \in DOMAIN exported : exported'[i] = exported[i]
  BY <1>1, AppendProperties
<1>3. \A r, d : Exported(r, d) => Exported(r, d)'
  BY <1>2 DEF Exported
<1>4. \A m : IsManifest(m) => IsManifest(m)'
  BY <1>2 DEF IsManifest
<1>5. \A m : IsManifest(m) => m.stamp \in DOMAIN exported
  BY ManifestFacts
<1>6. \A fp : Sound(fp) => Sound(fp)'
  BY <1>2, <1>4, <1>5 DEF Sound
<1> QED
  BY <1>2, <1>3, <1>4, <1>6

\* An export starts: nobody else is exporting, and its rows come last.
LEMMA ExportStarts ==
    ASSUME Inv, ExportsInv, NEW c \in Commands, NEW options, DOMAIN options = Fields,
           NEW phase \in Writes, NEW rows \in RowSets, Writing(c, options, phase, rows),
           UNCHANGED <<files, readiness>>, c = "report" => metadata.is = "missing"
    PROVE  ExportsInv'
<1> USE DEF ExportsInv
<1>1. /\ cmd'[c].pc = "open" /\ cmd'[c].phase = phase /\ cmd'[c].out = rows
      /\ cmd'[c].left = Descending(DOMAIN rows) /\ cmd'[c].stamp = Len(exported) + 1
      /\ \A x \in Commands : x # c => cmd'[x] = cmd[x]
  <2> DEFINE new == [options EXCEPT !.pc = "open", !.phase = phase,
                        !.left = Descending(DOMAIN rows), !.out = rows,
                        !.stamp = Len(exported) + 1]
  <2>1. Becomes(c, new)
    BY DEF Writing
  <2>2. cmd'[c] = new /\ \A x \in Commands : x # c => cmd'[x] = cmd[x]
    BY <2>1, Becoming
  <2> QED
    BY <2>2 DEF Fields
<1>2. exported' = Append(exported, rows) /\ \A x \in Commands : cmd[x].phase \notin Writes
  BY DEF Writing
<1>3. /\ exported' \in Seq(RowSets)
      /\ Len(exported) + 1 \in DOMAIN exported' /\ exported'[Len(exported) + 1] = rows
      /\ Len(exported') = Len(exported) + 1
      /\ \A r, d : Exported(r, d) => Exported(r, d)'
      /\ \A m : IsManifest(m) => IsManifest(m)'
      /\ \A fp : Sound(fp) => Sound(fp)'
  BY <1>2, ExportsGrow
<1>4. FilesInv'
  BY <1>3 DEF FilesInv, files
<1>5. ReadyInv'
  BY <1>3 DEF ReadyInv
<1>6. Phased(c)' /\ Writer(c)'
  <2>1. Descending(DOMAIN rows) \in Seq(DOMAIN rows)
        /\ ToSet(Descending(DOMAIN rows)) = DOMAIN rows
    BY RowsFit, DescendingSeq
  <2> QED
    BY <1>1, <1>3, <2>1 DEF Phased, Writer, Writes
<1>7. \A x \in Commands : x # c => Phased(x)' /\ Writer(x)'
  BY <1>1, <1>2 DEF Phased, Writer
<1>8. Checker'
  <2>1. CASE c = "check"
    BY <1>1, <2>1 DEF Checker, Writes
  <2>2. CASE c # "check"
    <3>1. cmd'["check"] = cmd["check"]
      BY <1>1, <2>2 DEF Commands
    <3> QED
      BY <1>3, <3>1 DEF Checker, files
  <2> QED
    BY <2>1, <2>2
<1>9. Turns'
  BY <1>1, <1>2 DEF Turns, Commands, files
<1> QED
  BY <1>4, <1>5, <1>6, <1>7, <1>8, <1>9

\* What is known of a command that exports at one of its steps.
LEMMA WriterAt ==
    ASSUME Inv, ExportsInv, NEW c \in Commands, cmd[c].phase \in Writes
    PROVE  LET r == cmd[c] IN
           /\ DOMAIN r = Fields /\ Phased(c) /\ Writer(c)
           /\ r.stamp \in DOMAIN exported /\ r.out = exported[r.stamp]
           /\ r.out \in RowSets /\ DOMAIN r.out \subseteq Dates
           /\ \A d \in DOMAIN r.out : Exported(r.out[d], d)
           /\ \A kind \in Writes : IsManifest(ManifestOf(kind, r.stamp, r.out))
<1> DEFINE r == cmd[c]
<1>1. DOMAIN r = Fields /\ Phased(c) /\ Writer(c) /\ exported \in Seq(RowSets)
  BY FieldsOfCommands DEF ExportsInv, FilesInv
<1>2. r.stamp \in DOMAIN exported /\ r.out = exported[r.stamp]
  BY <1>1 DEF Writer
<1>3. r.out \in RowSets
  BY <1>1, <1>2
<1> QED
  BY <1>1, <1>2, <1>3, RowsFit DEF Exported, IsManifest

LEMMA WritePartition ==
    ASSUME Inv, ExportsInv, NEW c \in Commands, OpenPartition(c) \/ FillPartition(c)
    PROVE  ExportsInv'
<1> DEFINE r == cmd[c]
           d == Head(r.left)
<1>1. r.pc \in {"open", "fill"} /\ r.phase \in Writes
  BY DEF OpenPartition, FillPartition, ExportsInv, Phased
<1>2. /\ DOMAIN r = Fields /\ Phased(c) /\ Writer(c)
      /\ r.stamp \in DOMAIN exported /\ r.out = exported[r.stamp]
      /\ DOMAIN r.out \subseteq Dates /\ \A x \in DOMAIN r.out : Exported(r.out[x], x)
  BY <1>1, WriterAt
<1>3. r.left \in Seq(DOMAIN r.out) /\ r.left # << >>
      /\ \A x \in DOMAIN r.out : x \in ToSet(r.left) \/ partitions[x] = File(r.out[x])
  BY <1>1, <1>2 DEF Writer, OpenPartition, FillPartition
<1>4. d \in DOMAIN r.out /\ Tail(r.left) \in Seq(DOMAIN r.out)
      /\ ToSet(r.left) = {d} \union ToSet(Tail(r.left))
  BY <1>3, HeadAndTail
<1>5. PICK p : /\ p = Opened \/ p = File(r.out[d])
               /\ partitions' = [partitions EXCEPT ![d] = p]
  BY DEF OpenPartition, FillPartition
<1>6. /\ UNCHANGED <<exported, readiness, manifest, summary, metadata>>
      /\ \A x \in Commands : x # c => cmd'[x] = cmd[x]
      /\ cmd'[c].phase = r.phase /\ cmd'[c].stamp = r.stamp /\ cmd'[c].out = r.out
      /\ \/ p = Opened /\ cmd'[c].pc = "fill" /\ cmd'[c].left = r.left
         \/ p = File(r.out[d]) /\ cmd'[c].pc = "open" /\ cmd'[c].left = Tail(r.left)
  <2>0. partitions'[d] = p /\ DOMAIN partitions = Dates
    BY <1>2, <1>4, <1>5 DEF ExportsInv, FilesInv
  <2>1. CASE OpenPartition(c)
    <3>1. Becomes(c, [cmd[c] EXCEPT !.pc = "fill"]) /\ partitions'[d] = Opened
      BY <1>2, <1>4, <2>0, <2>1 DEF OpenPartition
    <3>2. cmd'[c] = [cmd[c] EXCEPT !.pc = "fill"]
          /\ \A x \in Commands : x # c => cmd'[x] = cmd[x]
      BY <3>1, Becoming
    <3> QED
      BY <1>2, <2>0, <2>1, <3>1, <3>2 DEF OpenPartition, Fields
  <2>2. CASE FillPartition(c)
    <3>1. /\ Becomes(c, [cmd[c] EXCEPT !.pc = "open", !.left = Tail(@)])
          /\ partitions'[d] = File(r.out[d])
      BY <1>2, <1>4, <2>0, <2>2 DEF FillPartition
    <3>2. cmd'[c] = [cmd[c] EXCEPT !.pc = "open", !.left = Tail(@)]
          /\ \A x \in Commands : x # c => cmd'[x] = cmd[x]
      BY <3>1, Becoming
    <3> QED
      BY <1>2, <2>0, <2>2, <3>1, <3>2 DEF FillPartition, Fields
  <2> QED
    BY <2>1, <2>2
<1>7. \A x \in Dates : partitions'[x] = IF x = d THEN p ELSE partitions[x]
  BY <1>2, <1>4, <1>5 DEF ExportsInv, FilesInv
<1>8. FilesInv'
  <2>1. DOMAIN partitions' = Dates
    BY <1>5 DEF ExportsInv, FilesInv
  <2>2. \A x, y : Exported(x, y)' <=> Exported(x, y)
    BY <1>6 DEF Exported
  <2>3. ASSUME NEW x \in Dates
        PROVE  \/ partitions'[x] \in {Missing, Opened}
               \/ partitions'[x] = File(partitions'[x].data) /\ Exported(partitions'[x].data, x)
    <3>1. CASE x # d
      BY <1>7, <3>1 DEF ExportsInv, FilesInv
    <3>2. CASE x = d
      BY <1>2, <1>4, <1>5, <1>7, <3>2 DEF File
    <3> QED
      BY <3>1, <3>2
  <2>4. \A m : IsManifest(m)' <=> IsManifest(m)
    BY <1>6 DEF IsManifest
  <2>5. \A fp : Sound(fp)' <=> Sound(fp)
    BY <1>6, <2>4 DEF Sound
  <2> QED
    BY <1>6, <2>1, <2>2, <2>3, <2>4, <2>5 DEF ExportsInv, FilesInv
<1>9. Phased(c)' /\ Writer(c)'
  BY <1>1, <1>2, <1>3, <1>4, <1>6, <1>7 DEF Phased, Writer
<1>10. c = "check" => Checker'
  BY <1>1, <1>6 DEF Checker, Writes
<1> QED
  BY <1>1, <1>6, <1>8, <1>9, <1>10, WritingStep

LEMMA SameExports ==
    ASSUME UNCHANGED exported
    PROVE  /\ \A x, y : Exported(x, y)' <=> Exported(x, y)
           /\ \A m : IsManifest(m)' <=> IsManifest(m)
           /\ \A fp : Sound(fp)' <=> Sound(fp)
<1>1. \A m : IsManifest(m)' <=> IsManifest(m)
  BY DEF IsManifest
<1> QED
  BY <1>1 DEF Exported, Sound

LEMMA WriteManifest ==
    ASSUME Inv, ExportsInv, NEW c \in Commands, OpenManifest(c) \/ FillManifest(c)
    PROVE  ExportsInv'
<1> DEFINE r == cmd[c]
<1>1. r.pc \in {"open", "manifest"} /\ r.phase \in Writes
  BY DEF OpenManifest, FillManifest, ExportsInv, Phased
<1>2. /\ DOMAIN r = Fields /\ Phased(c) /\ Writer(c)
      /\ \A kind \in Writes : IsManifest(ManifestOf(kind, r.stamp, r.out))
  BY <1>1, WriterAt
<1>3. UNCHANGED <<exported, readiness, partitions, summary, metadata>>
  BY DEF OpenManifest, FillManifest
<1>4. CASE OpenManifest(c)
  <2>1. /\ cmd'[c] = [cmd[c] EXCEPT !.pc = "manifest"]
        /\ \A x \in Commands : x # c => cmd'[x] = cmd[x]
    BY <1>4, Becoming DEF OpenManifest
  <2>2. /\ cmd'[c].pc = "manifest" /\ cmd'[c].phase = r.phase
        /\ cmd'[c].stamp = r.stamp /\ cmd'[c].out = r.out
    BY <1>2, <2>1 DEF Fields
  <2>3. \A d \in DOMAIN r.out : partitions[d] = File(r.out[d])
    BY <1>1, <1>2, <1>4, NothingLeft DEF OpenManifest, Writer
  <2>4. FilesInv'
    BY <1>3, <1>4, SameExports DEF OpenManifest, ExportsInv, FilesInv
  <2>5. Phased(c)' /\ Writer(c)'
    BY <1>1, <1>2, <1>3, <2>2, <2>3 DEF Phased, Writer
  <2>6. c = "check" => Checker'
    BY <1>1, <2>2 DEF Checker, Writes
  <2> QED
    BY <1>1, <1>3, <2>1, <2>4, <2>5, <2>6, WritingStep
<1>5. CASE FillManifest(c)
  <2> DEFINE next == IF r.phase = "sync" THEN "record" ELSE "print"
  <2>1. /\ cmd'[c] = [cmd[c] EXCEPT !.pc = next]
        /\ \A x \in Commands : x # c => cmd'[x] = cmd[x]
    BY <1>5, Becoming DEF FillManifest
  <2>2. /\ cmd'[c].pc = next /\ cmd'[c].phase = r.phase
        /\ cmd'[c].stamp = r.stamp /\ cmd'[c].out = r.out
    BY <1>2, <2>1 DEF Fields
  <2>3. manifest' = File(ManifestOf(r.phase, r.stamp, r.out))
        /\ \A d \in DOMAIN r.out : partitions[d] = File(r.out[d])
    BY <1>2, <1>5, <1>1 DEF FillManifest, Writer
  <2>4. FilesInv'
    BY <1>1, <1>2, <1>3, <2>3, SameExports DEF ExportsInv, FilesInv, File
  <2>5. Phased(c)' /\ Writer(c)'
    BY <1>1, <1>2, <1>3, <2>2, <2>3 DEF Phased, Writer, Writes
  <2>6. c = "check" => Checker'
    BY <1>1, <2>2 DEF Checker, Writes
  <2> QED
    BY <1>1, <1>3, <2>1, <2>4, <2>5, <2>6, WritingStep
<1> QED
  BY <1>4, <1>5

\* The fingerprint of what was exported.
LEMMA PrintExport ==
    ASSUME Inv, ExportsInv, NEW c \in Commands, cmd[c].phase \in Writes,
           PrintManifest(c) \/ PrintPartition(c)
    PROVE  ExportsInv'
<1> DEFINE r == cmd[c]
<1>1. UNCHANGED <<files, exported, readiness>> /\ r.pc \in {"print", "digest"}
  BY DEF PrintManifest, PrintPartition
<1>2. /\ DOMAIN r = Fields /\ Phased(c) /\ Writer(c) /\ r.phase = "export"
      /\ DOMAIN r.out \subseteq Dates
  BY <1>1, WriterAt DEF Phased, Writes
<1>3. /\ manifest = File(ManifestOf("export", r.stamp, r.out))
      /\ \A d \in DOMAIN r.out : partitions[d] = File(r.out[d])
  BY <1>1, <1>2 DEF Writer
<1>4. CASE PrintManifest(c)
  <2> DEFINE m == ManifestOf("export", r.stamp, r.out)
             new == [r EXCEPT !.pc = "digest", !.man = m, !.left = m.dates, !.parts = << >>]
  <2>1. cmd'[c] = new /\ \A x \in Commands : x # c => cmd'[x] = cmd[x]
    BY <1>3, <1>4, Becoming DEF PrintManifest, File
  <2>2. m.dates \in Seq(DOMAIN r.out) /\ ToSet(m.dates) = DOMAIN r.out
    BY <1>2, DescendingSeq DEF ManifestOf
  <2> HIDE DEF m
  <2>3. /\ cmd'[c].pc = "digest" /\ cmd'[c].phase = r.phase
        /\ cmd'[c].stamp = r.stamp /\ cmd'[c].out = r.out
        /\ cmd'[c].man = m /\ cmd'[c].left = m.dates /\ cmd'[c].parts = << >>
    BY <1>2, <2>1 DEF Fields
  <2>4. DOMAIN << >> = {} /\ << >> = [d \in DOMAIN << >> |-> r.out[d]]
    BY NothingLeft
  <2>5. Phased(c)' /\ Writer(c)'
    BY <1>1, <1>2, <1>3, <2>2, <2>3, <2>4 DEF Phased, Writer, files, m
  <2>6. c = "check" => Checker'
    BY <1>2, <2>3 DEF Checker
  <2> QED
    BY <1>1, <2>1, <2>3, <2>5, <2>6, Reading
<1>5. CASE PrintPartition(c)
  <2> DEFINE d == Head(r.left)
             new == [r EXCEPT !.left = Tail(@), !.parts = With(@, d, r.out[d])]
  <2>1. r.pc = "digest" /\ r.left # << >> /\ r.left \in Seq(DOMAIN r.out)
        /\ r.man = ManifestOf("export", r.stamp, r.out)
        /\ DOMAIN r.parts \union ToSet(r.left) = DOMAIN r.out
        /\ r.parts = [x \in DOMAIN r.parts |-> r.out[x]]
    BY <1>2, <1>5 DEF PrintPartition, Writer
  <2>2. d \in DOMAIN r.out /\ Tail(r.left) \in Seq(DOMAIN r.out)
        /\ ToSet(r.left) = {d} \union ToSet(Tail(r.left))
    BY <2>1, HeadAndTail
  <2>3. cmd'[c] = new /\ \A x \in Commands : x # c => cmd'[x] = cmd[x]
    <3>1. partitions[d].is = "file" /\ partitions[d].data = r.out[d]
      <4>1. partitions[d] = File(r.out[d])
        BY <1>3, <2>2
      <4> QED
        BY <4>1 DEF File
    <3>2. Becomes(c, new)
      BY <1>5, <3>1 DEF PrintPartition
    <3> QED
      BY <3>2, Becoming
  <2>4. /\ cmd'[c].pc = "digest" /\ cmd'[c].phase = r.phase
        /\ cmd'[c].stamp = r.stamp /\ cmd'[c].out = r.out /\ cmd'[c].man = r.man
        /\ cmd'[c].left = Tail(r.left) /\ cmd'[c].parts = With(r.parts, d, r.out[d])
    BY <1>2, <2>1, <2>3 DEF Fields
  <2>5. /\ DOMAIN With(r.parts, d, r.out[d]) = DOMAIN r.parts \union {d}
        /\ With(r.parts, d, r.out[d]) = [x \in DOMAIN r.parts \union {d} |-> r.out[x]]
    BY <2>1 DEF With
  <2>6. Phased(c)' /\ Writer(c)'
    BY <1>1, <1>2, <1>3, <2>1, <2>2, <2>4, <2>5 DEF Phased, Writer, files
  <2>7. c = "check" => Checker'
    BY <1>2, <2>4 DEF Checker
  <2> QED
    BY <1>1, <2>3, <2>4, <2>6, <2>7, Reading
<1> QED
  BY <1>4, <1>5

LEMMA WriteSummary ==
    ASSUME Inv, ExportsInv, NEW c \in Commands, OpenSummary(c) \/ FillSummary(c)
    PROVE  ExportsInv'
<1> DEFINE r == cmd[c]
<1>1. /\ UNCHANGED <<exported, readiness, partitions, manifest, metadata>>
      /\ r.phase = "export" /\ r.pc \in {"digest", "summary"}
  BY DEF OpenSummary, FillSummary, Printed, ExportsInv, Phased, Writes
<1>2. /\ DOMAIN r = Fields /\ Phased(c) /\ Writer(c)
      /\ r.stamp \in DOMAIN exported /\ r.out = exported[r.stamp] /\ r.out \in RowSets
      /\ IsManifest(ManifestOf("export", r.stamp, r.out))
  BY <1>1, WriterAt DEF Writes
<1>3. CASE OpenSummary(c)
  <2>1. /\ cmd'[c] = [cmd[c] EXCEPT !.pc = "summary"]
        /\ \A x \in Commands : x # c => cmd'[x] = cmd[x]
    BY <1>3, Becoming DEF OpenSummary
  <2>2. /\ cmd'[c].pc = "summary" /\ cmd'[c].phase = r.phase
        /\ cmd'[c].stamp = r.stamp /\ cmd'[c].out = r.out /\ cmd'[c].man = r.man
        /\ cmd'[c].left = r.left /\ cmd'[c].parts = r.parts
    BY <1>2, <2>1 DEF Fields
  <2>3. DOMAIN r.parts = DOMAIN r.out /\ r.parts = [d \in DOMAIN r.parts |-> r.out[d]]
    <3>1. r.left = << >> /\ r.pc = "digest" /\ r.phase \in Writes
      BY <1>1, <1>3 DEF OpenSummary, Printed, Writes
    <3> QED
      BY <1>2, <3>1, NothingLeft DEF Writer
  <2>4. r.parts = r.out
    BY <1>2, <2>3, RowsFit
  <2>5. FilesInv'
    BY <1>1, <1>3, SameExports DEF OpenSummary, ExportsInv, FilesInv
  <2>6. Phased(c)' /\ Writer(c)'
    BY <1>1, <1>2, <1>3, <2>2, <2>4 DEF Phased, Writer, OpenSummary, Printed, Writes
  <2>7. c = "check" => Checker'
    BY <1>1, <2>2 DEF Checker
  <2> QED
    BY <1>1, <2>1, <2>5, <2>6, <2>7, WritingStep DEF Writes
<1>4. CASE FillSummary(c)
  <2> DEFINE new == [Idle EXCEPT !.pc = IF c = "check" THEN "print" ELSE "readiness",
                         !.phase = c, !.given = cmd[c].given, !.allow = cmd[c].allow]
             m == ManifestOf("export", r.stamp, r.out)
  <2>1. cmd'[c] = new /\ \A x \in Commands : x # c => cmd'[x] = cmd[x]
    BY <1>4, Becoming DEF FillSummary
  <2>2. cmd'[c].pc = (IF c = "check" THEN "print" ELSE "readiness") /\ cmd'[c].phase = c
    BY <2>1, FieldsOfCommands DEF Fields
  <2>3. r.man = m /\ r.parts = exported[r.stamp] /\ m.kind = "export" /\ m.stamp = r.stamp
    BY <1>1, <1>2, <1>4 DEF Writer, FillSummary, ManifestOf, Writes
  <2>4. Sound(Fingerprint(r.man, r.parts))
    BY <1>2, <2>3 DEF Sound, Fingerprint
  <2> DEFINE data == [manifest |-> m, fp |-> Fingerprint(r.man, r.parts)]
  <2>5. FilesInv'
    <3>1. summary' = File(data) /\ data.fp = Fingerprint(r.man, r.parts) /\ data.manifest = m
      BY <1>4 DEF FillSummary
    <3>2. data.manifest = data.fp.manifest /\ data.manifest.kind = "export"
      BY <2>3, <3>1 DEF Fingerprint
    <3>3. Sound(data.fp)
      BY <2>4, <3>1
    <3> HIDE DEF data
    <3>4. File(data).data = data
      BY DEF File
    <3> QED
      BY <1>1, <3>1, <3>2, <3>3, <3>4, SameExports DEF ExportsInv, FilesInv
  <2>6. Phased(c)' /\ Writer(c)' /\ (c = "check" => Checker')
    BY <2>2 DEF Phased, Writer, Checker, Commands, Writes
  <2> QED
    BY <1>1, <2>1, <2>5, <2>6, WritingStep DEF Writes
<1> QED
  BY <1>3, <1>4

LEMMA WriteRecord ==
    ASSUME Inv, ExportsInv, OpenRecord \/ FillRecord
    PROVE  ExportsInv'
<1> DEFINE r == cmd["check"]
<1>1. /\ UNCHANGED <<exported, readiness, partitions, manifest, summary>>
      /\ r.phase \in Writes /\ r.pc \in {"record", "fill_record"} /\ "check" \in Commands
  BY DEF OpenRecord, FillRecord, ExportsInv, Phased, Commands
<1>2. DOMAIN r = Fields /\ Phased("check") /\ Writer("check")
  BY <1>1, WriterAt
<1>3. FilesInv'
  BY <1>1, SameExports DEF OpenRecord, FillRecord, ExportsInv, FilesInv, File
<1>4. CASE OpenRecord
  <2>1. /\ cmd'["check"] = [r EXCEPT !.pc = "fill_record"]
        /\ \A x \in Commands : x # "check" => cmd'[x] = cmd[x]
    BY <1>1, <1>4, Becoming DEF OpenRecord
  <2>2. /\ cmd'["check"].pc = "fill_record" /\ cmd'["check"].phase = r.phase
        /\ cmd'["check"].stamp = r.stamp /\ cmd'["check"].out = r.out
    BY <1>2, <2>1 DEF Fields
  <2>3. Phased("check")' /\ Writer("check")' /\ Checker'
    BY <1>1, <1>2, <1>4, <2>2 DEF Phased, Writer, Checker, OpenRecord, Writes
  <2> QED
    BY <1>1, <1>3, <2>1, <2>3, WritingStep
<1>5. CASE FillRecord
  <2>1. cmd'["check"] = Idle /\ \A x \in Commands : x # "check" => cmd'[x] = cmd[x]
    BY <1>1, <1>5, Becoming DEF FillRecord, Ends
  <2>2. Phased("check")' /\ Writer("check")' /\ Checker'
    BY <2>1 DEF Phased, Writer, Checker, Idle, Writes
  <2> QED
    BY <1>1, <1>3, <2>1, <2>2, WritingStep
<1> QED
  BY <1>4, <1>5

-----------------------------------------------------------------------------
(* The steps of a check *)

\* A check that goes on is a check, and exports nothing.
LEMMA Checking ==
    ASSUME ExportsInv, UNCHANGED <<files, exported, readiness>>,
           \A x \in Commands : x # "check" => cmd'[x] = cmd[x],
           cmd'["check"].phase = "check",
           cmd'["check"].pc \in {"print", "digest", "compare", "scan"}, Checker'
    PROVE  ExportsInv'
<1>1. Phased("check")' /\ Writer("check")'
  BY DEF Phased, Writer, Writes
<1> QED
  BY <1>1, Reading DEF Writes, Commands

LEMMA PrintForCheck ==
    ASSUME Inv, ExportsInv, cmd["check"].phase = "check",
           PrintManifest("check") \/ PrintPartition("check")
    PROVE  ExportsInv'
<1> DEFINE r == cmd["check"]
<1>1. /\ UNCHANGED <<files, exported, readiness>> /\ "check" \in Commands
      /\ DOMAIN r = Fields /\ FilesInv /\ Checker
  BY FieldsOfCommands DEF PrintManifest, PrintPartition, Commands, ExportsInv
<1>2. CASE Ends("check")
  BY <1>1, <1>2, Ending
<1>3. CASE PrintManifest("check") /\ ~Ends("check")
  <2> DEFINE new == [r EXCEPT !.pc = "digest", !.man = manifest.data,
                              !.left = manifest.data.dates, !.parts = << >>]
  <2>1. cmd'["check"] = new /\ (\A x \in Commands : x # "check" => cmd'[x] = cmd[x])
        /\ manifest.is = "file"
    BY <1>1, <1>3, Becoming DEF PrintManifest
  <2>2. cmd'["check"].pc = "digest" /\ cmd'["check"].phase = "check"
        /\ cmd'["check"].man = manifest.data
    BY <1>1, <2>1 DEF Fields
  <2>3. manifest = File(manifest.data) /\ IsManifest(manifest.data)
    BY <1>1, <2>1 DEF FilesInv, Missing, Torn
  <2>4. Checker'
    BY <1>1, <2>2, <2>3, SameExports DEF Checker, files
  <2> QED
    BY <1>1, <2>1, <2>2, <2>4, Checking
<1>4. CASE PrintPartition("check") /\ ~Ends("check")
  <2> DEFINE d == Head(r.left)
             new == [r EXCEPT !.left = Tail(@), !.parts = With(@, d, partitions[d].data)]
  <2>1. cmd'["check"] = new /\ (\A x \in Commands : x # "check" => cmd'[x] = cmd[x])
        /\ r.pc = "digest"
    BY <1>1, <1>4, Becoming DEF PrintPartition
  <2>2. cmd'["check"].pc = "digest" /\ cmd'["check"].phase = "check"
        /\ cmd'["check"].man = r.man
    BY <1>1, <2>1 DEF Fields
  <2>3. Checker'
    BY <1>1, <2>1, <2>2, SameExports DEF Checker, files
  <2> QED
    BY <1>1, <2>1, <2>2, <2>3, Checking
<1> QED
  BY <1>2, <1>3, <1>4

LEMMA InspectManifestStep ==
    ASSUME Inv, ExportsInv, InspectManifest
    PROVE  ExportsInv'
<1> DEFINE r == cmd["check"]
           new == [r EXCEPT !.pc = "compare", !.man = manifest.data,
                            !.fp = Fingerprint(r.man, r.parts), !.parts = << >>]
<1>1. /\ UNCHANGED <<files, exported, readiness>> /\ "check" \in Commands
      /\ DOMAIN r = Fields /\ FilesInv /\ Checker /\ r.pc = "digest" /\ r.phase = "check"
  BY FieldsOfCommands DEF InspectManifest, Printed, Commands, ExportsInv
<1>2. CASE Ends("check")
  BY <1>1, <1>2, Ending
<1>3. CASE ~Ends("check")
  <2>1. cmd'["check"] = new /\ (\A x \in Commands : x # "check" => cmd'[x] = cmd[x])
        /\ manifest.is = "file"
    BY <1>1, <1>3, Becoming DEF InspectManifest
  <2>2. /\ cmd'["check"].pc = "compare" /\ cmd'["check"].phase = "check"
        /\ cmd'["check"].man = manifest.data /\ cmd'["check"].parts = << >>
        /\ cmd'["check"].fp.manifest = r.man
    BY <1>1, <2>1 DEF Fields, Fingerprint
  <2>3. manifest = File(manifest.data) /\ IsManifest(manifest.data)
    BY <1>1, <2>1 DEF FilesInv, Missing, Torn
  <2>4. IsManifest(r.man) /\ (metadata.is # "missing" => manifest = File(r.man))
    BY <1>1 DEF Checker
  <2>5. metadata.is # "missing" => r.man = manifest.data
    BY <2>4 DEF File
  <2>6. Checker'
    BY <1>1, <2>2, <2>3, <2>4, <2>5, SameExports DEF Checker, files
  <2> QED
    BY <1>1, <2>1, <2>2, <2>6, Checking
<1> QED
  BY <1>2, <1>3

\* What a verdict may rest on: a record of the sync that the manifest is of, or the
\* fingerprint in the summary of the export.
LEMMA EvidenceIsSound ==
    ASSUME FilesInv, NEW man, IsManifest(man), NEW fp, IsManifest(fp.manifest),
           metadata.is # "missing" => fp.manifest = man,
           NEW file, file = IF metadata.is = "missing" THEN summary ELSE metadata,
           file.is \notin {"torn", "missing"}, Evidence(man, fp)
    PROVE  Sound(fp)
<1>1. CASE metadata.is # "missing"
  <2>1. fp.manifest.kind = "sync"
    BY <1>1 DEF Evidence, Records
  <2> QED
    BY <2>1 DEF Sound
<1>2. CASE metadata.is = "missing"
  <2>1. summary.data.fp = fp /\ summary \notin {Missing, Torn}
    BY <1>2 DEF Evidence, Describes, Missing, Torn
  <2> QED
    BY <2>1 DEF FilesInv
<1> QED
  BY <1>1, <1>2

LEMMA Refusing ==
    ASSUME Inv, ExportsInv, UNCHANGED <<files, exported, readiness>>,
           Becomes("check", Refused)
    PROVE  ExportsInv'
<1>1. "check" \in Commands /\ DOMAIN Idle = Fields
  BY FieldsOfCommands DEF Commands
<1>2. cmd'["check"] = Refused /\ \A x \in Commands : x # "check" => cmd'[x] = cmd[x]
  BY <1>1, Becoming
<1>3. /\ Refused.pc = "scan" /\ Refused.phase = "check" /\ Refused.severity = "failed"
      /\ Refused.left = << >> /\ Refused.parts = << >>
  BY <1>1 DEF Refused, Fields, Idle
<1>4. Checker'
  BY <1>2, <1>3, NothingLeft DEF Checker
<1> QED
  BY <1>2, <1>3, <1>4, Checking

LEMMA InspectEvidenceStep ==
    ASSUME Inv, ExportsInv, InspectEvidence
    PROVE  ExportsInv'
<1> DEFINE r == cmd["check"]
           file == IF metadata.is = "missing" THEN summary ELSE metadata
           severity == IF file.is = "missing" THEN "hold" ELSE "none"
           new == [r EXCEPT !.pc = "scan", !.left = ScanDates(r.man), !.severity = severity]
<1>1. /\ UNCHANGED <<files, exported, readiness>> /\ "check" \in Commands
      /\ DOMAIN r = Fields /\ FilesInv /\ Checker /\ r.pc = "compare" /\ r.phase = "check"
  BY FieldsOfCommands DEF InspectEvidence, Commands, ExportsInv, Phased
<1>2. CASE Ends("check") \/ Becomes("check", Refused)
  BY <1>1, <1>2, Ending, Refusing
<1>3. CASE ~Ends("check") /\ ~Becomes("check", Refused)
  <2>1. Becomes("check", new) /\ file.is # "torn"
        /\ (file.is = "file" => Evidence(r.man, r.fp))
    BY <1>3 DEF InspectEvidence
  <2>2. cmd'["check"] = new /\ \A x \in Commands : x # "check" => cmd'[x] = cmd[x]
    BY <1>1, <2>1, Becoming
  <2>3. /\ cmd'["check"].pc = "scan" /\ cmd'["check"].phase = "check"
        /\ cmd'["check"].man = r.man /\ cmd'["check"].parts = r.parts
        /\ cmd'["check"].fp = r.fp /\ cmd'["check"].left = ScanDates(r.man)
        /\ cmd'["check"].severity = severity
    <3> HIDE DEF severity
    <3> QED
      BY <1>1, <2>2 DEF Fields
  <2>4. /\ IsManifest(r.man) /\ IsManifest(r.fp.manifest) /\ r.parts = << >>
        /\ metadata.is # "missing" => r.fp.manifest = r.man
    BY <1>1 DEF Checker
  <2>5. file.is \in {"missing", "torn", "file"}
    BY <1>1 DEF FilesInv, Missing, Torn, File
  <2>6. file.is = "file" => Sound(r.fp)
    <3> HIDE DEF file
    <3> QED
      BY <1>1, <2>1, <2>4, EvidenceIsSound DEF file
  <2>7. severity \in {"none", "hold"} /\ (severity = "none" => Sound(r.fp))
    BY <2>1, <2>5, <2>6
  <2>8. ScanDates(r.man) \in Seq(DOMAIN r.man.counts)
    BY <1>1, <2>4, ScannedDates
  <2> HIDE DEF severity
  <2>9. Checker'
    BY <1>1, <2>3, <2>4, <2>7, <2>8, NothingLeft, SameExports DEF Checker
  <2> QED
    BY <1>1, <2>2, <2>3, <2>9, Checking
<1> QED
  BY <1>2, <1>3

LEMMA ScanPartitionStep ==
    ASSUME Inv, ExportsInv, ScanPartition
    PROVE  ExportsInv'
<1> DEFINE r == cmd["check"]
           d == Head(r.left)
           over == [r EXCEPT !.left = Tail(@)]
           read == [r EXCEPT !.left = Tail(@), !.parts = With(@, d, partitions[d].data)]
<1>1. /\ UNCHANGED <<files, exported, readiness>> /\ "check" \in Commands
      /\ DOMAIN r = Fields /\ FilesInv /\ Checker /\ r.pc = "scan" /\ r.phase = "check"
      /\ r.left # << >>
  BY FieldsOfCommands DEF ScanPartition, Commands, ExportsInv, Phased
<1>2. \/ Becomes("check", over)
      \/ Becomes("check", read) /\ Readable(r.man, d)
      \/ Becomes("check", Refused)
  BY DEF ScanPartition
<1>3. /\ IsManifest(r.man) /\ r.left \in Seq(DOMAIN r.man.counts)
      /\ \A x \in DOMAIN r.parts : x \in Dates /\ Exported(r.parts[x], x)
      /\ r.severity \in {"none", "hold", "failed"} /\ (r.severity = "none" => Sound(r.fp))
  BY <1>1 DEF Checker
<1>4. d \in DOMAIN r.man.counts /\ Tail(r.left) \in Seq(DOMAIN r.man.counts)
  BY <1>1, <1>3, HeadAndTail
<1>5. ASSUME NEW parts, \A x \in DOMAIN parts : x \in Dates /\ Exported(parts[x], x),
             cmd'["check"] = [r EXCEPT !.left = Tail(@), !.parts = parts],
             \A x \in Commands : x # "check" => cmd'[x] = cmd[x]
      PROVE  ExportsInv'
  <2>1. /\ cmd'["check"].pc = "scan" /\ cmd'["check"].phase = "check"
        /\ cmd'["check"].man = r.man /\ cmd'["check"].parts = parts
        /\ cmd'["check"].fp = r.fp /\ cmd'["check"].left = Tail(r.left)
        /\ cmd'["check"].severity = r.severity
    BY <1>1, <1>5 DEF Fields
  <2>2. Checker'
    BY <1>1, <1>3, <1>4, <1>5, <2>1, SameExports DEF Checker
  <2> QED
    BY <1>1, <1>5, <2>1, <2>2, Checking
<1>6. CASE Becomes("check", over)
  <2>1. cmd'["check"] = over /\ \A x \in Commands : x # "check" => cmd'[x] = cmd[x]
    BY <1>1, <1>6, Becoming
  <2>2. over = [r EXCEPT !.left = Tail(@), !.parts = r.parts]
    BY <1>1 DEF Fields
  <2> QED
    BY <1>3, <1>5, <2>1, <2>2
<1>7. CASE Becomes("check", read) /\ Readable(r.man, d)
  <2> DEFINE parts == With(r.parts, d, partitions[d].data)
  <2>1. cmd'["check"] = read /\ \A x \in Commands : x # "check" => cmd'[x] = cmd[x]
    BY <1>1, <1>7, Becoming
  <2>2. d \in Dates /\ Exported(partitions[d].data, d)
    BY <1>1, <1>3, <1>4, <1>7, ReadableIsExported
  <2>3. DOMAIN parts = DOMAIN r.parts \union {d}
        /\ \A x \in DOMAIN parts : parts[x] = IF x = d THEN partitions[d].data ELSE r.parts[x]
    BY DEF With
  <2>4. \A x \in DOMAIN parts : x \in Dates /\ Exported(parts[x], x)
    <3> HIDE DEF parts, d
    <3> QED
      BY <1>3, <2>2, <2>3
  <2>5. read = [r EXCEPT !.left = Tail(@), !.parts = parts]
    OBVIOUS
  <2> HIDE DEF parts, read
  <2> QED
    BY <1>5, <2>1, <2>4, <2>5
<1>8. CASE Becomes("check", Refused)
  BY <1>1, <1>8, Refusing
<1> QED
  BY <1>2, <1>6, <1>7, <1>8

LEMMA ConcludeStep ==
    ASSUME Inv, ExportsInv, NEW other \in BOOLEAN, Conclude(other)
    PROVE  ExportsInv'
<1> DEFINE r == cmd["check"]
<1>1. /\ UNCHANGED <<files, exported>> /\ "check" \in Commands /\ Ends("check")
      /\ r.pc = "scan" /\ r.phase = "check" /\ Checker
  BY DEF Conclude, ExportsInv, Phased, Commands
<1>2. /\ \A x \in DOMAIN r.parts : x \in Dates /\ Exported(r.parts[x], x)
      /\ r.severity \in {"none", "hold", "failed"} /\ (r.severity = "none" => Sound(r.fp))
  BY <1>1 DEF Checker
<1>3. ASSUME readiness'.status = "ready"
      PROVE  /\ r.severity = "none" /\ Cardinality(Eligible(r.parts)) >= MinEligible
             /\ Eligible(r.parts) # {}
             /\ readiness'.fp = r.fp /\ readiness'.checked = r.parts
             /\ readiness'.current = Current(r.parts)
             /\ readiness'.previous = Previous(r.parts)
  <2>1. r.severity # "failed" /\ r.severity # "hold"
        /\ ~(Cardinality(Eligible(r.parts)) < MinEligible)
    BY <1>3 DEF Conclude
  <2>2. Cardinality({}) = 0 /\ MinEligible \in Nat \ {0}
    BY FS_EmptySet, BoundsAssumption, FS_CardinalityType
  <2>3. Eligible(r.parts) # {}
    BY <2>1, <2>2
  <2>4. Eligible(r.parts) \subseteq Etfs
    BY DEF Eligible
  <2>5. Cardinality(Eligible(r.parts)) \in Nat
    BY <2>4, BoundsAssumption, FS_Subset, FS_CardinalityType
  <2>6. r.severity = "none" /\ Cardinality(Eligible(r.parts)) >= MinEligible
    BY <1>2, <2>1, <2>2, <2>5
  <2> QED
    BY <1>3, <2>3, <2>6 DEF Conclude
<1>4. ReadyInv'
  BY <1>1, <1>2, <1>3, SameExports DEF ReadyInv
<1>5. cmd'["check"] = Idle /\ \A x \in Commands : x # "check" => cmd'[x] = cmd[x]
  BY <1>1, Becoming DEF Ends
<1>6. FilesInv' /\ Turns'
  BY <1>1, <1>5, SameExports DEF ExportsInv, FilesInv, Turns, files, Idle, Writes, Commands
<1>7. Checker' /\ \A c \in Commands : Phased(c)' /\ Writer(c)'
  <2>1. Checker' /\ Phased("check")' /\ Writer("check")'
    BY <1>5 DEF Checker, Phased, Writer, Idle, Writes
  <2>2. \A c \in Commands : c # "check" => Phased(c)' /\ Writer(c)'
    BY <1>1, <1>5 DEF ExportsInv, Phased, Writer, files
  <2> QED
    BY <2>1, <2>2
<1> QED
  BY <1>4, <1>6, <1>7 DEF ExportsInv
-----------------------------------------------------------------------------
(* The steps of a report, and the whole *)

\* A report that is none of its exporting steps exports nothing.
LEMMA ReportPhase ==
    ASSUME ExportsInv, cmd["report"].pc \in {"readiness", "load", "rows"} \union Storage
    PROVE  cmd["report"].phase \in {"report", "none"}
BY DEF ExportsInv, Phased, Writes, Commands, Storage

LEMMA ReportGoesOn ==
    ASSUME Inv, ExportsInv, UNCHANGED <<files, exported, readiness>>, NEW r,
           Becomes("report", r), r.phase \in {"report", "none"},
           r.pc \in {"readiness", "load", "rows", "print", "digest"} \union Storage
    PROVE  ExportsInv'
<1>1. "report" \in Commands
  BY DEF Commands
<1>2. cmd'["report"] = r /\ \A x \in Commands : x # "report" => cmd'[x] = cmd[x]
  BY <1>1, Becoming
<1> QED
  BY <1>1, <1>2, Aside DEF Storage

LEMMA ReportEnds ==
    ASSUME Inv, ExportsInv, UNCHANGED <<files, exported, readiness>>, Ends("report")
    PROVE  ExportsInv'
BY Ending DEF Commands

\* The fingerprint that a report computes, of whatever is there.
LEMMA PrintAside ==
    ASSUME Inv, ExportsInv, NEW c \in Commands, cmd[c].phase \in {"report", "none"},
           PrintManifest(c) \/ PrintPartition(c)
    PROVE  ExportsInv'
<1> DEFINE r == cmd[c]
           d == Head(r.left)
           start == [r EXCEPT !.pc = "digest", !.man = manifest.data,
                              !.left = manifest.data.dates, !.parts = << >>]
           next == [r EXCEPT !.left = Tail(@), !.parts = With(@, d, partitions[d].data)]
<1>1. UNCHANGED <<files, exported, readiness>> /\ DOMAIN r = Fields
  BY FieldsOfCommands DEF PrintManifest, PrintPartition
<1>2. Ends(c) \/ Becomes(c, start) \/ (Becomes(c, next) /\ r.pc = "digest")
  BY DEF PrintManifest, PrintPartition
<1>3. /\ start.phase = r.phase /\ start.pc = "digest"
      /\ next.phase = r.phase /\ next.pc = r.pc
  BY <1>1 DEF Fields
<1> HIDE DEF start, next
<1>4. CASE Ends(c)
  BY <1>1, <1>4, Ending
<1>5. ASSUME NEW new, Becomes(c, new), new.phase = r.phase, new.pc = "digest"
      PROVE  ExportsInv'
  <2>1. cmd'[c] = new /\ \A x \in Commands : x # c => cmd'[x] = cmd[x]
    BY <1>5, Becoming
  <2> QED
    BY <1>1, <1>5, <2>1, Aside
<1> QED
  BY <1>2, <1>3, <1>4, <1>5

LEMMA ToStoreGoesOn ==
    \A r : ToStore(r).phase = "none" /\ ToStore(r).pc = "begin"
BY DEF ToStore, Idle

LEMMA GateSteps ==
    ASSUME Inv, ExportsInv,
           ReadReadiness \/ LoadManifest \/ LoadPartition \/ Loaded \/ Validate
    PROVE  ExportsInv'
<1> DEFINE r == cmd["report"]
           d == Head(r.left)
<1>1. UNCHANGED <<files, exported, readiness>>
  BY DEF ReadReadiness, LoadManifest, LoadPartition, Loaded, Validate
<1>2. DOMAIN r = Fields
  BY FieldsOfCommands DEF Commands
<1>3. CASE ReadReadiness
  <2> DEFINE verdict == IF r.given THEN readiness ELSE r.verdict
             next == [r EXCEPT !.pc = "load", !.verdict = verdict]
  <2>1. r.pc = "readiness" /\ (Ends("report") \/ Becomes("report", next))
    BY <1>3 DEF ReadReadiness
  <2>2. next.pc = "load" /\ next.phase = r.phase
    <3> HIDE DEF verdict
    <3> QED
      BY <1>2 DEF Fields
  <2>3. r.phase \in {"report", "none"}
    BY <2>1, ReportPhase
  <2> HIDE DEF next
  <2> QED
    BY <1>1, <2>1, <2>2, <2>3, ReportGoesOn, ReportEnds
<1>4. CASE LoadManifest
  <2> DEFINE next == [r EXCEPT !.pc = "rows", !.man = manifest.data,
                               !.left = ScanDates(manifest.data)]
  <2>1. r.pc = "load" /\ (Ends("report") \/ Becomes("report", next))
    BY <1>4 DEF LoadManifest
  <2>2. next.pc = "rows" /\ next.phase = r.phase
    BY <1>2 DEF Fields
  <2>3. r.phase \in {"report", "none"}
    BY <2>1, ReportPhase
  <2> HIDE DEF next
  <2> QED
    BY <1>1, <2>1, <2>2, <2>3, ReportGoesOn, ReportEnds
<1>5. CASE LoadPartition
  <2> DEFINE over == [r EXCEPT !.left = Tail(@)]
             next == [r EXCEPT !.left = Tail(@), !.rows = With(@, d, partitions[d].data)]
  <2>1. r.pc = "rows"
        /\ (Ends("report") \/ Becomes("report", over) \/ Becomes("report", next))
    BY <1>5 DEF LoadPartition
  <2>2. next.pc = "rows" /\ next.phase = r.phase /\ over.pc = "rows" /\ over.phase = r.phase
    BY <1>2, <2>1 DEF Fields
  <2>3. r.phase \in {"report", "none"}
    BY <2>1, ReportPhase
  <2> HIDE DEF next, over
  <2> QED
    BY <1>1, <2>1, <2>2, <2>3, ReportGoesOn, ReportEnds
<1>6. CASE Loaded
  <2> DEFINE next == [r EXCEPT !.pc = "print"]
  <2>1. r.pc = "rows"
        /\ (Ends("report") \/ Becomes("report", ToStore(r)) \/ Becomes("report", next))
    BY <1>6 DEF Loaded
  <2>2. next.pc = "print" /\ next.phase = r.phase
    BY <1>2, <2>1 DEF Fields
  <2>3. r.phase \in {"report", "none"}
    BY <2>1, ReportPhase
  <2> HIDE DEF next
  <2> QED
    BY <1>1, <2>1, <2>2, <2>3, ToStoreGoesOn, ReportGoesOn, ReportEnds DEF Storage
<1>7. CASE Validate
  <2>1. Ends("report") \/ Becomes("report", ToStore(r))
    BY <1>7 DEF Validate
  <2> QED
    BY <1>1, <2>1, ToStoreGoesOn, ReportGoesOn, ReportEnds DEF Storage
<1> QED
  BY <1>3, <1>4, <1>5, <1>6, <1>7

LEMMA WorkflowSteps ==
    ASSUME Inv, ExportsInv, Begin \/ Store \/ Render \/ Announce
    PROVE  ExportsInv'
<1> DEFINE r == cmd["report"]
           stored == [r EXCEPT !.left = Tail(@)]
           begun == [r EXCEPT !.pc = "store"]
           rendered == [r EXCEPT !.pc = "publish", !.left = Published]
<1>1. UNCHANGED <<files, exported, readiness>> /\ r.pc \in Storage
  BY DEF Begin, Store, Render, Announce, Storage
<1>2. DOMAIN r = Fields
  BY FieldsOfCommands DEF Commands
<1>3. \/ Ends("report") \/ Becomes("report", stored)
      \/ Becomes("report", begun) \/ Becomes("report", rendered)
  BY DEF Begin, Store, Render, Announce, StoreFails, Fails, Stops
<1>4. /\ stored.pc = r.pc /\ stored.phase = r.phase
      /\ begun.pc = "store" /\ begun.phase = r.phase
      /\ rendered.pc = "publish" /\ rendered.phase = r.phase
  BY <1>2 DEF Fields
<1>5. r.phase \in {"report", "none"}
  BY <1>1, ReportPhase
<1> HIDE DEF stored, begun, rendered
<1> QED
  BY <1>1, <1>3, <1>4, <1>5, ReportGoesOn, ReportEnds DEF Storage

LEMMA StartSteps ==
    ASSUME Inv, ExportsInv, HistoryInv,
           StartCheck \/ StartSync \/ \E given, allow \in BOOLEAN : StartReport(given, allow)
    PROVE  ExportsInv'
<1>1. DOMAIN Idle = Fields /\ {"check", "report"} \subseteq Commands /\ {"export", "sync"} \subseteq Writes
  BY FieldsOfCommands DEF Commands, Writes
<1>2. UNCHANGED <<files, readiness>>
  BY DEF StartCheck, StartSync, StartReport
<1>3. CASE StartCheck
  <2> DEFINE new == [Idle EXCEPT !.pc = "print", !.phase = "check"]
  <2>1. CASE Exporting("check", Idle) \/ Collecting
    BY <1>1, <1>2, <2>1, ExportStarts, ExportedRowsFit DEF Exporting, Collecting
  <2>2. CASE Becomes("check", new) /\ UNCHANGED exported
    <3>1. cmd'["check"] = new /\ \A x \in Commands : x # "check" => cmd'[x] = cmd[x]
      BY <1>1, <2>2, Becoming
    <3>2. new.pc = "print" /\ new.phase = "check"
      BY DEF Idle
    <3>3. Checker'
      BY <3>1, <3>2 DEF Checker
    <3> QED
      BY <1>2, <2>2, <3>1, <3>2, <3>3, Checking
  <2> QED
    BY <1>3, <2>1, <2>2 DEF StartCheck
<1>4. CASE StartSync
  BY <1>1, <1>2, <1>4, ExportStarts, ExportedRowsFit DEF StartSync
<1>5. ASSUME NEW given \in BOOLEAN, NEW allow \in BOOLEAN, StartReport(given, allow)
      PROVE  ExportsInv'
  <2> DEFINE options == [Idle EXCEPT !.phase = "report", !.given = given, !.allow = allow]
             new == [options EXCEPT !.pc = "readiness"]
  <2>1. \/ Becomes("report", new) /\ UNCHANGED exported
        \/ metadata.is = "missing" /\ Writing("report", options, "export", ExportRows(history))
    BY <1>5 DEF StartReport, Exporting
  <2>2. DOMAIN options = Fields /\ new.pc = "readiness" /\ new.phase = "report"
    BY <1>1 DEF Idle
  <2> HIDE DEF options, new
  <2> QED
    BY <1>1, <1>2, <2>1, <2>2, ExportStarts, ExportedRowsFit, ReportGoesOn
<1> QED
  BY <1>3, <1>4, <1>5

LEMMA ExportSteps ==
    ASSUME Inv, ExportsInv, NEW c \in Commands, Export(c)
    PROVE  ExportsInv'
<1>1. CASE OpenPartition(c) \/ FillPartition(c)
  BY <1>1, WritePartition
<1>2. CASE OpenManifest(c) \/ FillManifest(c)
  BY <1>2, WriteManifest
<1>3. CASE OpenSummary(c) \/ FillSummary(c)
  BY <1>3, WriteSummary
<1>4. CASE PrintManifest(c) \/ PrintPartition(c)
  <2>1. CASE cmd[c].phase \in Writes
    BY <1>4, <2>1, PrintExport
  <2>2. CASE cmd[c].phase = "check"
    <3>1. c = "check"
      BY <2>2 DEF ExportsInv, Phased
    <3> QED
      BY <1>4, <2>2, <3>1, PrintForCheck
  <2>3. CASE cmd[c].phase \in {"report", "none"}
    BY <1>4, <2>3, PrintAside
  <2> QED
    BY <2>1, <2>2, <2>3 DEF ExportsInv, Phased
<1> QED
  BY <1>1, <1>2, <1>3, <1>4 DEF Export

LEMMA ExportsInit == Init => ExportsInv
<1> SUFFICES ASSUME Init PROVE ExportsInv
  OBVIOUS
<1>1. \A c \in Commands : cmd[c] = Idle
  BY DEF Init
<1>2. FilesInv
  BY DEF Init, FilesInv
<1>3. ReadyInv
  BY DEF Init, ReadyInv, NoVerdict
<1> QED
  BY <1>1, <1>2, <1>3
  DEF ExportsInv, Turns, Phased, Writer, Checker, Idle, Writes, Commands, Init, Missing

LEMMA ExportsNext ==
    ASSUME Inv, ExportsInv, HistoryInv, [Next]_vars
    PROVE  ExportsInv'
<1>1. ASSUME UNCHANGED <<files, exported, readiness, cmd>>
      PROVE  ExportsInv'
  <2>1. Checker' /\ Phased("check")' /\ Writer("check")'
    BY <1>1, SameExports DEF ExportsInv, Checker, Phased, Writer, files, Commands
  <2> QED
    BY <1>1, <2>1, Reading DEF Commands
<1>2. CASE \E e \in Etfs, d \in Dates : UpdateHistory(e, d)
  BY <1>1, <1>2 DEF UpdateHistory
<1>3. CASE StartCheck \/ StartSync \/ \E given, allow \in BOOLEAN : StartReport(given, allow)
  BY <1>3, StartSteps
<1>4. CASE CheckStep
  BY <1>4, ExportSteps, WriteRecord, InspectManifestStep, InspectEvidenceStep,
     ScanPartitionStep, ConcludeStep
  DEF CheckStep, Check, Commands
<1>5. CASE ReportStep
  BY <1>5, ExportSteps, GateSteps, WorkflowSteps DEF ReportStep, Report, Commands
<1>6. ASSUME NEW c \in Commands, Crash(c) PROVE ExportsInv'
  BY <1>6, Ending DEF Crash
<1>7. CASE UNCHANGED vars
  BY <1>1, <1>7 DEF vars
<1> QED
  BY <1>2, <1>3, <1>4, <1>5, <1>6, <1>7 DEF Next, Commands

\* Snapshots are added and revised; a verdict and an announcement are of the kinds there
\* are, and the counters keep to their bounds.
ValuesInv ==
    /\ HistoryInv
    /\ readiness.status \in {"none", "ready", "hold", "failed"}
    /\ announced.kind \in {"none", "stopped", "user_ready", "operator_review_only"}
    /\ updates \in 0..MaxUpdates /\ faults \in 0..MaxFaults

LEMMA ValuesInit == Init => ValuesInv
BY BoundsAssumption
   DEF Init, ValuesInv, HistoryInv, Revisions, NoVerdict, NoAnnouncement

LEMMA Updated ==
    ASSUME ValuesInv, NEW e \in Etfs, NEW d \in Dates, UpdateHistory(e, d)
    PROVE  HistoryInv' /\ updates' \in 0..MaxUpdates
<1>1. updates \in 0..MaxUpdates /\ MaxUpdates \in Nat
  BY BoundsAssumption DEF ValuesInv
<1>2. updates' \in 0..MaxUpdates
  BY <1>1 DEF UpdateHistory
<1>3. \A k \in DOMAIN history : history[k] \in Revisions
  BY DEF ValuesInv, HistoryInv
<1>4. \A k \in DOMAIN history \union {<<e, d>>} :
         (IF k # <<e, d>> THEN history[k]
          ELSE IF k \in DOMAIN history THEN 1 - history[k] ELSE 0) \in Revisions
  BY <1>3 DEF Revisions
<1> QED
  BY <1>2, <1>4 DEF UpdateHistory, ValuesInv, HistoryInv

\* A failure is counted, up to the bound.
LEMMA FaultsCount ==
    ASSUME ValuesInv, faults < MaxFaults, faults' = faults + 1
    PROVE  faults' \in 0..MaxFaults
BY BoundsAssumption DEF ValuesInv

LEMMA ValuesNext ==
    ASSUME ValuesInv, [Next]_vars
    PROVE  ValuesInv'
<1>1. ASSUME UNCHANGED <<history, readiness, announced, updates, faults>>
      PROVE  ValuesInv'
  BY <1>1 DEF ValuesInv, HistoryInv
<1>2. ASSUME NEW e \in Etfs, NEW d \in Dates, UpdateHistory(e, d) PROVE ValuesInv'
  BY <1>2, Updated DEF UpdateHistory, ValuesInv, artifacts
<1>3. CASE StartCheck \/ StartSync \/ \E given, allow \in BOOLEAN : StartReport(given, allow)
  BY <1>1, <1>3 DEF StartCheck, StartSync, StartReport, artifacts, bounds
<1>4. ASSUME NEW c \in Commands, Export(c) PROVE ValuesInv'
  BY <1>1, <1>4
  DEF Export, OpenPartition, FillPartition, OpenManifest, FillManifest, PrintManifest,
      PrintPartition, OpenSummary, FillSummary, artifacts, bounds
<1>5. CASE OpenRecord \/ FillRecord
  BY <1>1, <1>5 DEF OpenRecord, FillRecord, artifacts, bounds
<1>6. CASE InspectManifest \/ InspectEvidence \/ ScanPartition
  BY <1>1, <1>6 DEF InspectManifest, InspectEvidence, ScanPartition, artifacts, bounds
<1>7. ASSUME NEW other \in BOOLEAN, Conclude(other) PROVE ValuesInv'
  <2>1. UNCHANGED <<history, announced, updates, faults>>
        /\ readiness'.status \in {"failed", "hold", "ready"}
    BY <1>7 DEF Conclude, artifacts, bounds
  <2> QED
    BY <2>1 DEF ValuesInv, HistoryInv
<1>8. CASE ReadReadiness \/ LoadManifest \/ LoadPartition \/ Loaded \/ Validate
  BY <1>1, <1>8
  DEF ReadReadiness, LoadManifest, LoadPartition, Loaded, Validate, artifacts, bounds
<1>9. CASE Begin \/ Store \/ Render \/ Announce
  <2>1. /\ UNCHANGED <<history, readiness, updates>>
        /\ UNCHANGED faults \/ (faults < MaxFaults /\ faults' = faults + 1)
        /\ announced' \in {announced, NoAnnouncement, Stopped, Announcement(cmd["report"])}
    BY <1>9 DEF Begin, Store, Render, Announce, StoreFails, Fails, Stops, artifacts
  <2>2. announced'.kind \in {"none", "stopped", "user_ready", "operator_review_only"}
    BY <2>1 DEF ValuesInv, NoAnnouncement, Stopped, Announcement
  <2>3. faults' \in 0..MaxFaults
    BY <2>1, FaultsCount DEF ValuesInv
  <2> QED
    BY <2>1, <2>2, <2>3 DEF ValuesInv, HistoryInv
<1>10. ASSUME NEW c \in Commands, Crash(c) PROVE ValuesInv'
  <2>1. UNCHANGED <<history, readiness, announced, updates>> /\ faults' \in 0..MaxFaults
    BY <1>10, FaultsCount DEF Crash, artifacts
  <2> QED
    BY <2>1 DEF ValuesInv, HistoryInv
<1>11. CASE UNCHANGED vars
  BY <1>1, <1>11 DEF vars, artifacts, bounds
<1> QED
  BY <1>2, <1>3, <1>4, <1>5, <1>6, <1>7, <1>8, <1>9, <1>10, <1>11
  DEF Next, CheckStep, ReportStep, Check, Report, Commands

LEMMA Invariants == Spec => [](Inv /\ ExportsInv /\ ValuesInv)
<1>1. Init => Inv /\ ExportsInv /\ ValuesInv
  BY InitInv, ExportsInit, ValuesInit
<1>2. Inv /\ ExportsInv /\ ValuesInv /\ [Next]_vars => (Inv /\ ExportsInv /\ ValuesInv)'
  BY NextInv, ExportsNext, ValuesNext DEF ValuesInv
<1> QED
  BY <1>1, <1>2, PTL DEF Spec

\* The files, the verdict and what a report leaves are what they should be, and a verdict
\* that is ready compares two dates, the earlier one as the previous
\* (check_operational_readiness selects the windows from the rows it has read).
THEOREM TypeCorrect == Spec => []TypeOK
<1>1. Inv /\ ExportsInv /\ ValuesInv => TypeOK
  <2> SUFFICES ASSUME Inv, ExportsInv, ValuesInv PROVE TypeOK
    OBVIOUS
  <2>1. \A d \in Dates : partitions[d] \in {Missing, Torn} \/ partitions[d].is = "file"
    <3> SUFFICES ASSUME NEW d \in Dates
                 PROVE  partitions[d] \in {Missing, Torn} \/ partitions[d].is = "file"
      OBVIOUS
    <3>1. \/ partitions[d] \in {Missing, Opened}
          \/ partitions[d] = File(partitions[d].data)
      BY DEF ExportsInv, FilesInv
    <3>2. \A data : File(data).is = "file"
      BY DEF File
    <3> QED
      BY <3>1, <3>2 DEF Opened
  <2>2. readiness.status = "ready" =>
          readiness.previous \in 1..(readiness.current - 1) /\ readiness.current \in Dates
    <3> SUFFICES ASSUME readiness.status = "ready"
                 PROVE  readiness.previous \in 1..(readiness.current - 1)
                        /\ readiness.current \in Dates
      OBVIOUS
    <3>1. /\ DOMAIN readiness.checked \subseteq Dates /\ Eligible(readiness.checked) # {}
          /\ readiness.current = Current(readiness.checked)
          /\ readiness.previous = Previous(readiness.checked)
      BY DEF ExportsInv, ReadyInv
    <3> QED
      BY <3>1, VerdictDates
  <2> QED
    BY <2>1, <2>2 DEF TypeOK, Inv, CommandsInv, ValuesInv, HistoryInv, Succeeded
<1> QED
  BY <1>1, Invariants, PTL

\* A verdict that is ready rests on the rows of one export, never on files of several:
\* while it checks, exports and syncs may rewrite each file (_apply_collection_summary_checks
\* compares the fingerprint, _apply_metadata_checks only times and counts).
THEOREM ReadyVerdictsAreOfOneExport == Spec => []ReadyIsOneExport
<1>1. ExportsInv => ReadyIsOneExport
  BY DEF ExportsInv, ReadyInv, ReadyIsOneExport, Sound, Exported
<1> QED
  BY <1>1, Invariants, PTL

-----------------------------------------------------------------------------
(* A report for the user has the rows that its verdict was reached on: what was printed, *)
(* checked, loaded and printed again is of exports in the order of these steps.          *)

\* x was exported for the date when v was, or later.
Later(d, v, x) ==
    \E i, j \in DOMAIN exported :
        /\ i =< j /\ d \in DOMAIN exported[i] /\ d \in DOMAIN exported[j]
        /\ v = exported[i][d] /\ x = exported[j][d]

\* What the partition has is v or later.
Since(d, v) ==
    /\ d \in Dates /\ Exported(v, d) /\ partitions[d] # Missing
    /\ partitions[d] = Opened \/ Later(d, v, partitions[d].data)

\* The manifest is m or later.
ManifestSince(m) ==
    manifest = Torn \/ (manifest = File(manifest.data) /\ m.stamp =< manifest.data.stamp)

\* v was what the partition had when the check read it for its fingerprint.
Digested(d, v) ==
    /\ d \in Dates /\ partitions[d] # Missing
    /\ v = {} \/ Since(d, v)
    /\ metadata.is # "missing" => partitions[d] = File(v)

IsRows(f) == f = [d \in DOMAIN f |-> f[d]]

\* A ready verdict is on rows of the dates its manifest names, not older than those that its
\* fingerprint covers.
Supported(v) ==
    v.status = "ready" =>
        LET m == v.fp.manifest IN
        /\ IsManifest(m) /\ ManifestSince(m)
        /\ DOMAIN v.checked = ToSet(ScanDates(m)) /\ IsRows(v.checked)
        /\ \A d \in DOMAIN v.checked :
              /\ d \in DOMAIN v.fp.parts
              /\ Later(d, v.fp.parts[d], v.checked[d]) /\ Since(d, v.checked[d])

\* The check on its way to such a verdict.
CheckOf(r) ==
    r.phase = "check" =>
        /\ r.pc = "digest" =>
             /\ ManifestSince(r.man) /\ r.left \in Seq(Dates)
             /\ DOMAIN r.parts \union ToSet(r.left) = ToSet(r.man.dates)
             /\ \A d \in DOMAIN r.parts : Digested(d, r.parts[d])
        /\ r.pc = "compare" =>
             /\ ManifestSince(r.fp.manifest)
             /\ DOMAIN r.fp.parts = ToSet(r.fp.manifest.dates)
             /\ \A d \in DOMAIN r.fp.parts : Digested(d, r.fp.parts[d])
        /\ r.pc = "scan" /\ r.severity = "none" =>
             /\ IsManifest(r.fp.manifest) /\ ManifestSince(r.fp.manifest)
             /\ r.man = r.fp.manifest
             /\ DOMAIN r.fp.parts = ToSet(r.fp.manifest.dates)
             /\ \A d \in DOMAIN r.fp.parts : Digested(d, r.fp.parts[d])
             /\ metadata.is = "missing" => \A d \in DOMAIN r.fp.parts : r.fp.parts[d] # {}
             /\ DOMAIN r.parts \union ToSet(r.left) = ToSet(ScanDates(r.fp.manifest))
             /\ IsRows(r.parts)
             /\ \A d \in DOMAIN r.parts :
                   Later(d, r.fp.parts[d], r.parts[d]) /\ Since(d, r.parts[d])

\* The rows that a report has loaded by the manifest m are not older than those checked.
Loading(r, m, left) ==
    LET c == r.verdict.checked IN
    /\ IsManifest(m) /\ ManifestSince(m) /\ r.verdict.fp.manifest.stamp =< m.stamp
    /\ DOMAIN r.rows \subseteq ToSet(ScanDates(m)) /\ IsRows(r.rows)
    /\ ToSet(left) \subseteq ToSet(ScanDates(m))
    /\ ToSet(ScanDates(m)) \intersect DOMAIN c \subseteq DOMAIN r.rows \union ToSet(left)
    /\ \A d \in DOMAIN r.rows :
          Since(d, r.rows[d]) /\ (d \in DOMAIN c => Later(d, c[d], r.rows[d]))

\* A report on its way from a ready verdict to the same rows.
ReportOf(r) ==
    /\ r.pc \in {"readiness", "load"} => r.rows = << >>
    /\ r.phase \in Writes => r.verdict = NoVerdict /\ r.rows = << >>
    /\ Supported(r.verdict)
    /\ r.verdict.status = "ready" =>
         /\ r.pc \notin Storage => r.given
         /\ r.pc = "rows" => r.left \in Seq(Dates) /\ Loading(r, r.man, r.left)
         /\ r.pc = "print" => \E m : Loading(r, m, << >>)
         /\ r.pc = "digest" =>
              /\ \E m : Loading(r, m, << >>) /\ m.stamp =< r.man.stamp
              /\ IsManifest(r.man) /\ r.left \in Seq(Dates)
              /\ \A d \in DOMAIN r.parts \intersect DOMAIN r.rows :
                    r.parts[d] = {} \/ Later(d, r.rows[d], r.parts[d])
         /\ r.pc \in Storage => r.rows = r.verdict.checked

RowsInv ==
    /\ Supported(readiness)
    /\ CheckOf(cmd["check"])
    /\ ReportOf(cmd["report"])
    /\ ReportedRowsWereChecked

\* What every step leaves true: exports are kept in their order, files are of the last of
\* them or as they were, and nothing else writes to files that a check reads when there is
\* a sync's record.
Onward ==
    /\ \A m : IsManifest(m) => IsManifest(m)'
    /\ \A m : IsManifest(m) /\ ManifestSince(m) => ManifestSince(m)'
    /\ \A d, v, x : Later(d, v, x) => Later(d, v, x)'
    /\ \A d, v : Since(d, v) => Since(d, v)'
    /\ \A d \in Dates : partitions[d] # Missing => partitions'[d] # Missing
    /\ cmd["check"].phase = "check" =>
         metadata' = metadata /\ (metadata.is # "missing" => partitions' = partitions)

\* Only these steps touch what there is of exports.
LEMMA StepsOnFiles ==
    ASSUME HistoryInv, [Next]_vars
    PROVE  \/ UNCHANGED <<files, exported>>
           \/ UNCHANGED files /\ \E rows \in RowSets : exported' = Append(exported, rows)
           \/ \E c \in Commands : \/ OpenPartition(c) \/ FillPartition(c)
                                  \/ OpenManifest(c) \/ FillManifest(c)
           \/ UNCHANGED <<partitions, manifest, metadata, exported>>
           \/ OpenRecord \/ FillRecord
<1> DEFINE Goal == \/ UNCHANGED <<files, exported>>
                   \/ UNCHANGED files /\ \E rows \in RowSets : exported' = Append(exported, rows)
                   \/ \E c \in Commands : \/ OpenPartition(c) \/ FillPartition(c)
                                          \/ OpenManifest(c) \/ FillManifest(c)
                   \/ UNCHANGED <<partitions, manifest, metadata, exported>>
                   \/ OpenRecord \/ FillRecord
<1>1. ASSUME NEW e, NEW d, UpdateHistory(e, d) PROVE Goal
  BY <1>1 DEF UpdateHistory
<1>2. ASSUME StartCheck \/ StartSync \/ \E given, allow \in BOOLEAN : StartReport(given, allow)
      PROVE  Goal
  <2>1. UNCHANGED files
    BY <1>2 DEF StartCheck, StartSync, StartReport
  <2>2. UNCHANGED exported \/ \E rows \in RowSets : exported' = Append(exported, rows)
    BY <1>2, ExportedRowsFit
    DEF StartCheck, StartSync, StartReport, Exporting, Collecting, Writing
  <2> QED
    BY <2>1, <2>2
<1>3. ASSUME NEW c \in Commands, Export(c) PROVE Goal
  BY <1>3 DEF Export, PrintManifest, PrintPartition, OpenSummary, FillSummary
<1>4. ASSUME OpenRecord \/ FillRecord PROVE Goal
  BY <1>4
<1>5. ASSUME Check PROVE Goal
  BY <1>5 DEF Check, InspectManifest, InspectEvidence, ScanPartition, Conclude
<1>6. ASSUME Report PROVE Goal
  BY <1>6 DEF Report, ReadReadiness, LoadManifest, LoadPartition, Loaded, Validate, Begin,
              Store, Render, Announce
<1>7. ASSUME NEW c, Crash(c) PROVE Goal
  BY <1>7 DEF Crash
<1>8. ASSUME UNCHANGED vars PROVE Goal
  BY <1>8 DEF vars
<1> HIDE DEF Goal
<1>9. ASSUME NEW c \in Commands, Export(c) \/ Crash(c) PROVE Goal
  BY <1>3, <1>7, <1>9
<1>10. ASSUME Next PROVE Goal
  BY <1>1, <1>2, <1>4, <1>5, <1>6, <1>9, <1>10 DEF Next, CheckStep, ReportStep, Commands
<1> QED
  BY <1>8, <1>10 DEF Goal

LEMMA StepsGoOnward ==
    ASSUME Inv, ExportsInv, HistoryInv, [Next]_vars
    PROVE  Onward
<1> DEFINE Quiet == UNCHANGED <<partitions, manifest, exported>>
<1>1. FilesInv /\ Turns /\ \A c \in Commands : Phased(c) /\ Writer(c)
  BY DEF ExportsInv
<1>2. \A m : IsManifest(m) => m.stamp \in DOMAIN exported
  BY <1>1, ManifestFacts
<1>3. exported \in Seq(RowSets)
  BY <1>1 DEF FilesInv
<1>4. ASSUME Quiet, cmd["check"].phase = "check" => metadata' = metadata
      PROVE  Onward
  BY <1>4, SameExports DEF Onward, ManifestSince, Later, Since
<1>5. ASSUME UNCHANGED files, NEW rows \in RowSets, exported' = Append(exported, rows)
      PROVE  Onward
  <2>1. /\ DOMAIN exported \subseteq DOMAIN exported'
        /\ \A i \in DOMAIN exported : exported'[i] = exported[i]
        /\ \A r, d : Exported(r, d) => Exported(r, d)'
        /\ \A m : IsManifest(m) => IsManifest(m)'
    BY <1>1, <1>5, ExportsGrow
  <2>2. \A d, v, x : Later(d, v, x) => Later(d, v, x)'
    BY <2>1 DEF Later
  <2>3. \A d, v : Since(d, v) => Since(d, v)'
    BY <1>5, <2>1, <2>2 DEF Since, files
  <2> QED
    BY <1>5, <2>1, <2>2, <2>3 DEF Onward, ManifestSince, files
<1>6. ASSUME NEW c \in Commands, OpenPartition(c) \/ FillPartition(c)
      PROVE  Onward
  <2> DEFINE r == cmd[c]
             d == Head(r.left)
  <2>1. /\ UNCHANGED <<exported, manifest, metadata>> /\ r.pc \in {"open", "fill"}
        /\ r.phase \in Writes
    BY <1>1, <1>6 DEF OpenPartition, FillPartition, Phased
  <2>2. /\ r.stamp \in DOMAIN exported /\ r.out = exported[r.stamp] /\ r.stamp = Len(exported)
        /\ r.left \in Seq(DOMAIN r.out) /\ r.left # << >> /\ DOMAIN r.out \subseteq Dates
    BY <1>1, <1>6, <2>1, WriterAt DEF Writer, OpenPartition, FillPartition
  <2>3. d \in DOMAIN r.out /\ d \in Dates /\ DOMAIN partitions = Dates
    BY <1>1, <2>2, HeadAndTail DEF FilesInv
  <2>4. \/ partitions' = [partitions EXCEPT ![d] = Opened]
        \/ partitions' = [partitions EXCEPT ![d] = File(r.out[d])]
    BY <1>6 DEF OpenPartition, FillPartition
  <2>5. \A v : Exported(v, d) => Later(d, v, r.out[d])
    <3> SUFFICES ASSUME NEW v, Exported(v, d) PROVE Later(d, v, r.out[d])
      OBVIOUS
    <3>1. PICK i \in DOMAIN exported : d \in DOMAIN exported[i] /\ v = exported[i][d]
      BY DEF Exported
    <3>2. i =< r.stamp
      BY <1>3, <2>2, <3>1
    <3> QED
      BY <2>2, <2>3, <3>1, <3>2 DEF Later
  <2>d. PICK y \in Dates :
           \E w : /\ \/ partitions' = [partitions EXCEPT ![y] = Opened]
                     \/ partitions' = [partitions EXCEPT ![y] = File(w)]
                  /\ \A v : Exported(v, y) => Later(y, v, w)
    BY <2>3, <2>4, <2>5
  <2>6. PICK w : /\ \/ partitions' = [partitions EXCEPT ![y] = Opened]
                    \/ partitions' = [partitions EXCEPT ![y] = File(w)]
                 /\ \A v : Exported(v, y) => Later(y, v, w)
    BY <2>d
  <2>7. \A x, v : Since(x, v) => Since(x, v)'
    <3> SUFFICES ASSUME NEW x, NEW v, Since(x, v) PROVE Since(x, v)'
      OBVIOUS
    <3>1. x \in Dates /\ Exported(v, x)' /\ Exported(v, x) /\ partitions[x] # Missing
      BY <2>1, SameExports DEF Since
    <3>2. CASE x # y
      <4>1. partitions'[x] = partitions[x]
        BY <2>3, <2>6, <3>1, <3>2
      <4> QED
        BY <2>1, <3>1, <4>1 DEF Since, Later
    <3>3. CASE x = y
      <4>1. partitions'[x] = Opened \/ partitions'[x] = File(w)
        BY <2>3, <2>6, <3>3
      <4>2. File(w) # Missing /\ File(w).data = w /\ Opened # Missing
        BY DEF File, Missing, Opened
      <4>3. Later(x, v, w)'
        BY <2>1, <2>6, <3>1, <3>3 DEF Later
      <4> QED
        BY <3>1, <4>1, <4>2, <4>3 DEF Since
    <3> QED
      BY <3>2, <3>3
  <2>8. \A x \in Dates : partitions[x] # Missing => partitions'[x] # Missing
    BY <2>3, <2>6 DEF Opened, File, Missing
  <2>9. cmd["check"].phase = "check" => metadata.is = "missing"
    BY <1>1, <1>6, <2>1 DEF Turns, Commands, Writes
  <2> QED
    BY <2>1, <2>7, <2>8, <2>9, SameExports DEF Onward, ManifestSince, Later
<1>7. ASSUME NEW c \in Commands, OpenManifest(c) \/ FillManifest(c)
      PROVE  Onward
  <2> DEFINE r == cmd[c]
  <2>1. UNCHANGED <<exported, partitions, metadata>> /\ r.phase \in Writes
    BY <1>1, <1>7 DEF OpenManifest, FillManifest, Phased
  <2>2. r.stamp = Len(exported)
    BY <1>1, <2>1 DEF Writer
  <2>3. manifest' = Torn \/ manifest' = File(ManifestOf(r.phase, r.stamp, r.out))
    BY <1>7 DEF OpenManifest, FillManifest
  <2>4. ASSUME NEW m, IsManifest(m) PROVE ManifestSince(m)'
    <3>1. m.stamp =< r.stamp
      BY <1>2, <1>3, <2>2, <2>4
    <3> DEFINE new == ManifestOf(r.phase, r.stamp, r.out)
    <3>2. new.stamp = r.stamp
      BY DEF ManifestOf
    <3>3. File(new).data = new
      BY DEF File
    <3> HIDE DEF new, r
    <3> QED
      BY <2>3, <3>1, <3>2, <3>3 DEF ManifestSince, new
  <2> QED
    BY <2>1, <2>4, SameExports DEF Onward, Later, Since
<1>8. CASE OpenRecord \/ FillRecord
  BY <1>1, <1>4, <1>8 DEF OpenRecord, FillRecord, Phased, Writes, Commands
<1> QED
  BY <1>4, <1>5, <1>6, <1>7, <1>8, StepsOnFiles DEF files

\* What is known of a verdict, of a check that waits and of a report that waits lasts.
LEMMA SupportedLasts ==
    ASSUME Onward, NEW v, Supported(v)
    PROVE  Supported(v)'
BY DEF Supported, Onward

LEMMA DigestedLasts ==
    ASSUME Onward, cmd["check"].phase = "check", NEW d, NEW v, Digested(d, v)
    PROVE  Digested(d, v)'
<1>1. /\ d \in Dates /\ partitions'[d] # Missing
      /\ v = {} \/ Since(d, v)'
  BY DEF Digested, Onward
<1>2. metadata' = metadata /\ (metadata.is # "missing" => partitions' = partitions)
  BY DEF Onward
<1> QED
  BY <1>1, <1>2 DEF Digested

LEMMA CheckLasts ==
    ASSUME Onward, ExportsInv, CheckOf(cmd["check"]), cmd'["check"] = cmd["check"]
    PROVE  CheckOf(cmd["check"])'
<1> DEFINE r == cmd["check"]
<1>1. PICK s : s = r
  OBVIOUS
<1>2. CASE s.phase = "check"
  <2>1. s.pc = "digest" => IsManifest(s.man)
    BY <1>1, <1>2 DEF ExportsInv, Checker
  <2>2. s.pc = "compare" => IsManifest(s.fp.manifest)
    BY <1>1, <1>2 DEF ExportsInv, Checker
  <2>3. CheckOf(s)
    BY <1>1
  <2>4. /\ \A d, v : Digested(d, v) => Digested(d, v)'
        /\ \A m : IsManifest(m) => IsManifest(m)'
        /\ \A m : IsManifest(m) /\ ManifestSince(m) => ManifestSince(m)'
        /\ \A d, v, x : Later(d, v, x) => Later(d, v, x)'
        /\ \A d, v : Since(d, v) => Since(d, v)'
        /\ metadata' = metadata
    BY <1>1, <1>2, DigestedLasts DEF Onward
  <2>5. CheckOf(s)'
    BY <1>2, <2>1, <2>2, <2>3, <2>4 DEF CheckOf
  <2> QED
    BY <1>1, <2>5
<1>3. CASE s.phase # "check"
  BY <1>1, <1>3 DEF CheckOf
<1> QED
  BY <1>2, <1>3

LEMMA LoadingLasts ==
    ASSUME Onward, NEW r, NEW m, NEW left, Loading(r, m, left)
    PROVE  Loading(r, m, left)'
BY DEF Onward, Loading

LEMMA ReportLasts ==
    ASSUME Onward, ReportOf(cmd["report"]), cmd'["report"] = cmd["report"]
    PROVE  ReportOf(cmd["report"])'
<1>1. PICK s : s = cmd["report"]
  OBVIOUS
<1>2. ReportOf(s)
  BY <1>1
<1>3. /\ Supported(s.verdict) => Supported(s.verdict)'
      /\ \A m, left : Loading(s, m, left) => Loading(s, m, left)'
      /\ \A m : IsManifest(m) => IsManifest(m)'
      /\ \A d, v, x : Later(d, v, x) => Later(d, v, x)'
  BY SupportedLasts, LoadingLasts DEF Onward
<1>4. ReportOf(s)'
  BY <1>2, <1>3 DEF ReportOf
<1> QED
  BY <1>1, <1>4

\* The dates that are scanned are of the manifest, and of the calendar.
LEMMA DatesOfManifest ==
    ASSUME FilesInv, NEW m, IsManifest(m)
    PROVE  /\ ToSet(m.dates) \subseteq Dates /\ m.dates \in Seq(Dates)
           /\ ScanDates(m) \in Seq(DOMAIN m.counts) /\ ScanDates(m) \in Seq(Dates)
           /\ ToSet(ScanDates(m)) \subseteq ToSet(m.dates)
           /\ DOMAIN m.counts = ToSet(m.dates)
           /\ m.dates = Descending(DOMAIN exported[m.stamp])
<1>1. /\ m.dates \in Seq(DOMAIN m.counts) /\ ToSet(m.dates) = DOMAIN m.counts
      /\ DOMAIN m.counts \subseteq Dates
  BY ManifestFacts
<1>2. ScanDates(m) \in Seq(DOMAIN m.counts)
  BY ScannedDates
<1>3. ToSet(ScanDates(m)) \subseteq DOMAIN m.counts
  <2>1. \A s \in Seq(DOMAIN m.counts) : ToSet(s) \subseteq DOMAIN m.counts
    BY DEF ToSet
  <2> QED
    BY <1>2, <2>1
<1>4. \A s \in Seq(DOMAIN m.counts) : s \in Seq(Dates)
  BY <1>1
<1>5. m.dates = Descending(DOMAIN exported[m.stamp])
  BY DEF IsManifest, ManifestOf
<1> QED
  BY <1>1, <1>2, <1>3, <1>4, <1>5

\* What is in a partition now is later than itself and than what it is known to be since.
LEMMA ReadingNow ==
    ASSUME FilesInv, NEW d \in Dates, partitions[d] # Missing, partitions[d] # Opened
    PROVE  LET data == partitions[d].data IN
           /\ partitions[d] = File(data) /\ Exported(data, d) /\ data # {}
           /\ Later(d, data, data) /\ Since(d, data)
           /\ \A v : Since(d, v) => Later(d, v, data)
<1> DEFINE data == partitions[d].data
<1>1. partitions[d] = File(data) /\ Exported(data, d)
  BY DEF FilesInv
<1>2. Later(d, data, data)
  <2>1. exported \in Seq(RowSets)
    BY DEF FilesInv
  <2>2. PICK i \in DOMAIN exported : d \in DOMAIN exported[i] /\ data = exported[i][d]
    BY <1>1 DEF Exported
  <2>3. i =< i
    BY <2>1, <2>2
  <2> QED
    BY <2>2, <2>3 DEF Later
<1>3. data # {}
  <2>1. File({}) = Opened
    BY DEF Opened
  <2> QED
    BY <1>1, <2>1
<1> QED
  BY <1>1, <1>2, <1>3 DEF Since

\* A partition that was read for a fingerprint.
LEMMA DigestingNow ==
    ASSUME FilesInv, NEW d \in Dates, partitions[d].is = "file"
    PROVE  Digested(d, partitions[d].data)
<1>1. partitions[d] # Missing
  BY DEF Missing
<1>2. CASE partitions[d] = Opened
  <2>1. partitions[d].data = {} /\ File(partitions[d].data) = partitions[d]
    BY <1>2 DEF Opened, File
  <2> QED
    BY <1>1, <2>1 DEF Digested
<1>3. CASE partitions[d] # Opened
  BY <1>1, <1>3, ReadingNow DEF Digested
<1> QED
  BY <1>2, <1>3

\* A check that starts, exports or has ended knows nothing yet.
LEMMA CheckAtRest ==
    \A r : r.phase # "check" \/ r.pc = "print" \/ (r.pc = "scan" /\ r.severity # "none")
             => CheckOf(r)
BY DEF CheckOf

LEMMA DigestingCheck ==
    ASSUME Inv, ExportsInv, Onward, CheckOf(cmd["check"]), cmd["check"].phase = "check",
           PrintManifest("check") \/ PrintPartition("check")
    PROVE  CheckOf(cmd["check"])'
<1> DEFINE r == cmd["check"]
<1>1. /\ UNCHANGED <<files, exported>> /\ "check" \in Commands /\ DOMAIN r = Fields
      /\ FilesInv /\ Checker
  BY FieldsOfCommands DEF PrintManifest, PrintPartition, Commands, ExportsInv
<1>2. CASE Ends("check")
  <2>1. cmd'["check"] = Idle
    BY <1>1, <1>2, Becoming DEF Ends
  <2> QED
    BY <2>1 DEF Idle, CheckOf
<1>3. CASE PrintManifest("check") /\ ~Ends("check")
  <2> DEFINE new == [r EXCEPT !.pc = "digest", !.man = manifest.data,
                              !.left = manifest.data.dates, !.parts = << >>]
  <2>1. cmd'["check"] = new /\ manifest.is = "file"
    BY <1>1, <1>3, Becoming DEF PrintManifest
  <2>2. /\ cmd'["check"].pc = "digest" /\ cmd'["check"].man = manifest.data
        /\ cmd'["check"].left = manifest.data.dates /\ cmd'["check"].parts = << >>
    BY <1>1, <2>1 DEF Fields
  <2>3. manifest = File(manifest.data) /\ IsManifest(manifest.data)
    BY <1>1, <2>1 DEF FilesInv, Missing, Torn
  <2>4. ManifestSince(manifest.data)
    <3>1. manifest.data.stamp \in DOMAIN exported
      BY <1>1, <2>3, ManifestFacts
    <3>2. manifest.data.stamp =< manifest.data.stamp
      BY <1>1, <3>1 DEF FilesInv
    <3> QED
      BY <2>3, <3>2 DEF ManifestSince
  <2>5. manifest.data.dates \in Seq(Dates)
    BY <1>1, <2>3, DatesOfManifest
  <2>6. ManifestSince(manifest.data)' /\ UNCHANGED manifest
    BY <1>1, <2>4 DEF ManifestSince, files
  <2>7. DOMAIN << >> = {}
    BY NothingLeft
  <2> QED
    BY <2>2, <2>5, <2>6, <2>7 DEF CheckOf, ManifestSince
<1>4. CASE PrintPartition("check") /\ ~Ends("check")
  <2> DEFINE d == Head(r.left)
             parts == With(r.parts, d, partitions[d].data)
             new == [r EXCEPT !.left = Tail(@), !.parts = parts]
  <2>1. /\ cmd'["check"] = new /\ r.pc = "digest" /\ r.left # << >>
        /\ partitions[d].is = "file"
    BY <1>1, <1>4, Becoming DEF PrintPartition
  <2>2. /\ ManifestSince(r.man) /\ r.left \in Seq(Dates)
        /\ DOMAIN r.parts \union ToSet(r.left) = ToSet(r.man.dates)
        /\ \A x \in DOMAIN r.parts : Digested(x, r.parts[x])
        /\ IsManifest(r.man)
    BY <1>1, <2>1 DEF CheckOf, Checker
  <2>3. /\ d \in Dates /\ Tail(r.left) \in Seq(Dates)
        /\ ToSet(r.left) = {d} \union ToSet(Tail(r.left))
    BY <2>1, <2>2, HeadAndTail
  <2>4. Digested(d, partitions[d].data)
    BY <1>1, <2>1, <2>3, DigestingNow
  <2>5. /\ DOMAIN parts = DOMAIN r.parts \union {d}
        /\ \A x \in DOMAIN parts : parts[x] = IF x = d THEN partitions[d].data ELSE r.parts[x]
    BY DEF With
  <2> HIDE DEF d, parts
  <2>6. \A x \in DOMAIN parts : Digested(x, parts[x])
    BY <2>2, <2>4, <2>5
  <2>7. /\ cmd'["check"].pc = "digest" /\ cmd'["check"].man = r.man
        /\ cmd'["check"].left = Tail(r.left) /\ cmd'["check"].parts = parts
    BY <1>1, <2>1 DEF Fields
  <2>8. DOMAIN parts \union ToSet(Tail(r.left)) = ToSet(r.man.dates)
    BY <2>2, <2>3, <2>5
  <2>9. PICK m, p : m = r.man /\ p = parts
    OBVIOUS
  <2>10. ManifestSince(m)' /\ \A x \in DOMAIN p : Digested(x, p[x])'
    BY <2>2, <2>6, <2>9, DigestedLasts DEF Onward
  <2> QED
    BY <2>3, <2>7, <2>8, <2>9, <2>10 DEF CheckOf
<1> QED
  BY <1>2, <1>3, <1>4

LEMMA InspectedManifest ==
    ASSUME Inv, ExportsInv, Onward, CheckOf(cmd["check"]), InspectManifest
    PROVE  CheckOf(cmd["check"])'
<1> DEFINE r == cmd["check"]
           new == [r EXCEPT !.pc = "compare", !.man = manifest.data,
                            !.fp = Fingerprint(r.man, r.parts), !.parts = << >>]
<1>1. /\ "check" \in Commands /\ DOMAIN r = Fields /\ FilesInv /\ Checker
      /\ r.pc = "digest" /\ r.phase = "check" /\ r.left = << >>
  BY FieldsOfCommands DEF InspectManifest, Printed, Commands, ExportsInv
<1>2. CASE Ends("check")
  <2>1. cmd'["check"] = Idle
    BY <1>1, <1>2, Becoming DEF Ends
  <2> QED
    BY <2>1 DEF Idle, CheckOf
<1>3. CASE ~Ends("check")
  <2>1. cmd'["check"] = new
    BY <1>1, <1>3, Becoming DEF InspectManifest
  <2>2. /\ ManifestSince(r.man) /\ IsManifest(r.man)
        /\ DOMAIN r.parts = ToSet(r.man.dates)
        /\ \A d \in DOMAIN r.parts : Digested(d, r.parts[d])
    BY <1>1, NothingLeft DEF CheckOf, Checker
  <2>3. PICK m, p : m = r.man /\ p = r.parts
    OBVIOUS
  <2>4. ManifestSince(m)' /\ \A d \in DOMAIN p : Digested(d, p[d])'
    BY <1>1, <2>2, <2>3, DigestedLasts DEF Onward
  <2>5. /\ cmd'["check"].pc = "compare" /\ cmd'["check"].fp.manifest = m
        /\ cmd'["check"].fp.parts = p
    BY <1>1, <2>1, <2>3 DEF Fields, Fingerprint
  <2> QED
    BY <2>2, <2>3, <2>4, <2>5 DEF CheckOf
<1> QED
  BY <1>2, <1>3

\* The evidence of an export is the fingerprint of all that it wrote.
LEMMA EvidenceOfExport ==
    ASSUME FilesInv, metadata.is = "missing", summary.is = "file", NEW man, NEW fp,
           Evidence(man, fp)
    PROVE  /\ fp.manifest = man /\ IsManifest(man)
           /\ \A d \in DOMAIN fp.parts : fp.parts[d] # {}
<1>1. summary.data.manifest = man /\ summary.data.fp = fp
  BY DEF Evidence, Describes
<1>2. /\ Sound(fp) /\ man = fp.manifest /\ man.kind = "export"
  BY <1>1 DEF FilesInv, Missing, Torn
<1>3. IsManifest(man) /\ fp.parts = exported[man.stamp]
  BY <1>2 DEF Sound
<1>4. exported[man.stamp] \in RowSets
  <2>1. man.stamp \in DOMAIN exported
    BY <1>3, ManifestFacts
  <2> QED
    BY <2>1 DEF FilesInv
<1>5. \A d \in DOMAIN fp.parts : Cardinality(fp.parts[d]) # 0
  BY <1>3, <1>4, RowsFit
<1> QED
  BY <1>2, <1>3, <1>5, FS_EmptySet

LEMMA InspectedEvidence ==
    ASSUME Inv, ExportsInv, Onward, CheckOf(cmd["check"]), InspectEvidence
    PROVE  CheckOf(cmd["check"])'
<1> DEFINE r == cmd["check"]
           file == IF metadata.is = "missing" THEN summary ELSE metadata
           severity == IF file.is = "missing" THEN "hold" ELSE "none"
           new == [r EXCEPT !.pc = "scan", !.left = ScanDates(r.man), !.severity = severity]
<1>1. /\ UNCHANGED <<files, exported>> /\ "check" \in Commands /\ DOMAIN r = Fields
      /\ FilesInv /\ Checker /\ r.pc = "compare" /\ r.phase = "check"
  BY FieldsOfCommands DEF InspectEvidence, Commands, ExportsInv, Phased
<1>2. CASE Ends("check") \/ Becomes("check", Refused)
  <2>1. cmd'["check"] = Idle \/ cmd'["check"] = Refused
    BY <1>1, <1>2, Becoming DEF Ends
  <2>2. Idle.phase # "check" /\ Refused.pc = "scan" /\ Refused.severity # "none"
    BY DEF Idle, Refused
  <2> QED
    BY <2>1, <2>2 DEF CheckOf
<1>3. CASE ~Ends("check") /\ ~Becomes("check", Refused)
  <2>1. Becomes("check", new) /\ file.is # "torn"
        /\ (file.is = "file" => Evidence(r.man, r.fp))
    BY <1>3 DEF InspectEvidence
  <2>2. cmd'["check"] = new
    BY <1>1, <2>1, Becoming
  <2>3. /\ cmd'["check"].pc = "scan" /\ cmd'["check"].man = r.man
        /\ cmd'["check"].parts = r.parts /\ cmd'["check"].fp = r.fp
        /\ cmd'["check"].left = ScanDates(r.man) /\ cmd'["check"].severity = severity
    <3> HIDE DEF severity
    <3> QED
      BY <1>1, <2>2 DEF Fields
  <2>4. CASE severity # "none"
    <3> HIDE DEF severity
    <3> QED
      BY <2>3, <2>4 DEF CheckOf
  <2>5. CASE severity = "none"
    <3>1. file.is = "file" /\ Evidence(r.man, r.fp)
      BY <1>1, <2>1, <2>5 DEF FilesInv, Missing, Torn, File
    <3>2. /\ IsManifest(r.man) /\ IsManifest(r.fp.manifest) /\ r.parts = << >>
          /\ metadata.is # "missing" => r.fp.manifest = r.man
      BY <1>1 DEF Checker
    <3>3. metadata.is = "missing" =>
            r.fp.manifest = r.man /\ \A d \in DOMAIN r.fp.parts : r.fp.parts[d] # {}
      BY <1>1, <3>1, EvidenceOfExport
    <3>4. /\ ManifestSince(r.fp.manifest) /\ DOMAIN r.fp.parts = ToSet(r.fp.manifest.dates)
          /\ \A d \in DOMAIN r.fp.parts : Digested(d, r.fp.parts[d])
      BY <1>1 DEF CheckOf
    <3>5. PICK fp : fp = r.fp
      OBVIOUS
    <3>6. /\ IsManifest(fp.manifest)' /\ ManifestSince(fp.manifest)'
          /\ \A d \in DOMAIN fp.parts : Digested(d, fp.parts[d])'
      BY <1>1, <3>2, <3>4, <3>5, DigestedLasts DEF Onward
    <3>7. DOMAIN << >> = {} /\ IsRows(<< >>)
      BY NothingLeft DEF IsRows
    <3>8. /\ r.man = fp.manifest
          /\ metadata'.is = "missing" => \A d \in DOMAIN fp.parts : fp.parts[d] # {}
          /\ DOMAIN fp.parts = ToSet(fp.manifest.dates)
      BY <1>1, <3>2, <3>3, <3>4, <3>5 DEF files
    <3> HIDE DEF severity, file
    <3>9. /\ cmd'["check"].pc = "scan" /\ cmd'["check"].man = fp.manifest
          /\ cmd'["check"].parts = << >> /\ cmd'["check"].fp = fp
          /\ cmd'["check"].left = ScanDates(fp.manifest)
      BY <2>3, <3>2, <3>5, <3>8
    <3> QED
      BY <3>6, <3>7, <3>8, <3>9 DEF CheckOf
  <2> QED
    BY <2>4, <2>5
<1> QED
  BY <1>2, <1>3

LEMMA ScannedPartition ==
    ASSUME Inv, ExportsInv, Onward, CheckOf(cmd["check"]), ScanPartition
    PROVE  CheckOf(cmd["check"])'
<1> DEFINE r == cmd["check"]
           d == Head(r.left)
           over == [r EXCEPT !.left = Tail(@)]
           data == partitions[d].data
           parts == With(r.parts, d, data)
           read == [r EXCEPT !.left = Tail(@), !.parts = parts]
<1>1. /\ UNCHANGED <<files, exported>> /\ "check" \in Commands /\ DOMAIN r = Fields
      /\ FilesInv /\ Checker /\ r.pc = "scan" /\ r.phase = "check" /\ r.left # << >>
  BY FieldsOfCommands DEF ScanPartition, Commands, ExportsInv, Phased
<1>2. \/ Becomes("check", over) /\ partitions[d].is = "missing"
      \/ Becomes("check", read) /\ Readable(r.man, d)
      \/ Becomes("check", Refused)
  BY DEF ScanPartition
<1>3. CASE Becomes("check", Refused)
  <2>1. cmd'["check"] = Refused
    BY <1>1, <1>3, Becoming
  <2>2. Refused.pc = "scan" /\ Refused.severity # "none"
    BY DEF Idle, Refused
  <2> QED
    BY <2>1, <2>2 DEF CheckOf
<1>4. CASE r.severity # "none" /\ ~Becomes("check", Refused)
  <2>1. cmd'["check"] = over \/ cmd'["check"] = read
    BY <1>1, <1>2, <1>4, Becoming
  <2>2. /\ over.pc = "scan" /\ over.severity = r.severity
        /\ read.pc = "scan" /\ read.severity = r.severity
    <3> HIDE DEF parts
    <3> QED
      BY <1>1 DEF Fields
  <2> HIDE DEF over, read
  <2> QED
    BY <1>4, <2>1, <2>2 DEF CheckOf
<1>5. CASE r.severity = "none" /\ ~Becomes("check", Refused)
  <2>1. /\ IsManifest(r.fp.manifest) /\ ManifestSince(r.fp.manifest)
        /\ r.man = r.fp.manifest
        /\ DOMAIN r.fp.parts = ToSet(r.fp.manifest.dates)
        /\ \A x \in DOMAIN r.fp.parts : Digested(x, r.fp.parts[x])
        /\ metadata.is = "missing" => \A x \in DOMAIN r.fp.parts : r.fp.parts[x] # {}
        /\ DOMAIN r.parts \union ToSet(r.left) = ToSet(ScanDates(r.fp.manifest))
        /\ IsRows(r.parts)
        /\ \A x \in DOMAIN r.parts :
              Later(x, r.fp.parts[x], r.parts[x]) /\ Since(x, r.parts[x])
    BY <1>1, <1>5 DEF CheckOf
  <2>2. IsManifest(r.man) /\ r.left \in Seq(DOMAIN r.man.counts)
    BY <1>1 DEF Checker
  <2>3. /\ d \in DOMAIN r.man.counts /\ Tail(r.left) \in Seq(DOMAIN r.man.counts)
        /\ ToSet(r.left) = {d} \union ToSet(Tail(r.left))
    BY <1>1, <2>2, HeadAndTail
  <2>4. d \in DOMAIN r.fp.parts /\ d \in Dates
    BY <1>1, <2>1, <2>2, <2>3, DatesOfManifest
  <2>5. Digested(d, r.fp.parts[d])
    BY <2>1, <2>4
  <2>6. partitions[d] # Missing /\ partitions[d].is # "missing"
    BY <1>1, <2>4, <2>5 DEF Digested, FilesInv, Missing, Opened, File
  <2>7. Becomes("check", read) /\ Readable(r.man, d)
    BY <1>2, <1>5, <2>6
  <2>8. partitions[d] # Opened
    <3>1. \A x \in DOMAIN r.man.counts : r.man.counts[x] # 0
      BY <1>1, <2>2, ManifestFacts
    <3>2. Cardinality(partitions[d].data) # 0
      BY <2>3, <2>7, <3>1 DEF Readable
    <3> QED
      BY <3>2, FS_EmptySet DEF Opened, File
  <2>9. /\ partitions[d] = File(data) /\ Later(d, data, data) /\ Since(d, data)
        /\ \A v : Since(d, v) => Later(d, v, data)
    BY <1>1, <2>4, <2>6, <2>8, ReadingNow
  <2>10. Later(d, r.fp.parts[d], data)
    <3>1. CASE metadata.is = "missing"
      BY <2>1, <2>4, <2>5, <2>9, <3>1 DEF Digested
    <3>2. CASE metadata.is # "missing"
      <4>1. File(r.fp.parts[d]) = File(data)
        BY <2>5, <2>9, <3>2 DEF Digested
      <4>2. r.fp.parts[d] = data
        BY <4>1 DEF File
      <4> QED
        BY <2>9, <4>2
    <3> QED
      BY <3>1, <3>2
  <2>11. /\ DOMAIN parts = DOMAIN r.parts \union {d} /\ IsRows(parts)
         /\ \A x \in DOMAIN parts : parts[x] = IF x = d THEN data ELSE r.parts[x]
    BY DEF With, IsRows
  <2>12. cmd'["check"] = read
    BY <1>1, <2>7, Becoming
  <2> HIDE DEF parts, data
  <2>13. /\ cmd'["check"].pc = "scan" /\ cmd'["check"].man = r.man
         /\ cmd'["check"].fp = r.fp /\ cmd'["check"].left = Tail(r.left)
         /\ cmd'["check"].parts = parts
    BY <1>1, <2>12 DEF Fields
  <2> HIDE DEF d
  <2>14. \A x \in DOMAIN parts : Later(x, r.fp.parts[x], parts[x]) /\ Since(x, parts[x])
    BY <2>1, <2>9, <2>10, <2>11
  <2>15. DOMAIN parts \union ToSet(Tail(r.left)) = ToSet(ScanDates(r.fp.manifest))
    BY <2>1, <2>3, <2>11
  <2>16. PICK fp, p : fp = r.fp /\ p = parts
    OBVIOUS
  <2>17. /\ IsManifest(fp.manifest)' /\ ManifestSince(fp.manifest)'
         /\ \A x \in DOMAIN fp.parts : Digested(x, fp.parts[x])'
         /\ \A x \in DOMAIN p : Later(x, fp.parts[x], p[x])' /\ Since(x, p[x])'
    BY <1>1, <2>1, <2>14, <2>16, DigestedLasts DEF Onward
  <2>18. metadata' = metadata
    BY <1>1 DEF files
  <2> QED
    BY <2>1, <2>11, <2>13, <2>15, <2>16, <2>17, <2>18 DEF CheckOf
<1> QED
  BY <1>3, <1>4, <1>5

\* A verdict that the check reaches is supported by what it has read.
LEMMA ConcludedSupported ==
    ASSUME Inv, ExportsInv, Onward, CheckOf(cmd["check"]), NEW other \in BOOLEAN,
           Conclude(other)
    PROVE  Supported(readiness)' /\ CheckOf(cmd["check"])'
<1> DEFINE r == cmd["check"]
<1>1. /\ UNCHANGED exported /\ "check" \in Commands /\ Ends("check")
      /\ r.pc = "scan" /\ r.phase = "check" /\ r.left = << >> /\ Checker
  BY DEF Conclude, ExportsInv, Phased, Commands
<1>2. CheckOf(cmd["check"])'
  <2>1. cmd'["check"] = Idle
    BY <1>1, Becoming DEF Ends
  <2> QED
    BY <2>1 DEF Idle, CheckOf
<1>3. ASSUME readiness'.status = "ready" PROVE Supported(readiness)'
  <2>1. /\ r.severity # "failed" /\ r.severity # "hold"
        /\ readiness'.fp = r.fp /\ readiness'.checked = r.parts
    BY <1>3 DEF Conclude
  <2>2. r.severity = "none"
    BY <1>1, <2>1 DEF Checker
  <2>3. /\ IsManifest(r.fp.manifest) /\ ManifestSince(r.fp.manifest)
        /\ DOMAIN r.fp.parts = ToSet(r.fp.manifest.dates)
        /\ DOMAIN r.parts = ToSet(ScanDates(r.fp.manifest)) /\ IsRows(r.parts)
        /\ \A d \in DOMAIN r.parts :
              Later(d, r.fp.parts[d], r.parts[d]) /\ Since(d, r.parts[d])
    BY <1>1, <2>2, NothingLeft DEF CheckOf
  <2>4. DOMAIN r.parts \subseteq DOMAIN r.fp.parts
    BY <2>3, DatesOfManifest DEF ExportsInv
  <2>5. PICK fp, p : fp = r.fp /\ p = r.parts
    OBVIOUS
  <2>6. /\ IsManifest(fp.manifest)' /\ ManifestSince(fp.manifest)'
        /\ \A d \in DOMAIN p : Later(d, fp.parts[d], p[d])' /\ Since(d, p[d])'
    BY <2>3, <2>5 DEF Onward
  <2> QED
    BY <2>1, <2>3, <2>4, <2>5, <2>6 DEF Supported
<1> QED
  BY <1>2, <1>3 DEF Supported

\* No step leaves a check that knows more than it has read, or an unsupported verdict.
LEMMA ChecksKeepTrack ==
    ASSUME Inv, ExportsInv, HistoryInv, Onward, Supported(readiness), CheckOf(cmd["check"]),
           [Next]_vars
    PROVE  Supported(readiness)' /\ CheckOf(cmd["check"])'
<1> DEFINE r == cmd["check"]
<1>1. ASSUME readiness' = readiness
      PROVE  Supported(readiness)'
  <2>1. PICK v : v = readiness
    OBVIOUS
  <2> QED
    BY <1>1, <2>1, SupportedLasts
<1>2. ASSUME NEW new, Becomes("check", new), new.phase # "check" \/ new.pc = "print"
      PROVE  CheckOf(cmd["check"])'
  <2>1. cmd'["check"] = new
    BY <1>2, Becoming DEF Commands
  <2> QED
    BY <1>2, <2>1 DEF CheckOf
<1>3. "check" \in Commands /\ DOMAIN Idle = Fields /\ Idle.phase = "none" /\ DOMAIN r = Fields
  BY FieldsOfCommands DEF Commands, Idle
<1>4. ASSUME Ends("check") PROVE CheckOf(cmd["check"])'
  BY <1>2, <1>3, <1>4 DEF Ends
<1>5. ASSUME NEW phase \in Writes, NEW rows, Writing("check", Idle, phase, rows)
      PROVE  CheckOf(cmd["check"])'
  <2> DEFINE new == [Idle EXCEPT !.pc = "open", !.phase = phase,
                        !.left = Descending(DOMAIN rows), !.out = rows,
                        !.stamp = Len(exported) + 1]
  <2>1. Becomes("check", new)
    BY <1>5 DEF Writing
  <2>2. new.phase = phase /\ phase # "check"
    BY <1>3 DEF Fields, Writes
  <2> HIDE DEF new
  <2> QED
    BY <1>2, <2>1, <2>2
<1>6. ASSUME cmd'["check"] = cmd["check"] PROVE CheckOf(cmd["check"])'
  BY <1>6, CheckLasts
<1>7. CASE \E e \in Etfs, d \in Dates : UpdateHistory(e, d)
  BY <1>1, <1>6, <1>7 DEF UpdateHistory
<1>8. CASE StartCheck \/ StartSync
  <2> DEFINE new == [Idle EXCEPT !.pc = "print", !.phase = "check"]
  <2>1. readiness' = readiness
    BY <1>8 DEF StartCheck, StartSync
  <2>2. Becomes("check", new)
        \/ \E phase \in Writes : \E rows : Writing("check", Idle, phase, rows)
    BY <1>8 DEF StartCheck, StartSync, Exporting, Collecting, Writes
  <2>3. new.pc = "print"
    BY <1>3 DEF Fields
  <2> HIDE DEF new
  <2> QED
    BY <1>1, <1>2, <1>5, <2>1, <2>2, <2>3
<1>9. ASSUME Export("check") PROVE Supported(readiness)' /\ CheckOf(cmd["check"])'
  <2>1. readiness' = readiness
    BY <1>9 DEF Export, OpenPartition, FillPartition, OpenManifest, FillManifest,
                PrintManifest, PrintPartition, OpenSummary, FillSummary
  <2>2. ASSUME r.phase # "check" PROVE CheckOf(cmd["check"])'
    <3>1. ASSUME NEW new, Becomes("check", new), new.phase = r.phase \/ new.pc = "print"
          PROVE  CheckOf(cmd["check"])'
      BY <1>2, <2>2, <3>1
    <3>2. CASE OpenPartition("check") \/ OpenManifest("check") \/ OpenSummary("check")
      <4> DEFINE new(pc) == [r EXCEPT !.pc = pc]
      <4>1. \E pc : Becomes("check", new(pc))
        BY <3>2 DEF OpenPartition, OpenManifest, OpenSummary
      <4>2. \A pc : new(pc).phase = r.phase
        BY <1>3 DEF Fields
      <4> HIDE DEF new
      <4> QED
        BY <3>1, <4>1, <4>2
    <3>3. CASE FillPartition("check")
      <4> DEFINE new == [r EXCEPT !.pc = "open", !.left = Tail(@)]
      <4>1. Becomes("check", new)
        BY <3>3 DEF FillPartition
      <4>2. new.phase = r.phase
        BY <1>3 DEF Fields
      <4> HIDE DEF new
      <4> QED
        BY <3>1, <4>1, <4>2
    <3>4. CASE FillManifest("check")
      <4> DEFINE new == [r EXCEPT !.pc = IF r.phase = "sync" THEN "record" ELSE "print"]
      <4>1. Becomes("check", new)
        BY <3>4 DEF FillManifest
      <4>2. new.phase = r.phase
        BY <1>3 DEF Fields
      <4> HIDE DEF new
      <4> QED
        BY <3>1, <4>1, <4>2
    <3>5. CASE FillSummary("check")
      <4> DEFINE new == [Idle EXCEPT !.pc = IF "check" = "check" THEN "print" ELSE "readiness",
                             !.phase = "check", !.given = r.given, !.allow = r.allow]
      <4>1. Becomes("check", new)
        BY <3>5 DEF FillSummary
      <4>2. new.pc = "print"
        BY <1>3 DEF Fields
      <4> HIDE DEF new
      <4> QED
        BY <3>1, <4>1, <4>2
    <3>6. CASE PrintManifest("check")
      <4> DEFINE new == [r EXCEPT !.pc = "digest", !.man = manifest.data,
                                  !.left = manifest.data.dates, !.parts = << >>]
      <4>1. Ends("check") \/ Becomes("check", new)
        BY <3>6 DEF PrintManifest
      <4>2. new.phase = r.phase
        BY <1>3 DEF Fields
      <4> HIDE DEF new
      <4> QED
        BY <1>4, <3>1, <4>1, <4>2
    <3>7. CASE PrintPartition("check")
      <4> DEFINE parts == With(r.parts, Head(r.left), partitions[Head(r.left)].data)
                 new == [r EXCEPT !.left = Tail(@), !.parts = parts]
      <4>1. Ends("check") \/ Becomes("check", new)
        BY <3>7 DEF PrintPartition
      <4> HIDE DEF parts
      <4>2. new.phase = r.phase
        BY <1>3 DEF Fields
      <4> HIDE DEF new
      <4> QED
        BY <1>4, <3>1, <4>1, <4>2
    <3> QED
      BY <1>9, <3>2, <3>3, <3>4, <3>5, <3>6, <3>7 DEF Export
  <2>3. CASE r.phase = "check"
    <3>1. PrintManifest("check") \/ PrintPartition("check")
      <4>1. Phased("check")
        BY <1>3 DEF ExportsInv
      <4> QED
        BY <1>9, <2>3, <4>1 DEF Export, OpenPartition, FillPartition, OpenManifest,
           FillManifest, OpenSummary, FillSummary, Printed, Phased
    <3> QED
      BY <1>1, <2>1, <2>3, <3>1, DigestingCheck
  <2> QED
    BY <1>1, <2>1, <2>2, <2>3
<1>10. CASE OpenRecord \/ FillRecord
  <2> DEFINE new == [r EXCEPT !.pc = "fill_record"]
  <2>1. readiness' = readiness /\ (Ends("check") \/ Becomes("check", new))
    BY <1>10 DEF OpenRecord, FillRecord
  <2>2. new.phase = r.phase /\ new.pc = "fill_record"
    BY <1>3 DEF Fields
  <2>3. r.phase # "check"
    <3>1. Phased("check") /\ r.pc \in {"record", "fill_record"}
      BY <1>3, <1>10 DEF ExportsInv, OpenRecord, FillRecord
    <3> QED
      BY <3>1 DEF Phased
  <2> HIDE DEF new
  <2> QED
    BY <1>1, <1>2, <1>4, <2>1, <2>2, <2>3
<1>11. CASE Check
  <2>1. CASE \E o \in BOOLEAN : Conclude(o)
    BY <2>1, ConcludedSupported
  <2>2. CASE InspectManifest \/ InspectEvidence \/ ScanPartition
    <3>1. readiness' = readiness
      BY <2>2 DEF InspectManifest, InspectEvidence, ScanPartition
    <3> QED
      BY <1>1, <2>2, <3>1, InspectedManifest, InspectedEvidence, ScannedPartition
  <2> QED
    BY <1>11, <2>1, <2>2 DEF Check
<1>12. CASE Crash("check")
  BY <1>1, <1>4, <1>12 DEF Crash
<1>13. ASSUME NEW new, Becomes("report", new), readiness' = readiness
       PROVE  Supported(readiness)' /\ CheckOf(cmd["check"])'
  BY <1>1, <1>6, <1>13, Becoming DEF Commands
<1>14. CASE ReportStep \/ Crash("report")
            \/ \E given, allow \in BOOLEAN : StartReport(given, allow)
  <2>1. /\ readiness' = readiness
        /\ \E new : Becomes("report", new)
    BY <1>14
    DEF ReportStep, Report, Export, OpenPartition, FillPartition, OpenManifest, FillManifest,
        PrintManifest, PrintPartition, OpenSummary, FillSummary, ReadReadiness, LoadManifest,
        LoadPartition, Loaded, Validate, Begin, Store, StoreFails, Render, Announce, Fails, Stops,
        Crash, Ends, StartReport, Exporting, Writing
  <2> QED
    BY <1>13, <2>1
<1>15. CASE UNCHANGED vars
  BY <1>1, <1>6, <1>15 DEF vars
<1> QED
  BY <1>7, <1>8, <1>9, <1>10, <1>11, <1>12, <1>14, <1>15 DEF Next, CheckStep

\* A report becomes what its step says, and what holds of that lasts through the step.
LEMMA ReportBecomes ==
    ASSUME Inv, Onward, NEW s, Becomes("report", s), ReportOf(s)
    PROVE  ReportOf(cmd["report"])'
<1>1. cmd'["report"] = s
  BY Becoming DEF Commands
<1>2. /\ Supported(s.verdict) => Supported(s.verdict)'
      /\ \A m, left : Loading(s, m, left) => Loading(s, m, left)'
      /\ \A m : IsManifest(m) => IsManifest(m)'
      /\ \A d, v, x : Later(d, v, x) => Later(d, v, x)'
  BY SupportedLasts, LoadingLasts DEF Onward
<1>3. ReportOf(s)'
  BY <1>2 DEF ReportOf
<1> QED
  BY <1>1, <1>3

\* A report without a verdict or rows has nothing to show for yet.
LEMMA ReportWithoutRows ==
    ASSUME NEW s, s.verdict = NoVerdict, s.rows = << >>
    PROVE  ReportOf(s)
BY DEF ReportOf, Supported, NoVerdict

LEMMA IdleReport == ReportOf(Idle) /\ DOMAIN Idle = Fields
BY ReportWithoutRows DEF Idle, Fields

LEMMA ReportThatEnds ==
    ASSUME Inv, Onward, Ends("report")
    PROVE  ReportOf(cmd["report"])'
BY IdleReport, ReportBecomes DEF Ends

\* What is loaded depends on the rows and the verdict alone.
LEMMA LoadingSame ==
    ASSUME NEW r, NEW s, s.rows = r.rows, s.verdict = r.verdict, NEW m, NEW left,
           Loading(r, m, left)
    PROVE  Loading(s, m, left)
BY DEF Loading

LEMMA ExportingReport ==
    ASSUME Inv, ExportsInv, Onward, ReportOf(cmd["report"]), Export("report"),
           cmd["report"].phase \in Writes
    PROVE  ReportOf(cmd["report"])'
<1> DEFINE r == cmd["report"]
<1>1. DOMAIN r = Fields /\ DOMAIN Idle = Fields
  BY FieldsOfCommands DEF Commands
<1>2. r.verdict = NoVerdict /\ r.rows = << >> /\ Idle.verdict = NoVerdict /\ Idle.rows = << >>
  BY DEF ReportOf, Idle
<1>3. ASSUME NEW new, Becomes("report", new), new.verdict = NoVerdict, new.rows = << >>
      PROVE  ReportOf(cmd["report"])'
  BY <1>3, ReportWithoutRows, ReportBecomes
<1>4. CASE OpenPartition("report") \/ OpenManifest("report") \/ OpenSummary("report")
  <2> DEFINE new(pc) == [r EXCEPT !.pc = pc]
  <2>1. \E pc : Becomes("report", new(pc))
    BY <1>4 DEF OpenPartition, OpenManifest, OpenSummary
  <2>2. \A pc : new(pc).verdict = NoVerdict /\ new(pc).rows = << >>
    BY <1>1, <1>2 DEF Fields
  <2> HIDE DEF new
  <2> QED
    BY <1>3, <2>1, <2>2
<1>5. CASE FillPartition("report")
  <2> DEFINE new == [r EXCEPT !.pc = "open", !.left = Tail(@)]
  <2>1. Becomes("report", new)
    BY <1>5 DEF FillPartition
  <2>2. new.verdict = NoVerdict /\ new.rows = << >>
    BY <1>1, <1>2 DEF Fields
  <2> HIDE DEF new
  <2> QED
    BY <1>3, <2>1, <2>2
<1>6. CASE FillManifest("report")
  <2> DEFINE new == [r EXCEPT !.pc = IF r.phase = "sync" THEN "record" ELSE "print"]
  <2>1. Becomes("report", new)
    BY <1>6 DEF FillManifest
  <2>2. new.verdict = NoVerdict /\ new.rows = << >>
    BY <1>1, <1>2 DEF Fields
  <2> HIDE DEF new
  <2> QED
    BY <1>3, <2>1, <2>2
<1>7. CASE FillSummary("report")
  <2> DEFINE new == [Idle EXCEPT !.pc = IF "report" = "check" THEN "print" ELSE "readiness",
                         !.phase = "report", !.given = r.given, !.allow = r.allow]
  <2>1. Becomes("report", new)
    BY <1>7 DEF FillSummary
  <2>2. new.verdict = NoVerdict /\ new.rows = << >>
    BY <1>1, <1>2 DEF Fields
  <2> HIDE DEF new
  <2> QED
    BY <1>3, <2>1, <2>2
<1>8. CASE PrintManifest("report")
  <2> DEFINE new == [r EXCEPT !.pc = "digest", !.man = manifest.data,
                              !.left = manifest.data.dates, !.parts = << >>]
  <2>1. Ends("report") \/ Becomes("report", new)
    BY <1>8 DEF PrintManifest
  <2>2. new.verdict = NoVerdict /\ new.rows = << >>
    BY <1>1, <1>2 DEF Fields
  <2> HIDE DEF new
  <2> QED
    BY <1>3, <2>1, <2>2, ReportThatEnds
<1>9. CASE PrintPartition("report")
  <2> DEFINE parts == With(r.parts, Head(r.left), partitions[Head(r.left)].data)
             new == [r EXCEPT !.left = Tail(@), !.parts = parts]
  <2>1. Ends("report") \/ Becomes("report", new)
    BY <1>9 DEF PrintPartition
  <2> HIDE DEF parts
  <2>2. new.verdict = NoVerdict /\ new.rows = << >>
    BY <1>1, <1>2 DEF Fields
  <2> HIDE DEF new
  <2> QED
    BY <1>3, <2>1, <2>2, ReportThatEnds
<1> QED
  BY <1>4, <1>5, <1>6, <1>7, <1>8, <1>9 DEF Export

\* The report's own fingerprint: of a manifest and of partitions that are not older than
\* what it has loaded.
LEMMA DigestingReport ==
    ASSUME Inv, ExportsInv, Onward, ReportOf(cmd["report"]),
           PrintManifest("report") \/ PrintPartition("report"),
           cmd["report"].phase \notin Writes
    PROVE  ReportOf(cmd["report"])'
<1> DEFINE r == cmd["report"]
<1>1. DOMAIN r = Fields /\ FilesInv /\ r.pc \in {"print", "digest"}
  BY FieldsOfCommands DEF Commands, ExportsInv, PrintManifest, PrintPartition
<1>2. CASE PrintManifest("report") /\ ~Ends("report")
  <2> DEFINE new == [r EXCEPT !.pc = "digest", !.man = manifest.data,
                              !.left = manifest.data.dates, !.parts = << >>]
  <2>1. Becomes("report", new) /\ manifest.is = "file" /\ r.pc = "print"
    BY <1>2 DEF PrintManifest
  <2>2. /\ new.pc = "digest" /\ new.man = manifest.data /\ new.left = manifest.data.dates
        /\ new.parts = << >> /\ new.phase = r.phase /\ new.verdict = r.verdict
        /\ new.rows = r.rows /\ new.given = r.given
    BY <1>1 DEF Fields
  <2>3. IsManifest(manifest.data) /\ manifest # Torn
    BY <1>1, <2>1 DEF FilesInv, Missing, Torn
  <2>4. manifest.data.dates \in Seq(Dates)
    BY <1>1, <2>3, DatesOfManifest
  <2>5. DOMAIN << >> = {}
    BY NothingLeft
  <2> HIDE DEF new
  <2>6. r.verdict.status = "ready" =>
          \E m : Loading(new, m, << >>) /\ m.stamp =< manifest.data.stamp
    <3> SUFFICES ASSUME r.verdict.status = "ready"
                 PROVE  \E m : Loading(new, m, << >>) /\ m.stamp =< manifest.data.stamp
      OBVIOUS
    <3>1. PICK m : Loading(r, m, << >>)
      BY <2>1 DEF ReportOf
    <3>2. Loading(new, m, << >>)
      BY <2>2, <3>1, LoadingSame
    <3>3. m.stamp =< manifest.data.stamp
      BY <2>3, <3>1 DEF Loading, ManifestSince
    <3> QED
      BY <3>2, <3>3
  <2>7. ReportOf(new)
    BY <2>1, <2>2, <2>3, <2>4, <2>5, <2>6 DEF ReportOf, Storage
  <2> QED
    BY <2>1, <2>7, ReportBecomes
<1>3. CASE PrintPartition("report") /\ ~Ends("report")
  <2> DEFINE d == Head(r.left)
             data == partitions[d].data
             parts == With(r.parts, d, data)
             new == [r EXCEPT !.left = Tail(@), !.parts = parts]
  <2>1. /\ Becomes("report", new) /\ partitions[d].is = "file" /\ r.pc = "digest"
        /\ r.left # << >>
    BY <1>3 DEF PrintPartition
  <2>2. /\ DOMAIN parts = DOMAIN r.parts \union {d}
        /\ \A x \in DOMAIN parts : parts[x] = IF x = d THEN data ELSE r.parts[x]
    BY DEF With
  <2> HIDE DEF parts
  <2>3. /\ new.pc = "digest" /\ new.man = r.man /\ new.left = Tail(r.left)
        /\ new.parts = parts /\ new.phase = r.phase /\ new.verdict = r.verdict
        /\ new.rows = r.rows /\ new.given = r.given
    BY <1>1, <2>1 DEF Fields
  <2> HIDE DEF new
  <2>4. CASE r.verdict.status = "ready"
    <3>1. PICK m : Loading(r, m, << >>) /\ m.stamp =< r.man.stamp
      BY <2>1, <2>4 DEF ReportOf
    <3>2. /\ IsManifest(r.man) /\ r.left \in Seq(Dates) /\ r.given
          /\ \A x \in DOMAIN r.parts \intersect DOMAIN r.rows :
                r.parts[x] = {} \/ Later(x, r.rows[x], r.parts[x])
      BY <2>1, <2>4 DEF ReportOf, Storage
    <3>3. d \in Dates /\ Tail(r.left) \in Seq(Dates)
      BY <2>1, <3>2, HeadAndTail
    <3>4. d \in DOMAIN r.rows => data = {} \/ Later(d, r.rows[d], data)
      <4>1. CASE partitions[d] = Opened
        BY <4>1 DEF Opened, File
      <4>2. CASE partitions[d] # Opened
        <5>1. partitions[d] # Missing
          BY <2>1 DEF Missing
        <5>2. \A v : Since(d, v) => Later(d, v, data)
          BY <1>1, <3>3, <4>2, <5>1, ReadingNow
        <5>3. d \in DOMAIN r.rows => Since(d, r.rows[d])
          BY <3>1 DEF Loading
        <5> QED
          BY <5>2, <5>3
      <4> QED
        BY <4>1, <4>2
    <3> HIDE DEF d, data
    <3>5. \A x \in DOMAIN parts \intersect DOMAIN r.rows :
             parts[x] = {} \/ Later(x, r.rows[x], parts[x])
      BY <2>2, <3>2, <3>4
    <3>6. Loading(new, m, << >>)
      BY <2>3, <3>1, LoadingSame
    <3>7. ReportOf(new)
      BY <2>3, <3>1, <3>2, <3>3, <3>5, <3>6 DEF ReportOf, Storage
    <3> QED
      BY <2>1, <3>7, ReportBecomes
  <2>5. CASE r.verdict.status # "ready"
    <3>1. ReportOf(new)
      BY <2>3, <2>5 DEF ReportOf
    <3> QED
      BY <2>1, <3>1, ReportBecomes
  <2> QED
    BY <2>4, <2>5
<1> QED
  BY <1>2, <1>3, ReportThatEnds

LEMMA LoadingSteps ==
    ASSUME Inv, ExportsInv, Onward, Supported(readiness), ReportOf(cmd["report"]),
           ReadReadiness \/ LoadManifest \/ LoadPartition \/ Loaded
    PROVE  ReportOf(cmd["report"])'
<1> DEFINE r == cmd["report"]
<1>1. DOMAIN r = Fields /\ FilesInv /\ r.pc \in {"readiness", "load", "rows"}
  BY FieldsOfCommands DEF Commands, ExportsInv, ReadReadiness, LoadManifest, LoadPartition, Loaded
<1>2. r.phase \notin Writes
  BY <1>1, ReportPhase DEF Writes
<1>3. CASE ReadReadiness /\ ~Ends("report")
  <2> DEFINE verdict == IF r.given THEN readiness ELSE r.verdict
             new == [r EXCEPT !.pc = "load", !.verdict = verdict]
  <2>1. Becomes("report", new) /\ r.pc = "readiness"
    BY <1>3 DEF ReadReadiness
  <2>2. Supported(verdict) /\ (verdict.status = "ready" => r.given)
    BY <2>1 DEF ReportOf, Storage
  <2>3. r.rows = << >>
    BY <2>1 DEF ReportOf
  <2> HIDE DEF verdict
  <2>4. /\ new.pc = "load" /\ new.phase = r.phase /\ new.verdict = verdict
        /\ new.rows = r.rows /\ new.given = r.given
    BY <1>1 DEF Fields
  <2> HIDE DEF new
  <2>5. ReportOf(new)
    BY <1>2, <2>2, <2>3, <2>4 DEF ReportOf, Storage
  <2> QED
    BY <2>1, <2>5, ReportBecomes
<1>4. CASE LoadManifest /\ ~Ends("report")
  <2> DEFINE m == manifest.data
             new == [r EXCEPT !.pc = "rows", !.man = m, !.left = ScanDates(m)]
  <2>1. Becomes("report", new) /\ r.pc = "load" /\ manifest.is = "file"
    BY <1>4 DEF LoadManifest
  <2>2. r.rows = << >>
    BY <2>1 DEF ReportOf
  <2>3. manifest = File(m) /\ IsManifest(m) /\ manifest # Torn
    BY <1>1, <2>1 DEF FilesInv, Missing, Torn
  <2>4. ScanDates(m) \in Seq(Dates)
    BY <1>1, <2>3, DatesOfManifest
  <2>5. ManifestSince(m)
    <3>1. m.stamp \in DOMAIN exported
      BY <1>1, <2>3, ManifestFacts
    <3>2. m.stamp =< m.stamp
      BY <1>1, <3>1 DEF FilesInv
    <3> QED
      BY <2>3, <3>2 DEF ManifestSince
  <2>6. /\ new.pc = "rows" /\ new.phase = r.phase /\ new.verdict = r.verdict
        /\ new.rows = << >> /\ new.given = r.given /\ new.man = m /\ new.left = ScanDates(m)
    BY <1>1, <2>2 DEF Fields
  <2>7. DOMAIN << >> = {} /\ IsRows(<< >>)
    BY NothingLeft DEF IsRows
  <2> HIDE DEF new
  <2>8. r.verdict.status = "ready" => Loading(new, m, ScanDates(m))
    <3> SUFFICES ASSUME r.verdict.status = "ready" PROVE Loading(new, m, ScanDates(m))
      OBVIOUS
    <3>1. ManifestSince(r.verdict.fp.manifest)
      BY DEF ReportOf, Supported
    <3>2. r.verdict.fp.manifest.stamp =< m.stamp
      BY <2>3, <3>1 DEF ManifestSince
    <3> QED
      BY <2>3, <2>5, <2>6, <2>7, <3>2 DEF Loading
  <2>9. ReportOf(new)
    BY <1>2, <2>1, <2>2, <2>4, <2>6, <2>8 DEF ReportOf, Storage
  <2> QED
    BY <2>1, <2>9, ReportBecomes
<1>5. CASE LoadPartition /\ ~Ends("report")
  <2> DEFINE d == Head(r.left)
             data == partitions[d].data
             rows == With(r.rows, d, data)
             over == [r EXCEPT !.left = Tail(@)]
             read == [r EXCEPT !.left = Tail(@), !.rows = rows]
  <2>1. /\ r.pc = "rows" /\ r.left # << >>
        /\ \/ Becomes("report", over) /\ partitions[d].is = "missing"
           \/ Becomes("report", read) /\ Readable(r.man, d)
    BY <1>5 DEF LoadPartition
  <2>2. /\ DOMAIN rows = DOMAIN r.rows \union {d} /\ IsRows(rows)
        /\ \A x \in DOMAIN rows : rows[x] = IF x = d THEN data ELSE r.rows[x]
    BY DEF With, IsRows
  <2>3. /\ over.pc = "rows" /\ over.phase = r.phase /\ over.verdict = r.verdict
        /\ over.rows = r.rows /\ over.given = r.given /\ over.man = r.man
        /\ over.left = Tail(r.left)
    BY <1>1, <2>1 DEF Fields
  <2> HIDE DEF rows
  <2>4. /\ read.pc = "rows" /\ read.phase = r.phase /\ read.verdict = r.verdict
        /\ read.rows = rows /\ read.given = r.given /\ read.man = r.man
        /\ read.left = Tail(r.left)
    BY <1>1, <2>1 DEF Fields
  <2> HIDE DEF over, read
  <2>5. CASE r.verdict.status # "ready"
    <3>1. ReportOf(over) /\ ReportOf(read)
      BY <1>2, <2>3, <2>4, <2>5 DEF ReportOf
    <3> QED
      BY <2>1, <3>1, ReportBecomes
  <2>6. CASE r.verdict.status = "ready"
    <3> DEFINE m == r.man
               c == r.verdict.checked
               scan == ToSet(ScanDates(m))
    <3>1. r.left \in Seq(Dates) /\ Loading(r, m, r.left) /\ Supported(r.verdict) /\ r.given
      BY <2>1, <2>6 DEF ReportOf, Storage
    <3>2. /\ IsManifest(m) /\ ManifestSince(m) /\ r.verdict.fp.manifest.stamp =< m.stamp
          /\ DOMAIN r.rows \subseteq scan /\ IsRows(r.rows) /\ ToSet(r.left) \subseteq scan
          /\ scan \intersect DOMAIN c \subseteq DOMAIN r.rows \union ToSet(r.left)
          /\ \A x \in DOMAIN r.rows :
                Since(x, r.rows[x]) /\ (x \in DOMAIN c => Later(x, c[x], r.rows[x]))
      BY <3>1 DEF Loading
    <3>3. /\ d \in Dates /\ Tail(r.left) \in Seq(Dates)
          /\ ToSet(r.left) = {d} \union ToSet(Tail(r.left))
      BY <2>1, <3>1, HeadAndTail
    <3>4. d \in DOMAIN m.counts /\ scan \subseteq Dates
      BY <1>1, <3>2, <3>3, DatesOfManifest
    <3>5. d \in DOMAIN c => Since(d, c[d])
      BY <2>6, <3>1 DEF Supported
    <3>6. CASE Becomes("report", over) /\ partitions[d].is = "missing"
      <4>1. partitions[d] = Missing
        BY <1>1, <3>3, <3>6 DEF FilesInv, Opened, File
      <4>2. d \notin DOMAIN c
        BY <3>5, <4>1 DEF Since
      <4>3. ToSet(Tail(r.left)) \subseteq scan
        BY <3>2, <3>3
      <4>4. scan \intersect DOMAIN c \subseteq DOMAIN r.rows \union ToSet(Tail(r.left))
        BY <3>2, <3>3, <4>2
      <4>5. Loading(over, m, Tail(r.left))
        BY <2>3, <3>2, <4>3, <4>4 DEF Loading
      <4>6. ReportOf(over)
        BY <1>2, <2>3, <3>1, <3>3, <4>5 DEF ReportOf, Storage
      <4> QED
        BY <3>6, <4>6, ReportBecomes
    <3>7. CASE Becomes("report", read) /\ Readable(m, d)
      <4>1. \A x \in DOMAIN m.counts : m.counts[x] # 0
        BY <1>1, <3>2, ManifestFacts
      <4>2. partitions[d].is = "file" /\ Cardinality(partitions[d].data) # 0
        BY <3>4, <3>7, <4>1 DEF Readable
      <4>3. partitions[d] # Missing /\ partitions[d] # Opened
        BY <4>2, FS_EmptySet DEF Missing, Opened, File
      <4>4. Since(d, data) /\ \A v : Since(d, v) => Later(d, v, data)
        BY <1>1, <3>3, <4>3, ReadingNow
      <4> HIDE DEF d, data, scan
      <4>5. d \in DOMAIN c => Later(d, c[d], data)
        BY <3>5, <4>4
      <4>6. \A x \in DOMAIN rows :
               Since(x, rows[x]) /\ (x \in DOMAIN c => Later(x, c[x], rows[x]))
        BY <2>2, <3>2, <4>4, <4>5
      <4>7. /\ DOMAIN rows \subseteq scan /\ ToSet(Tail(r.left)) \subseteq scan
            /\ scan \intersect DOMAIN c \subseteq DOMAIN rows \union ToSet(Tail(r.left))
        BY <2>2, <3>2, <3>3
      <4>8. Loading(read, m, Tail(r.left))
        BY <2>2, <2>4, <3>2, <4>6, <4>7 DEF Loading, scan
      <4>9. ReportOf(read)
        BY <1>2, <2>4, <3>1, <3>3, <4>8 DEF ReportOf, Storage
      <4> QED
        BY <3>7, <4>9, ReportBecomes
    <3> QED
      BY <2>1, <3>6, <3>7
  <2> QED
    BY <2>5, <2>6
<1>6. CASE Loaded /\ ~Ends("report")
  <2> DEFINE new == [r EXCEPT !.pc = "print"]
  <2>1. /\ r.pc = "rows" /\ r.left = << >>
        /\ Becomes("report", new) \/ (Becomes("report", ToStore(r)) /\ ~r.given)
    BY <1>6 DEF Loaded
  <2>2. /\ new.pc = "print" /\ new.phase = r.phase /\ new.verdict = r.verdict
        /\ new.rows = r.rows /\ new.given = r.given
    BY <1>1 DEF Fields
  <2>3. /\ ToStore(r).pc = "begin" /\ ToStore(r).phase = "none" /\ ToStore(r).rows = r.rows
        /\ ToStore(r).verdict = r.verdict
    BY DEF ToStore, Idle
  <2> HIDE DEF new
  <2>4. CASE Becomes("report", new)
    <3>1. r.verdict.status = "ready" => \E m : Loading(new, m, << >>)
      BY <2>1, <2>2, LoadingSame DEF ReportOf
    <3>2. ReportOf(new)
      BY <1>1, <1>2, <2>2, <3>1 DEF ReportOf, Storage
    <3> QED
      BY <2>4, <3>2, ReportBecomes
  <2>5. CASE Becomes("report", ToStore(r)) /\ ~r.given
    <3>1. r.verdict.status # "ready" /\ Supported(r.verdict)
      BY <2>1, <2>5 DEF ReportOf, Storage
    <3>2. ReportOf(ToStore(r))
      BY <2>3, <3>1 DEF ReportOf, Writes
    <3> QED
      BY <2>5, <3>2, ReportBecomes
  <2> QED
    BY <2>1, <2>4, <2>5
<1> QED
  BY <1>3, <1>4, <1>5, <1>6, ReportThatEnds

\* No date's rows are exported again once other rows of it were: the history is corrected,
\* never put back to what an export already had.
NothingRestored ==
    \A i, j, k \in DOMAIN exported :
        i < j /\ j < k =>
            \A d \in DOMAIN exported[i] \intersect DOMAIN exported[j] \intersect DOMAIN exported[k] :
                exported[i][d] = exported[k][d] => exported[j][d] = exported[i][d]

LEMMA LaterIsOrder ==
    ASSUME FilesInv, NothingRestored, NEW d, NEW x, NEW y, NEW z
    PROVE  /\ Later(d, x, y) /\ Later(d, y, x) => x = y
           /\ Later(d, x, y) /\ Later(d, y, z) => Later(d, x, z)
<1>1. \A i \in DOMAIN exported : i \in Nat
  BY DEF FilesInv
<1>2. ASSUME NEW i \in DOMAIN exported, NEW j \in DOMAIN exported, NEW k \in DOMAIN exported,
             d \in DOMAIN exported[i], d \in DOMAIN exported[j], d \in DOMAIN exported[k],
             i < j, j < k, exported[i][d] = exported[k][d]
      PROVE  exported[j][d] = exported[i][d]
  BY <1>2 DEF NothingRestored
<1>3. ASSUME Later(d, x, y), Later(d, y, x) PROVE x = y
  <2>1. PICK i \in DOMAIN exported, j \in DOMAIN exported :
           /\ i =< j /\ d \in DOMAIN exported[i] /\ d \in DOMAIN exported[j]
           /\ x = exported[i][d] /\ y = exported[j][d]
    BY <1>3 DEF Later
  <2>2. PICK k \in DOMAIN exported, l \in DOMAIN exported :
           /\ k =< l /\ d \in DOMAIN exported[k] /\ d \in DOMAIN exported[l]
           /\ y = exported[k][d] /\ x = exported[l][d]
    BY <1>3 DEF Later
  <2>3. i \in Nat /\ j \in Nat /\ k \in Nat /\ l \in Nat
    BY <1>1
  <2>4. CASE i = j \/ k = l \/ l = j
    BY <2>1, <2>2, <2>4
  <2>5. CASE i < j /\ j < l
    BY <1>2, <2>1, <2>2, <2>5
  <2>6. CASE k < l /\ l < j
    BY <1>2, <2>1, <2>2, <2>6
  <2> QED
    BY <2>1, <2>2, <2>3, <2>4, <2>5, <2>6
<1>4. ASSUME Later(d, x, y), Later(d, y, z) PROVE Later(d, x, z)
  <2>1. PICK i \in DOMAIN exported, j \in DOMAIN exported :
           /\ i =< j /\ d \in DOMAIN exported[i] /\ d \in DOMAIN exported[j]
           /\ x = exported[i][d] /\ y = exported[j][d]
    BY <1>4 DEF Later
  <2>2. PICK k \in DOMAIN exported, l \in DOMAIN exported :
           /\ k =< l /\ d \in DOMAIN exported[k] /\ d \in DOMAIN exported[l]
           /\ y = exported[k][d] /\ z = exported[l][d]
    BY <1>4 DEF Later
  <2>3. i \in Nat /\ j \in Nat /\ k \in Nat /\ l \in Nat
    BY <1>1
  <2>4. CASE i =< l
    BY <2>1, <2>2, <2>4 DEF Later
  <2>5. CASE l < i
    <3>1. z = y
      <4>1. CASE k = l
        BY <2>2, <4>1
      <4>2. CASE k < l
        <5>1. l < j
          BY <2>1, <2>3, <2>5
        <5> QED
          BY <1>2, <2>1, <2>2, <4>2, <5>1
      <4> QED
        BY <2>2, <2>3, <4>1, <4>2
    <3> QED
      BY <1>4, <3>1
  <2> QED
    BY <2>3, <2>4, <2>5
<1> QED
  BY <1>3, <1>4

\* The fingerprint that a report matches closes the circle: between the check's reading and
\* its own nothing can have changed.
LEMMA ValidatedRows ==
    ASSUME Inv, ExportsInv, Onward, NothingRestored, ReportOf(cmd["report"]), Validate
    PROVE  ReportOf(cmd["report"])'
<1> DEFINE r == cmd["report"]
           v == r.verdict
           c == v.checked
<1>1. FilesInv /\ r.pc = "digest" /\ r.left = << >>
  BY DEF ExportsInv, Validate, Printed
<1>2. CASE ~Ends("report")
  <2>1. Becomes("report", ToStore(r)) /\ v.fp = Fingerprint(r.man, r.parts)
    BY <1>2 DEF Validate
  <2>2. v.fp.manifest = r.man /\ v.fp.parts = r.parts
    BY <2>1 DEF Fingerprint
  <2>3. /\ ToStore(r).pc = "begin" /\ ToStore(r).phase = "none" /\ ToStore(r).rows = r.rows
        /\ ToStore(r).verdict = v
    BY DEF ToStore, Idle
  <2>4. v.status = "ready" => r.rows = c
    <3> SUFFICES ASSUME v.status = "ready" PROVE r.rows = c
      OBVIOUS
    <3>1. PICK m : Loading(r, m, << >>) /\ m.stamp =< r.man.stamp
      BY <1>1 DEF ReportOf
    <3>2. /\ IsManifest(r.man)
          /\ \A d \in DOMAIN r.parts \intersect DOMAIN r.rows :
                r.parts[d] = {} \/ Later(d, r.rows[d], r.parts[d])
      BY <1>1 DEF ReportOf
    <3>3. /\ DOMAIN c = ToSet(ScanDates(r.man)) /\ IsRows(c)
          /\ \A d \in DOMAIN c : d \in DOMAIN r.parts /\ Later(d, r.parts[d], c[d])
      BY <2>2 DEF ReportOf, Supported
    <3>4. /\ IsManifest(m) /\ r.man.stamp =< m.stamp
          /\ DOMAIN r.rows \subseteq ToSet(ScanDates(m)) /\ IsRows(r.rows)
          /\ ToSet(ScanDates(m)) \intersect DOMAIN c \subseteq DOMAIN r.rows
          /\ \A d \in DOMAIN r.rows : d \in DOMAIN c => Later(d, c[d], r.rows[d])
      BY <2>2, <3>1, NothingLeft DEF Loading
    <3>5. ScanDates(m) = ScanDates(r.man)
      <4>1. m.stamp = r.man.stamp
        <5>1. m.stamp \in DOMAIN exported /\ r.man.stamp \in DOMAIN exported
          BY <1>1, <3>2, <3>4, ManifestFacts
        <5>2. m.stamp \in Nat /\ r.man.stamp \in Nat
          BY <1>1, <5>1 DEF FilesInv
        <5> QED
          BY <3>1, <3>4, <5>2
      <4>2. m.dates = r.man.dates
        BY <1>1, <3>2, <3>4, <4>1, DatesOfManifest
      <4> QED
        BY <4>2 DEF ScanDates
    <3>6. DOMAIN r.rows = DOMAIN c
      BY <3>3, <3>4, <3>5
    <3>7. ASSUME NEW d \in DOMAIN c PROVE r.rows[d] = c[d]
      <4>1. d \in DOMAIN r.parts /\ Later(d, r.parts[d], c[d]) /\ Later(d, c[d], r.rows[d])
        BY <3>3, <3>4, <3>6
      <4>2. r.parts[d] # {}
        <5>1. PICK i \in DOMAIN exported : d \in DOMAIN exported[i] /\ r.parts[d] = exported[i][d]
          BY <4>1 DEF Later
        <5>2. exported[i] \in RowSets
          BY <1>1 DEF FilesInv
        <5>3. Cardinality(r.parts[d]) # 0
          BY <5>1, <5>2, RowsFit
        <5> QED
          BY <5>3, FS_EmptySet
      <4>3. Later(d, r.rows[d], r.parts[d])
        BY <3>2, <3>6, <4>1, <4>2
      <4>4. Later(d, r.rows[d], c[d])
        BY <1>1, <4>1, <4>3, LaterIsOrder
      <4> QED
        BY <1>1, <4>1, <4>4, LaterIsOrder
    <3> QED
      BY <3>3, <3>4, <3>6, <3>7 DEF IsRows
  <2>5. Supported(v)
    BY DEF ReportOf
  <2>6. ReportOf(ToStore(r))
    BY <2>3, <2>4, <2>5 DEF ReportOf, Storage, Writes
  <2> QED
    BY <2>1, <2>6, ReportBecomes
<1> QED
  BY <1>2, ReportThatEnds

LEMMA StoringSteps ==
    ASSUME Inv, ExportsInv, Onward, ReportOf(cmd["report"]), ReportedRowsWereChecked,
           Begin \/ Store \/ Render \/ Announce
    PROVE  ReportOf(cmd["report"])' /\ ReportedRowsWereChecked'
<1> DEFINE r == cmd["report"]
           stored == [r EXCEPT !.left = Tail(@)]
           begun == [r EXCEPT !.pc = "store"]
           rendered == [r EXCEPT !.pc = "publish", !.left = Published]
<1>1. DOMAIN r = Fields /\ r.pc \in Storage
  BY FieldsOfCommands DEF Commands, Begin, Store, Render, Announce, Storage
<1>2. r.phase \notin Writes
  BY <1>1, ReportPhase DEF Writes
<1>3. Supported(r.verdict) /\ (r.verdict.status = "ready" => r.rows = r.verdict.checked)
  BY <1>1 DEF ReportOf
<1>4. /\ stored.pc = r.pc /\ stored.phase = r.phase /\ stored.verdict = r.verdict
      /\ stored.rows = r.rows
      /\ begun.pc = "store" /\ begun.phase = r.phase
      /\ begun.verdict = r.verdict /\ begun.rows = r.rows
      /\ rendered.pc = "publish" /\ rendered.phase = r.phase
      /\ rendered.verdict = r.verdict /\ rendered.rows = r.rows
  BY <1>1 DEF Fields
<1>5. \/ Ends("report") \/ Becomes("report", stored)
      \/ Becomes("report", begun) \/ Becomes("report", rendered)
  BY DEF Begin, Store, Render, Announce, StoreFails, Fails, Stops
<1> HIDE DEF stored, begun, rendered
<1>6. ReportOf(stored) /\ ReportOf(begun) /\ ReportOf(rendered)
  BY <1>1, <1>2, <1>3, <1>4 DEF ReportOf, Storage
<1>7. ReportOf(cmd["report"])'
  BY <1>5, <1>6, ReportBecomes, ReportThatEnds
<1>8. announced' \in {announced, NoAnnouncement, Stopped, Announcement(r)}
  BY DEF Begin, Store, Render, Announce, StoreFails, Fails, Stops, artifacts
<1>9. Announcement(r).kind = "user_ready" =>
        Announcement(r).rows = Announcement(r).checked
  BY <1>3 DEF Announcement
<1>10. ReportedRowsWereChecked'
  BY <1>8, <1>9 DEF ReportedRowsWereChecked, NoAnnouncement, Stopped
<1> QED
  BY <1>7, <1>10

LEMMA RowsInit == Init => RowsInv
<1> SUFFICES ASSUME Init PROVE RowsInv
  OBVIOUS
<1>1. cmd["check"] = Idle /\ cmd["report"] = Idle
  BY DEF Init, Commands
<1>2. CheckOf(Idle)
  BY DEF CheckOf, Idle
<1>3. Supported(readiness) /\ ReportedRowsWereChecked
  BY DEF Init, Supported, ReportedRowsWereChecked, NoVerdict, NoAnnouncement
<1> QED
  BY <1>1, <1>2, <1>3, IdleReport DEF RowsInv

LEMMA RowsNext ==
    ASSUME Inv, ExportsInv, HistoryInv, NothingRestored, RowsInv, [Next]_vars
    PROVE  RowsInv'
<1> DEFINE r == cmd["report"]
<1>1. /\ Onward /\ Supported(readiness) /\ CheckOf(cmd["check"]) /\ ReportOf(r)
      /\ ReportedRowsWereChecked
  BY StepsGoOnward DEF RowsInv
<1>2. Supported(readiness)' /\ CheckOf(cmd["check"])'
  BY <1>1, ChecksKeepTrack
<1>3. ASSUME announced' = announced PROVE ReportedRowsWereChecked'
  BY <1>1, <1>3 DEF ReportedRowsWereChecked
<1> DEFINE Goal == ReportOf(cmd["report"])' /\ ReportedRowsWereChecked'
<1>4. ASSUME cmd'["report"] = cmd["report"], announced' = announced PROVE Goal
  BY <1>1, <1>3, <1>4, ReportLasts
<1>5. ASSUME NEW new, Becomes("check", new), announced' = announced PROVE Goal
  BY <1>4, <1>5, Becoming DEF Commands
<1>6. ASSUME \E e \in Etfs, d \in Dates : UpdateHistory(e, d) PROVE Goal
  BY <1>4, <1>6 DEF UpdateHistory, artifacts
<1>7. ASSUME StartCheck \/ StartSync \/ CheckStep \/ Crash("check") PROVE Goal
  <2>1. announced' = announced /\ \E new : Becomes("check", new)
    BY <1>7
    DEF StartCheck, StartSync, Exporting, Collecting, Writing, CheckStep, Export, OpenPartition,
        FillPartition, OpenManifest, FillManifest, PrintManifest, PrintPartition, OpenSummary,
        FillSummary, OpenRecord, FillRecord, Check, InspectManifest, InspectEvidence,
        ScanPartition, Conclude, Crash, Ends, artifacts
  <2> HIDE DEF Goal
  <2> QED
    BY <1>5, <2>1
<1>8. ASSUME NEW given \in BOOLEAN, NEW allow \in BOOLEAN, StartReport(given, allow)
      PROVE  Goal
  <2> DEFINE options == [Idle EXCEPT !.phase = "report", !.given = given, !.allow = allow]
             ready == [options EXCEPT !.pc = "readiness"]
             rows == ExportRows(history)
             writing == [options EXCEPT !.pc = "open", !.phase = "export",
                            !.left = Descending(DOMAIN rows), !.out = rows,
                            !.stamp = Len(exported) + 1]
  <2>1. announced' = announced /\ (Becomes("report", ready) \/ Becomes("report", writing))
    BY <1>8 DEF StartReport, Exporting, Writing, artifacts
  <2>2. options.verdict = NoVerdict /\ options.rows = << >> /\ DOMAIN options = Fields
    BY IdleReport DEF Idle
  <2> HIDE DEF options
  <2>3. /\ ready.verdict = NoVerdict /\ ready.rows = << >>
        /\ writing.verdict = NoVerdict /\ writing.rows = << >>
    BY <2>2 DEF Fields
  <2> HIDE DEF ready, writing
  <2> QED
    BY <1>1, <1>3, <2>1, <2>3, ReportWithoutRows, ReportBecomes
<1>9. ASSUME Export("report") PROVE Goal
  <2>1. announced' = announced
    BY <1>9
    DEF Export, OpenPartition, FillPartition, OpenManifest, FillManifest, PrintManifest,
        PrintPartition, OpenSummary, FillSummary, artifacts
  <2>2. CASE r.phase \in Writes
    BY <1>1, <1>3, <1>9, <2>1, <2>2, ExportingReport
  <2>3. CASE r.phase \notin Writes
    <3>1. PrintManifest("report") \/ PrintPartition("report")
      <4>1. Phased("report")
        BY DEF ExportsInv, Commands
      <4> QED
        BY <1>9, <2>3, <4>1 DEF Export, OpenPartition, FillPartition, OpenManifest,
           FillManifest, OpenSummary, FillSummary, Printed, Phased, Writes
    <3> QED
      BY <1>1, <1>3, <2>1, <2>3, <3>1, DigestingReport
  <2> QED
    BY <2>2, <2>3
<1>10. ASSUME ReadReadiness \/ LoadManifest \/ LoadPartition \/ Loaded PROVE Goal
  <2>1. announced' = announced
    BY <1>10 DEF ReadReadiness, LoadManifest, LoadPartition, Loaded, artifacts
  <2> QED
    BY <1>1, <1>3, <1>10, <2>1, LoadingSteps
<1>11. ASSUME Validate PROVE Goal
  <2>1. announced' = announced
    BY <1>11 DEF Validate, artifacts
  <2> QED
    BY <1>1, <1>3, <1>11, <2>1, ValidatedRows
<1>12. ASSUME Begin \/ Store \/ Render \/ Announce PROVE Goal
  BY <1>1, <1>12, StoringSteps
<1>13. ASSUME Crash("report") PROVE Goal
  BY <1>1, <1>3, <1>13, ReportThatEnds DEF Crash, artifacts
<1>14. ASSUME UNCHANGED vars PROVE Goal
  BY <1>4, <1>14 DEF vars, artifacts
<1>15. Goal
  <2> HIDE DEF Goal
  <2> QED
    BY <1>6, <1>7, <1>8, <1>9, <1>10, <1>11, <1>12, <1>13, <1>14
    DEF Next, ReportStep, Report
<1> QED
  BY <1>2, <1>15 DEF RowsInv

\* A report for the user was made from exactly the rows that its verdict was reached on,
\* whatever exports, syncs and checks rewrite meanwhile: the fingerprint that it computes
\* after it has loaded the rows is the check's (_validate_operational_readiness_match).  But
\* rows that come back defeat it: an export that dies after it has written other rows, and
\* one after it that dies having written the first ones again.
THEOREM UserReportsAreOfCheckedRows ==
    Spec /\ []NothingRestored => []ReportedRowsWereChecked
<1>1. Init => RowsInv
  BY RowsInit
<1>2. (Inv /\ ExportsInv /\ ValuesInv) /\ NothingRestored /\ RowsInv /\ [Next]_vars => RowsInv'
  BY RowsNext DEF ValuesInv
<1>3. RowsInv => ReportedRowsWereChecked
  BY DEF RowsInv
<1> QED
  BY <1>1, <1>2, <1>3, Invariants, PTL DEF Spec

\* The rows of a history at a date.
RowsAt(h, d) == {<<e, h[<<e, d>>]>> : e \in {x \in Etfs : <<x, d>> \in DOMAIN h}}

AtFirst == [k \in Initially |-> 0]

\* The exports up to some one are of the first history, the others of the one there is.
ChangedOnce ==
    /\ updates = 0 => history = AtFirst
    /\ \E n \in Nat : \A i \in DOMAIN exported : \A d \in DOMAIN exported[i] :
          exported[i][d] = RowsAt(IF i =< n THEN AtFirst ELSE history, d)

\* An export takes the rows of the history; only an update changes that.
LEMMA StepsOnHistory ==
    ASSUME HistoryInv, [Next]_vars
    PROVE  \/ UNCHANGED <<history, updates, exported>>
           \/ /\ UNCHANGED <<history, updates>>
              /\ \E D : /\ RowsOf(history, D) \in RowSets
                        /\ exported' = Append(exported, RowsOf(history, D))
           \/ \E e \in Etfs, d \in Dates : UpdateHistory(e, d)
<1> DEFINE Same == UNCHANGED <<history, updates, exported>>
           More == /\ UNCHANGED <<history, updates>>
                   /\ \E D : /\ RowsOf(history, D) \in RowSets
                             /\ exported' = Append(exported, RowsOf(history, D))
<1>1. ASSUME StartCheck \/ StartSync \/ \E given, allow \in BOOLEAN : StartReport(given, allow)
      PROVE  Same \/ More
  <2>1. UNCHANGED <<history, updates>>
    BY <1>1 DEF StartCheck, StartSync, StartReport, bounds
  <2>2. \/ UNCHANGED exported \/ exported' = Append(exported, ExportRows(history))
        \/ exported' = Append(exported, RowsOf(history, LatestDates(history)))
    BY <1>1 DEF StartCheck, StartSync, StartReport, Exporting, Collecting, Writing
  <2>3. ExportRows(history) = RowsOf(history, ExportDates(history))
    BY DEF ExportRows
  <2> QED
    BY <2>1, <2>2, <2>3, ExportedRowsFit
<1>2. ASSUME NEW c, Export(c) PROVE Same
  BY <1>2 DEF Export, OpenPartition, FillPartition, OpenManifest, FillManifest, PrintManifest,
              PrintPartition, OpenSummary, FillSummary, bounds
<1>3. ASSUME OpenRecord \/ FillRecord \/ Check PROVE Same
  BY <1>3 DEF OpenRecord, FillRecord, Check, InspectManifest, InspectEvidence, ScanPartition,
              Conclude, bounds
<1>4. ASSUME Report PROVE Same
  BY <1>4 DEF Report, ReadReadiness, LoadManifest, LoadPartition, Loaded, Validate, Begin,
              Store, Render, Announce, bounds
<1>5. ASSUME NEW c, Crash(c) PROVE Same
  BY <1>5 DEF Crash
<1>6. ASSUME UNCHANGED vars PROVE Same
  BY <1>6 DEF vars, bounds
<1> HIDE DEF Same, More
<1>7. Same \/ More \/ \E e \in Etfs, d \in Dates : UpdateHistory(e, d)
  BY <1>1, <1>2, <1>3, <1>4, <1>5, <1>6 DEF Next, CheckStep, ReportStep
<1> QED
  BY <1>7 DEF Same, More

LEMMA ChangedOnceNext ==
    ASSUME MaxUpdates =< 1, ExportsInv, ValuesInv, ChangedOnce, [Next]_vars
    PROVE  ChangedOnce'
<1>1. PICK n \in Nat : \A i \in DOMAIN exported : \A d \in DOMAIN exported[i] :
         exported[i][d] = RowsAt(IF i =< n THEN AtFirst ELSE history, d)
  BY DEF ChangedOnce
<1>2. exported \in Seq(RowSets) /\ Len(exported) \in Nat /\ DOMAIN exported = 1..Len(exported)
  BY DEF ExportsInv, FilesInv
<1>3. ASSUME UNCHANGED <<history, updates, exported>> PROVE ChangedOnce'
  BY <1>3 DEF ChangedOnce
<1>4. ASSUME UNCHANGED <<history, updates>>, NEW D, RowsOf(history, D) \in RowSets,
             exported' = Append(exported, RowsOf(history, D))
      PROVE  ChangedOnce'
  <2> DEFINE rows == RowsOf(history, D)
             last == Len(exported) + 1
             m == IF n =< Len(exported) THEN n ELSE Len(exported)
  <2>1. /\ DOMAIN rows = D /\ \A d \in D : rows[d] = RowsAt(history, d)
    BY DEF RowsOf, RowsAt
  <2>2. /\ exported' \in Seq(RowSets) /\ Len(exported') = last /\ exported'[last] = rows
        /\ \A i \in DOMAIN exported : exported'[i] = exported[i]
    BY <1>2, <1>4, AppendProperties
  <2>3. DOMAIN exported' = DOMAIN exported \union {last}
    BY <1>2, <2>2
  <2>4. m \in Nat /\ m < last /\ \A i \in DOMAIN exported : i =< m <=> i =< n
    BY <1>2
  <2> HIDE DEF m, rows
  <2>5. ASSUME NEW i \in DOMAIN exported', NEW d \in DOMAIN exported'[i]
        PROVE  exported'[i][d] = RowsAt(IF i =< m THEN AtFirst ELSE history', d)
    <3>1. CASE i \in DOMAIN exported
      BY <1>1, <1>4, <2>2, <2>4, <2>5, <3>1
    <3>2. CASE i = last
      <4>1. ~(i =< m)
        BY <1>2, <2>4, <3>2
      <4> QED
        BY <1>4, <2>1, <2>2, <2>5, <3>2, <4>1
    <3> QED
      BY <2>3, <2>5, <3>1, <3>2
  <2> QED
    BY <1>4, <2>4, <2>5 DEF ChangedOnce
<1>5. ASSUME NEW e \in Etfs, NEW d \in Dates, UpdateHistory(e, d) PROVE ChangedOnce'
  <2>1. updates = 0 /\ updates' = 1 /\ exported' = exported
    BY <1>5, BoundsAssumption DEF UpdateHistory, ValuesInv
  <2>2. \A i \in DOMAIN exported : i =< Len(exported)
    BY <1>2
  <2>3. \A i \in DOMAIN exported : \A x \in DOMAIN exported[i] :
           exported[i][x] = RowsAt(AtFirst, x)
    BY <1>1, <2>1 DEF ChangedOnce
  <2> QED
    BY <1>2, <2>1, <2>2, <2>3 DEF ChangedOnce
<1> QED
  BY <1>3, <1>4, <1>5, StepsOnHistory DEF ValuesInv

LEMMA ChangedOnceRestoresNothing ==
    ASSUME FilesInv, ChangedOnce
    PROVE  NothingRestored
<1>1. PICK n \in Nat : \A i \in DOMAIN exported : \A d \in DOMAIN exported[i] :
         exported[i][d] = RowsAt(IF i =< n THEN AtFirst ELSE history, d)
  BY DEF ChangedOnce
<1>2. \A i \in DOMAIN exported : i \in Nat
  BY DEF FilesInv
<1> SUFFICES ASSUME NEW i \in DOMAIN exported, NEW j \in DOMAIN exported,
                    NEW k \in DOMAIN exported, i < j, j < k,
                    NEW d \in DOMAIN exported[i], d \in DOMAIN exported[j],
                    d \in DOMAIN exported[k], exported[i][d] = exported[k][d]
             PROVE  exported[j][d] = exported[i][d]
  BY DEF NothingRestored
<1>3. CASE j =< n
  <2>1. i =< n
    BY <1>2, <1>3
  <2> QED
    BY <1>1, <1>3, <2>1
<1>4. CASE ~(j =< n)
  <2>1. ~(k =< n)
    BY <1>2, <1>4
  <2> QED
    BY <1>1, <1>4, <2>1
<1> QED
  BY <1>3, <1>4

\* With one change of the history, whenever it comes, the premise holds, and a report for
\* the user has the rows its verdict was reached on.
THEOREM ReportsAfterOneChangeAreOfCheckedRows ==
    ASSUME MaxUpdates =< 1
    PROVE  Spec => []ReportedRowsWereChecked
<1>1. Init => ChangedOnce
  BY DEF Init, ChangedOnce, AtFirst
<1>2. (Inv /\ ExportsInv /\ ValuesInv) /\ ChangedOnce /\ [Next]_vars => ChangedOnce'
  BY ChangedOnceNext
<1>3. (Inv /\ ExportsInv /\ ValuesInv) /\ ChangedOnce => NothingRestored
  BY ChangedOnceRestoresNothing DEF ExportsInv
<1> QED
  BY <1>1, <1>2, <1>3, Invariants, UserReportsAreOfCheckedRows, PTL DEF Spec

=============================================================================
