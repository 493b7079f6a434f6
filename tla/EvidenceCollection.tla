------------------------- MODULE EvidenceCollection -------------------------
(***************************************************************************)
(* `collect-external-evidence` (external_evidence/collector.py and         *)
(* providers.py): choose the targets of a signal board, ask each selected  *)
(* provider about them with bounded retries, drop duplicates, and write    *)
(* the evidence, its summary and the cooldowns of the providers that       *)
(* refused.  A command can die between any two steps and leave the file it *)
(* was writing torn.  Commands share the cooldown file; evidence and       *)
(* summary go to paths of the command's own (what happens when they are    *)
(* used again is in PrePublishPreview).                                    *)
(*                                                                         *)
(* A provider answers a request with the facts it has about some tickers.  *)
(* A fact comes in two degrees of richness (_candidate_richness).          *)
(***************************************************************************)
EXTENDS Naturals, Sequences, FiniteSets, Functions

CONSTANTS
    Tickers,
    FindsOf,       \* what each provider may know of a ticker: [fact, rich]
    Boards,        \* signal boards, rows by rank: [ticker, security, listed]
    NoTicker,
    MaxTargets,    \* --max-targets
    Providers,     \* the selected providers, in order
    CategoryOf,    \* the evidence category of each provider
    KindOf,        \* how each provider is asked
    Cap,           \* targets that a "batch" provider is asked about
    MaxAttempts,   \* HTTP attempts for one request
    Failures,      \* the failures that happen, of PolicyFailures
    DurationOf,    \* how long each provider is left alone after a refusal
    MaxClock,      \* bound: the clock
    MaxCrashes     \* bound: commands that die

\* "each": a request for every target (finnhub, yfinance, newsapi, naver).  "batch": one
\* request for the first targets (alpha_vantage).  "map": a ticker map first, then a
\* request for every target in it (dart).  "spare_map": the same, with a second source
\* for the map (sec_edgar).
Kinds == {"each", "batch", "map", "spare_map"}
ProviderSet == Range(Providers)
Categories == Range(CategoryOf)

\* HTTP 408, 429, 5xx, a timeout or a lost connection: tried again, then the failure.
Transient == {"rate_limited_exhausted", "timeout_exhausted", "provider_unavailable"}
PolicyFailures == Transient \union {"blocked", "credential_required", "invalid_provider_payload"}
Refusals == {"blocked", "rate_limited_exhausted"}       \* COOLDOWN_STATUSES
Statuses == PolicyFailures \union {"success", "no_data", "skipped", "cooldown_active"}
SpareMapAfter == {"blocked", "provider_unavailable", "invalid_provider_payload"}

ASSUME ProvidersAssumption ==
    /\ Providers \in Seq(ProviderSet) /\ Providers # << >> /\ IsInjective(Providers)
    /\ DOMAIN CategoryOf = ProviderSet
    /\ KindOf \in [ProviderSet -> Kinds] /\ DOMAIN FindsOf = ProviderSet
    /\ DurationOf \in [ProviderSet -> Nat \ {0}]
    /\ \A p \in ProviderSet : \A f \in FindsOf[p] : f.rich \in BOOLEAN
ASSUME BoardsAssumption ==
    \A board \in Boards :
        /\ board \in Seq(Range(board))
        /\ \A row \in Range(board) : row.ticker \in Tickers \union {NoTicker}
ASSUME BoundsAssumption ==
    /\ NoTicker \notin Tickers /\ Failures \subseteq PolicyFailures
    /\ MaxTargets \in Nat \ {0} /\ Cap \in Nat \ {0} /\ MaxAttempts \in Nat \ {0}
    /\ MaxClock \in Nat /\ MaxCrashes \in Nat

VARIABLES
    evidence,    \* external_evidence.json: a set of candidates
    summary,     \* external_evidence_summary.json
    cooldowns,   \* the cooldown file: until when each provider is left alone
    cmd,         \* the running command
    clock,
    crashes,     \* how many commands died
    quiet        \* observation: until when the recorded refusals ask for quiet

vars == <<evidence, summary, cooldowns, cmd, clock, crashes, quiet>>

Missing == [is |-> "missing"]
Torn == [is |-> "torn"]          \* truncated, or half written: not JSON
File(data) == [is |-> "file", data |-> data]

Candidates ==
    UNION {{[provider |-> p, ticker |-> t, fact |-> f.fact, rich |-> f.rich] :
               t \in Tickers, f \in FindsOf[p]} : p \in ProviderSet}

\* A request is about a set of tickers, or for the ticker map (its first or its second
\* source), which no ticker is named like.
Map == {"map"}
SpareMap == {"spare_map"}
Idle == [pc |-> "idle", live |-> FALSE, keep |-> FALSE, ignore |-> FALSE, board |-> << >>,
         targets |-> << >>, todo |-> << >>, requests |-> << >>, attempt |-> 1,
         found |-> << >>, candidates |-> << >>, outcome |-> << >>, table |-> << >>]

Init ==
    /\ evidence = Missing /\ summary = Missing /\ cooldowns = Missing
    /\ cmd = Idle
    /\ clock = 0 /\ crashes = 0
    /\ quiet = [p \in ProviderSet |-> 0]

-----------------------------------------------------------------------------
(* Targets, duplicates, coverage *)

\* A row without a listing whose ticker belongs to another security of the board too.
IsAmbiguous(board, row) ==
    ~row.listed /\ \E r \in Range(board) : r.ticker = row.ticker /\ r.security # row.security

\* The elements of s at the positions in S, and its first n: both in their order.
Among(s, S) == [n \in 1..Cardinality(S) |-> s[CHOOSE i \in S : Cardinality({j \in S : j <= i}) = n]]
First(n, s) == SubSeq(s, 1, IF Len(s) < n THEN Len(s) ELSE n)

\* _select_targets_from_rows: the first rows by rank that a provider can look up.
Selected(board) ==
    LET usable == {i \in DOMAIN board :
                      board[i].ticker # NoTicker /\ ~IsAmbiguous(board, board[i])}
    IN First(MaxTargets, Among([i \in DOMAIN board |-> board[i].ticker], usable))

ExcludedAsAmbiguous(board) ==
    {row.ticker : row \in {r \in Range(board) : r.ticker # NoTicker /\ IsAmbiguous(board, r)}}

\* _dedupe_key: the source label, the article id and the title name the provider, so
\* that candidates of two providers never share a key.
Key(c) == <<c.provider, c.ticker, c.fact>>

\* Mutant: the last candidate of a key is kept, not the richest.
DedupedLast(candidates) ==
    {candidates[i] : i \in {j \in DOMAIN candidates :
        \A k \in j + 1..Len(candidates) : Key(candidates[k]) # Key(candidates[j])}}

\* _dedupe_candidates: of one key the richest stays (rich or not: nothing else differs).
Deduped(candidates) ==
    {c \in Range(candidates) :
        \A d \in Range(candidates) : Key(d) = Key(c) /\ d.rich => c.rich}

\* Mutant: a provider without data hides that another one of the category failed.
TickerStateNoDataFirst(t, c, items, outcome) ==
    LET ran == {p \in DOMAIN outcome : CategoryOf[p] = c}
        some(S) == \E p \in ran : outcome[p].status \in S
    IN IF \E i \in items : CategoryOf[i.provider] = c /\ i.ticker = t THEN "covered"
       ELSE IF some({"no_data"}) THEN "no_data"
       ELSE IF some(PolicyFailures) THEN "failed"
       ELSE IF some({"skipped", "cooldown_active"}) THEN "skipped"
       ELSE IF \E p \in ran : t \in outcome[p].tickers THEN "no_data" ELSE "not_run"

\* _ticker_state: what the summary says of one ticker in one category.
TickerState(t, c, items, outcome) ==
    LET ran == {p \in DOMAIN outcome : CategoryOf[p] = c}
        some(S) == \E p \in ran : outcome[p].status \in S
    IN IF \E i \in items : CategoryOf[i.provider] = c /\ i.ticker = t THEN "covered"
       ELSE IF some(PolicyFailures) THEN "failed"
       ELSE IF some({"skipped", "cooldown_active"}) THEN "skipped"
       ELSE IF some({"no_data"}) \/ (\E p \in ran : t \in outcome[p].tickers) THEN "no_data"
       ELSE "not_run"

\* _category_coverage: the selected tickers, and the ones excluded as ambiguous.
Coverage(board, targets, items, outcome) ==
    [c \in Categories |->
        [t \in Range(targets) \union ExcludedAsAmbiguous(board) |->
            IF t \in Range(targets) THEN TickerState(t, c, items, outcome)
            ELSE "excluded_ambiguous_bare_ticker"]]

-----------------------------------------------------------------------------
(* Asking one provider *)

\* What a provider is asked for, one request after another.
OneByOne(targets) == [i \in 1..Len(targets) |-> {targets[i]}]
BatchOf(targets) == Range(First(Cap, targets))
RequestsFor(p, targets) ==
    CASE KindOf[p] = "each" -> OneByOne(targets)
      [] KindOf[p] = "batch" -> IF targets = << >> THEN << >> ELSE <<BatchOf(targets)>>
      [] OTHER -> <<Map>>

\* With the map: a request for every target in it.
RequestsAfterMap(known, targets) ==
    OneByOne(Among(targets, {i \in DOMAIN targets : targets[i] \in known}))

\* target_tickers of an outcome: a batch provider that is asked names those it is asked
\* about.
TickersOf(p, targets) == IF KindOf[p] = "batch" THEN BatchOf(targets) ELSE Range(targets)

\* _active_cooldown.
CoolingDown(p, table) == p \in DOMAIN table /\ table[p] > clock

Put(f, x, v) == [y \in DOMAIN f \union {x} |-> IF y = x THEN v ELSE f[y]]

\* The command after provider p ended with a status: what a failed one had found so far
\* is dropped, and one that refused gets a cooldown.
Ended(p, status) ==
    [cmd EXCEPT
        !.pc = "provider", !.todo = Tail(@), !.requests = << >>, !.attempt = 1,
        !.candidates = IF status = "success" THEN @ \o cmd.found ELSE @,
        !.found = << >>,
        !.outcome = Put(@, p, [status |-> status,
                               tickers |-> IF cmd.pc = "provider" THEN Range(cmd.targets)
                                           ELSE TickersOf(p, cmd.targets)]),
        !.table = IF status \in Refusals /\ cmd.keep THEN Put(@, p, clock + DurationOf[p]) ELSE @]

-----------------------------------------------------------------------------
(* Actions *)

\* A torn cooldown file ends the command at once.  The output paths are fresh ones.
Start(board, live, keep, ignore) ==
    /\ cmd.pc = "idle"
    /\ keep => cooldowns # Torn
    /\ cmd' = [Idle EXCEPT !.pc = "provider", !.live = live, !.keep = keep, !.ignore = ignore,
                  !.board = board, !.targets = Selected(board), !.todo = Providers,
                  !.table = IF keep /\ cooldowns # Missing THEN cooldowns.data ELSE << >>]
    /\ evidence' = Missing /\ summary' = Missing
    /\ UNCHANGED <<cooldowns, clock, crashes, quiet>>

\* The next provider: not while it cools down, not without --live, and not without its
\* credentials or its library.
NextProvider ==
    LET p == Head(cmd.todo) IN
    /\ cmd.pc = "provider" /\ cmd.todo # << >>
    /\ IF ~cmd.ignore /\ CoolingDown(p, cmd.table) THEN cmd' = Ended(p, "cooldown_active")
       ELSE IF ~cmd.live THEN cmd' = Ended(p, "skipped")
       ELSE \/ \E code \in {"credential_required", "provider_unavailable"} \intersect Failures :
                 cmd' = Ended(p, code)
            \/ cmd' = [cmd EXCEPT !.pc = "request", !.requests = RequestsFor(p, cmd.targets)]
    /\ UNCHANGED <<evidence, summary, cooldowns, clock, crashes, quiet>>

Requesting == cmd.pc = "request" /\ cmd.requests # << >>
OnlyTheCommand == UNCHANGED <<evidence, summary, cooldowns, clock, crashes, quiet>>

\* The map arrives: it knows some of the targets.
ReplyMap(known) ==
    /\ Requesting /\ Head(cmd.requests) \in {Map, SpareMap}
    /\ cmd' = [cmd EXCEPT !.attempt = 1, !.requests = RequestsAfterMap(known, cmd.targets)]
    /\ OnlyTheCommand

\* Facts about the tickers asked for, or none.
Reply(found) ==
    /\ Requesting /\ Head(cmd.requests) \notin {Map, SpareMap}
    /\ cmd' = [cmd EXCEPT !.attempt = 1, !.requests = Tail(@), !.found = @ \o found]
    /\ OnlyTheCommand

\* Mutant: one attempt too many.
FailOnceMore(code) ==
    /\ Requesting
    /\ cmd' = IF code \in Transient /\ cmd.attempt <= MaxAttempts
              THEN [cmd EXCEPT !.attempt = @ + 1]
              ELSE Ended(Head(cmd.todo), code)
    /\ OnlyTheCommand

\* Mutant: the second source of the map has itself as a second source.
FailWithSpareForSpare(code) ==
    /\ Requesting
    /\ IF code \in Transient /\ cmd.attempt < MaxAttempts
       THEN cmd' = [cmd EXCEPT !.attempt = @ + 1]
       ELSE IF /\ KindOf[Head(cmd.todo)] = "spare_map"
               /\ Head(cmd.requests) \in {Map, SpareMap} /\ code \in SpareMapAfter
       THEN cmd' = [cmd EXCEPT !.attempt = 1, !.requests = <<SpareMap>>]
       ELSE cmd' = Ended(Head(cmd.todo), code)
    /\ OnlyTheCommand

\* One HTTP attempt fails.  _request_json tries a transient failure again; any other, and
\* the last one, ends the provider, unless its map has a second source.
Fail(code) ==
    /\ Requesting
    /\ IF code \in Transient /\ cmd.attempt < MaxAttempts
       THEN cmd' = [cmd EXCEPT !.attempt = @ + 1]
       ELSE IF /\ KindOf[Head(cmd.todo)] = "spare_map" /\ Head(cmd.requests) = Map
               /\ code \in SpareMapAfter
       THEN cmd' = [cmd EXCEPT !.attempt = 1, !.requests = <<SpareMap>>]
       ELSE cmd' = Ended(Head(cmd.todo), code)
    /\ OnlyTheCommand

EndProvider ==
    /\ cmd.pc = "request" /\ cmd.requests = << >>
    /\ cmd' = Ended(Head(cmd.todo), IF cmd.found = << >> THEN "no_data" ELSE "success")
    /\ OnlyTheCommand

WriteEvidence ==
    /\ cmd.pc = "provider" /\ cmd.todo = << >>
    /\ evidence' = File(Deduped(cmd.candidates))
    /\ cmd' = [cmd EXCEPT !.pc = "summary"]
    /\ UNCHANGED <<summary, cooldowns, clock, crashes, quiet>>

WriteSummary ==
    /\ cmd.pc = "summary"
    /\ summary' = File([status |-> [p \in DOMAIN cmd.outcome |-> cmd.outcome[p].status],
                        coverage |-> Coverage(cmd.board, cmd.targets, Deduped(cmd.candidates),
                                              cmd.outcome)])
    /\ cmd' = IF cmd.keep THEN [cmd EXCEPT !.pc = "cooldowns"] ELSE Idle
    /\ UNCHANGED <<evidence, cooldowns, clock, crashes, quiet>>

\* Mutant: only the providers asked now are written back.
KeptCooldownsOfNow == [p \in {q \in DOMAIN cmd.table : cmd.outcome[q].status \in Refusals} |->
                          cmd.table[p]]

KeptCooldowns == cmd.table

\* A policy failure is raised only after all three files are written.
WriteCooldowns ==
    /\ cmd.pc = "cooldowns"
    /\ cooldowns' = File(KeptCooldowns)
    /\ quiet' = [p \in ProviderSet |->
                    IF cmd.outcome[p].status \in Refusals THEN cmd.table[p] ELSE quiet[p]]
    /\ cmd' = Idle
    /\ UNCHANGED <<evidence, summary, clock, crashes>>

\* The process dies; the file it was writing may be torn.
Crash ==
    LET maybeTorn(file, writing) == {file} \union (IF writing THEN {Torn} ELSE {}) IN
    /\ cmd.pc # "idle" /\ crashes < MaxCrashes
    /\ crashes' = crashes + 1
    /\ evidence' \in maybeTorn(evidence, cmd.pc = "provider" /\ cmd.todo = << >>)
    /\ summary' \in maybeTorn(summary, cmd.pc = "summary")
    /\ cooldowns' \in maybeTorn(cooldowns, cmd.pc = "cooldowns")
    /\ cmd' = Idle
    /\ UNCHANGED <<clock, quiet>>

Tick ==
    /\ clock < MaxClock
    /\ clock' = clock + 1
    /\ UNCHANGED <<evidence, summary, cooldowns, cmd, crashes, quiet>>

\* What a request about tickers can bring, as far as it matters: at most one candidate
\* of each provider, ticker and fact.
Answers(p, asked) ==
    {<< >>} \union
    {<<c>> : c \in {d \in Candidates : d.provider = p /\ d.ticker \in asked}}

Step ==
    \/ NextProvider
    \/ \E known \in SUBSET Range(cmd.targets) : ReplyMap(known)
    \/ Requesting /\ \E found \in Answers(Head(cmd.todo), IF Head(cmd.requests) \in {Map, SpareMap}
                                                          THEN {} ELSE Head(cmd.requests)) :
                        Reply(found)
    \/ \E code \in Failures : Fail(code)
    \/ EndProvider
    \/ WriteEvidence \/ WriteSummary \/ WriteCooldowns

Next ==
    \/ \E board \in Boards, live, keep, ignore \in BOOLEAN :
         (ignore => keep) /\ Start(board, live, keep, ignore)
    \/ Step \/ Crash \/ Tick

Spec == Init /\ [][Next]_vars

\* The process runs on; nothing is assumed of the providers.
FairSpec == Spec /\ WF_vars(Step)

-----------------------------------------------------------------------------
(* Properties *)

Outcomes == [status : Statuses, tickers : SUBSET Tickers]
States == {"covered", "failed", "skipped", "no_data", "not_run", "excluded_ambiguous_bare_ticker"}
Partial(f, S, T) == DOMAIN f \subseteq S /\ f \in [DOMAIN f -> T]
IsTable(f) ==
    Partial(f, ProviderSet, Nat) /\ \A p \in DOMAIN f : f[p] <= MaxClock + DurationOf[p]

\* The files and the command's memory; no request is tried more often than allowed.
TypeOK ==
    /\ \/ evidence \in {Missing, Torn}
       \/ evidence.is = "file" /\ evidence.data \subseteq Candidates
    /\ \/ summary \in {Missing, Torn}
       \/ /\ summary.is = "file" /\ summary.data.status \in [ProviderSet -> Statuses]
          /\ \A c \in Categories : Partial(summary.data.coverage[c], Tickers, States)
    /\ cooldowns \in {Missing, Torn} \/ (cooldowns.is = "file" /\ IsTable(cooldowns.data))
    /\ cmd.pc \in {"idle", "provider", "request", "summary", "cooldowns"}
    /\ cmd.attempt \in 1..MaxAttempts
    /\ Range(cmd.targets) \subseteq Tickers /\ Len(cmd.targets) <= MaxTargets
    /\ Range(cmd.todo) = ProviderSet \ DOMAIN cmd.outcome \/ cmd.pc = "idle"
    /\ Partial(cmd.outcome, ProviderSet, Outcomes) /\ IsTable(cmd.table)
    /\ Range(cmd.found) \union Range(cmd.candidates) \subseteq Candidates
    /\ clock \in 0..MaxClock /\ crashes \in 0..MaxCrashes
    /\ DOMAIN quiet = ProviderSet /\ IsTable(quiet)

\* A provider whose refusal was recorded gets no request before its time is up, whatever
\* commands, crashes and commands that ignored it came in between (_read_cooldowns,
\* _active_cooldown, _write_cooldowns; collector.py).
RefusedAreLeftAlone ==
    (Requesting /\ cmd.keep /\ ~cmd.ignore) => clock >= quiet[Head(cmd.todo)]

\* The two files agree: evidence comes from providers
\* that succeeded and from each of them; a ticker is covered exactly if there is evidence
\* about it; and where the summary says that there is no data, every provider of the
\* category that was asked answered, so that a failure never passes for absence.
SummaryTellsTheEvidence ==
    LET items == evidence.data
        status == summary.data.status
    IN (evidence.is = "file" /\ summary.is = "file") =>
        /\ {i.provider : i \in items} = {p \in ProviderSet : status[p] = "success"}
        /\ \A c \in Categories : \A t \in DOMAIN summary.data.coverage[c] :
             LET state == summary.data.coverage[c][t] IN
             /\ state = "covered" <=> \E i \in items : CategoryOf[i.provider] = c /\ i.ticker = t
             /\ state = "no_data" => \A p \in ProviderSet :
                    CategoryOf[p] = c => status[p] \in {"success", "no_data"}

\* Dropping duplicates loses nothing: what any provider that succeeded found is in the
\* evidence, as rich as it was found, and only once (_dedupe_candidates).
NothingIsLost ==
    cmd.pc = "summary" =>
        /\ \A c \in Range(cmd.candidates) :
             \E i \in evidence.data : Key(i) = Key(c) /\ (c.rich => i.rich)
        /\ \A i, j \in evidence.data : Key(i) = Key(j) => i = j

\* A command ends, whatever the providers answer: retries and second sources are bounded
\* (_request_json, _sec_load_ticker_map).
CollectionEnds == (cmd.pc # "idle") ~> (cmd.pc = "idle")

=============================================================================
