-------------------------- MODULE UniverseLifecycle --------------------------
(***************************************************************************)
(* Which ETFs and brands are tracked (adapters/operational_universe.py):   *)
(* `collect-universe-fixture` and `collect-source-catalog` compare a       *)
(* complete collection with the universe state, report what has changed    *)
(* and rewrite the state, in which what is gone stays with status          *)
(* "removed".  Catalog, summary and state are written one after the other; *)
(* a collection may die at any step.  Collections do not overlap.          *)
(*                                                                         *)
(* Names are for display and left out: an ETF is tracked by its brand and  *)
(* its provider, a brand by its provider.                                  *)
(***************************************************************************)
CONSTANTS Etfs, Brands, Providers

VARIABLES
    catalog,   \* source_catalog.json
    state,     \* universe_state.json
    run,       \* the collection in progress
    told,      \* observation: what a reader of every summary takes to be tracked
    seen,      \* observation: the ETFs and brands that were ever in the state
    ahead      \* observation: a collection died after its summary and before its
               \* state, and no collection of a catalog was completed since

vars == <<catalog, state, run, told, seen, ahead>>

Nothing == << >>
Some(S, T) == UNION {[D -> T] : D \in (SUBSET S) \ {{}}}
Partial(f, S, T) == DOMAIN f \subseteq S /\ f \in [DOMAIN f -> T]
Garbled == [is |-> "garbled"]     \* truncated and not yet written: not JSON
Absent == [is |-> "absent"]
File(data) == [is |-> "file", data |-> data]

Statuses == {"active", "removed"}
Metadata == [brand : Brands, provider : Providers]
NoUniverse == [etfs |-> Nothing, brands |-> Nothing]

\* The fixtures that are accepted: complete, no list empty, no brand unknown.
Fixtures ==
    {f \in [etfs : Some(Etfs, Metadata), brands : Some(Brands, Providers)] :
        \A e \in DOMAIN f.etfs : f.etfs[e].brand \in DOMAIN f.brands}

\* The catalogs that are accepted: complete, not empty, of one provider.  Each entry
\* is classified as an active strategy, a passive one or neither.
Catalogs ==
    [provider : Providers,
     entries : Some(Etfs, [brand : Brands, strategy : {"active", "passive", "unknown"}])]

ActiveStrategy(c) == {e \in DOMAIN c.entries : c.entries[e].strategy = "active"}

\* Mutant: an ETF nobody could classify is tracked too, without its brand.
FromCatalogWithUnknown(c) ==
    [etfs |-> [e \in {x \in DOMAIN c.entries : c.entries[x].strategy # "passive"} |->
                  [brand |-> c.entries[e].brand, provider |-> c.provider]],
     brands |-> [b \in {c.entries[e].brand : e \in ActiveStrategy(c)} |-> c.provider]]

\* What collect_source_catalog takes from a catalog: its active strategies, possibly
\* none, and their brands.
FromCatalog(c) ==
    [etfs |-> [e \in ActiveStrategy(c) |->
                  [brand |-> c.entries[e].brand, provider |-> c.provider]],
     brands |-> [b \in {c.entries[e].brand : e \in ActiveStrategy(c)} |-> c.provider]]

Idle == [pc |-> "idle", kind |-> "fixture", collected |-> NoUniverse,
         previous |-> NoUniverse, catalog |-> Nothing]

Init ==
    /\ catalog = Absent
    /\ state = File(NoUniverse)    \* no file: nothing is tracked
    /\ run = Idle
    /\ told = NoUniverse
    /\ seen = {}
    /\ ahead = FALSE

-----------------------------------------------------------------------------
(* What a collection computes: from what was collected and the previous state *)

\* Mutant: what is not collected any more is dropped.
NextEtfsOnlyCollected(collected, previous) ==
    [e \in DOMAIN collected.etfs |->
        [brand |-> collected.etfs[e].brand, provider |-> collected.etfs[e].provider,
         status |-> "active"]]

\* Mutant: an ETF that is back keeps its status.
NextEtfsKeepStatus(collected, previous) ==
    [e \in DOMAIN collected.etfs \union DOMAIN previous.etfs |->
        IF e \in DOMAIN collected.etfs
        THEN [brand |-> collected.etfs[e].brand, provider |-> collected.etfs[e].provider,
              status |-> IF e \in DOMAIN previous.etfs THEN previous.etfs[e].status
                         ELSE "active"]
        ELSE [previous.etfs[e] EXCEPT !.status = "removed"]]

NextEtfs(collected, previous) ==
    [e \in DOMAIN collected.etfs \union DOMAIN previous.etfs |->
        IF e \in DOMAIN collected.etfs
        THEN [brand |-> collected.etfs[e].brand, provider |-> collected.etfs[e].provider,
              status |-> "active"]
        ELSE [previous.etfs[e] EXCEPT !.status = "removed"]]

ActiveBrands(collected) == {collected.etfs[e].brand : e \in DOMAIN collected.etfs}

\* Mutant: a brand is active when it was collected, with an ETF or not.
NextBrandsOfCollection(collected, previous) ==
    [b \in DOMAIN collected.brands \union DOMAIN previous.brands |->
        [provider |-> IF b \in DOMAIN collected.brands THEN collected.brands[b]
                      ELSE previous.brands[b].provider,
         status |-> IF b \in DOMAIN collected.brands THEN "active" ELSE "removed"]]

\* A brand is active when an ETF of the collection has it.
NextBrands(collected, previous) ==
    [b \in DOMAIN collected.brands \union DOMAIN previous.brands |->
        [provider |-> IF b \in DOMAIN collected.brands THEN collected.brands[b]
                      ELSE previous.brands[b].provider,
         status |-> IF b \in ActiveBrands(collected) THEN "active" ELSE "removed"]]

NextState(collected, previous) ==
    [etfs |-> NextEtfs(collected, previous), brands |-> NextBrands(collected, previous)]

\* Mutant: an ETF that is back is unchanged.
SameEtfWhateverStatus(now, before) ==
    now.brand = before.brand /\ now.provider = before.provider

SameEtf(now, before) ==
    now.brand = before.brand /\ now.provider = before.provider /\ before.status = "active"

SameBrand(provider, before) == provider = before.provider /\ before.status = "active"

\* The ETFs and the brands that a fixture's summary reports as added or changed, and
\* those it reports as removed.
ReportedEtfs(collected, previous) ==
    {e \in DOMAIN collected.etfs :
        e \in DOMAIN previous.etfs => ~SameEtf(collected.etfs[e], previous.etfs[e])}
RemovedEtfs(collected, previous) ==
    {e \in DOMAIN previous.etfs \ DOMAIN collected.etfs : previous.etfs[e].status = "active"}
ReportedBrands(collected, previous) ==
    {b \in ActiveBrands(collected) :
        b \in DOMAIN previous.brands => ~SameBrand(collected.brands[b], previous.brands[b])}
RemovedBrands(collected, previous) ==
    {b \in DOMAIN previous.brands \ ActiveBrands(collected) :
        previous.brands[b].status = "active"}

Overlay(f, removed, reported, g) ==
    [x \in (DOMAIN f \ removed) \union reported |-> IF x \in reported THEN g[x] ELSE f[x]]

\* What the reader of a summary takes to be tracked: after a fixture's what it knew
\* with the reported changes; after a catalog's, which lists the entries with their
\* classification and no changes, exactly the active strategies.
Told(kind, collected, previous) ==
    IF kind = "catalog" THEN collected
    ELSE [etfs |-> Overlay(told.etfs, RemovedEtfs(collected, previous),
                           ReportedEtfs(collected, previous), collected.etfs),
          brands |-> Overlay(told.brands, RemovedBrands(collected, previous),
                             ReportedBrands(collected, previous), collected.brands)]

\* The ETFs that holdings are fetched of: active strategies of the catalog that are
\* active in the state; a file that cannot be read stops the command.
Targets ==
    IF catalog.is # "file" \/ state = Garbled THEN {}
    ELSE {e \in ActiveStrategy(catalog.data) :
             e \in DOMAIN state.data.etfs /\ state.data.etfs[e].status = "active"}

-----------------------------------------------------------------------------
(* The steps of a collection *)

\* The state is read; one that is not JSON ends the command, as an invalid input does.
CollectFixture(f) ==
    /\ run.pc = "idle"
    /\ state # Garbled
    /\ run' = [Idle EXCEPT !.pc = "summary", !.collected = f, !.previous = state.data]
    /\ UNCHANGED <<catalog, state, told, seen, ahead>>

CollectCatalog(c) ==
    /\ run.pc = "idle"
    /\ state # Garbled
    /\ run' = [pc |-> "open_catalog", kind |-> "catalog", collected |-> FromCatalog(c),
               previous |-> state.data, catalog |-> c]
    /\ UNCHANGED <<catalog, state, told, seen, ahead>>

OpenCatalog ==
    /\ run.pc = "open_catalog"
    /\ catalog' = Garbled
    /\ run' = [run EXCEPT !.pc = "write_catalog"]
    /\ UNCHANGED <<state, told, seen, ahead>>

WriteCatalog ==
    /\ run.pc = "write_catalog"
    /\ catalog' = File(run.catalog)
    /\ run' = [run EXCEPT !.pc = "summary", !.catalog = Nothing]
    /\ UNCHANGED <<state, told, seen, ahead>>

\* No collection reads a summary back; one that was not written to its end tells nothing.
WriteSummary ==
    /\ run.pc = "summary"
    /\ told' = Told(run.kind, run.collected, run.previous)
    /\ run' = [run EXCEPT !.pc = "open_state"]
    /\ UNCHANGED <<catalog, state, seen, ahead>>

OpenState ==
    /\ run.pc = "open_state"
    /\ state' = Garbled
    /\ run' = [run EXCEPT !.pc = "write_state"]
    /\ UNCHANGED <<catalog, told, seen, ahead>>

WriteState ==
    LET next == NextState(run.collected, run.previous) IN
    /\ run.pc = "write_state"
    /\ state' = File(next)
    /\ seen' = seen \union DOMAIN next.etfs \union DOMAIN next.brands
    /\ run' = Idle
    /\ ahead' = (ahead /\ run.kind = "fixture")
    /\ UNCHANGED <<catalog, told>>

\* The process dies; what it wrote stays.
Crash ==
    /\ run.pc # "idle"
    /\ run' = Idle
    /\ ahead' = (ahead \/ run.pc \in {"open_state", "write_state"})
    /\ UNCHANGED <<catalog, state, told, seen>>

Next ==
    \/ \E f \in Fixtures : CollectFixture(f)
    \/ \E c \in Catalogs : CollectCatalog(c)
    \/ OpenCatalog \/ WriteCatalog \/ WriteSummary \/ OpenState \/ WriteState
    \/ Crash

Spec == Init /\ [][Next]_vars

-----------------------------------------------------------------------------
(* Properties *)

Collection(c) ==
    /\ Partial(c.etfs, Etfs, Metadata)
    /\ Partial(c.brands, Brands, Providers)

Universe(u) ==
    /\ Partial(u.etfs, Etfs, [brand : Brands, provider : Providers, status : Statuses])
    /\ Partial(u.brands, Brands, [provider : Providers, status : Statuses])

\* The files and the collection in progress, whose ETFs have brands that it knows of.
TypeOK ==
    /\ catalog \in {Absent, Garbled} \union {File(c) : c \in Catalogs}
    /\ state # Garbled => state = File(state.data) /\ Universe(state.data)
    /\ DOMAIN run = DOMAIN Idle
    /\ run.pc \in {"idle", "open_catalog", "write_catalog", "summary", "open_state",
                   "write_state"}
    /\ run.kind \in {"fixture", "catalog"}
    /\ Collection(run.collected) /\ Universe(run.previous)
    /\ \A e \in DOMAIN run.collected.etfs :
         run.collected.etfs[e].brand \in DOMAIN run.collected.brands
    /\ run.pc \in {"open_catalog", "write_catalog"} => run.catalog \in Catalogs
    /\ seen \subseteq Etfs \union Brands
    /\ ahead \in BOOLEAN

\* Every ETF of a universe, removed or not, has a brand the universe knows of; and a
\* brand is active exactly when an active ETF has it.
BrandsFit(u) ==
    /\ \A e \in DOMAIN u.etfs : u.etfs[e].brand \in DOMAIN u.brands
    /\ \A b \in DOMAIN u.brands :
         u.brands[b].status = "active" <=>
             \E e \in DOMAIN u.etfs : u.etfs[e].status = "active" /\ u.etfs[e].brand = b

\* However collections follow one another, ETFs move between brands, vanish and come
\* back, the state's two lists fit together (_next_state_etfs, _next_state_brands).
BrandsOfTheStateFit == state # Garbled => BrandsFit(state.data)

\* "A removed ETF remains in local universe state" and so does a brand (CONTEXT.md):
\* what was ever in the state is in it, through crashes and other providers' catalogs.
NothingIsForgotten ==
    state # Garbled => seen \subseteq DOMAIN state.data.etfs \union DOMAIN state.data.brands

\* UniverseMetadataChange: who applies the reported changes of every summary knows
\* what is active in the state, unless a collection died after it reported a change
\* that it never made and no catalog's summary, which lists everything, came since
\* (_etf_changes, _brand_changes, and the summary written first).
Active(f) == {x \in DOMAIN f : f[x].status = "active"}
ToldIsTrue ==
    state # Garbled /\ run.pc # "open_state" /\ ~ahead =>
        /\ told.etfs = [e \in Active(state.data.etfs) |->
               [brand |-> state.data.etfs[e].brand, provider |-> state.data.etfs[e].provider]]
        /\ told.brands = [b \in Active(state.data.brands) |-> state.data.brands[b].provider]

\* Whatever died before it, and whoever wrote the state, one complete collection of a
\* catalog puts the files in step: holdings are fetched of exactly its active
\* strategies (collect_source_catalog, _source_holdings_targets).
CatalogRestoresTargets ==
    [][WriteState /\ run.kind = "catalog" => Targets' = ActiveStrategy(catalog.data)]_vars

=============================================================================
