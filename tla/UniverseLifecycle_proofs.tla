----------------------- MODULE UniverseLifecycle_proofs -----------------------
(***************************************************************************)
(* Theorems about UniverseLifecycle, for any ETFs, brands and providers.   *)
(***************************************************************************)
EXTENDS UniverseLifecycle, TLAPS

LEMMA SomeIsPartial ==
    ASSUME NEW S, NEW T, NEW f \in Some(S, T)
    PROVE  Partial(f, S, T)
BY DEF Some, Partial

LEMMA NothingIsPartial ==
    ASSUME NEW S, NEW T
    PROVE  Partial(Nothing, S, T) /\ DOMAIN Nothing = {}
BY DEF Partial, Nothing

LEMMA NoUniverseType ==
    Collection(NoUniverse) /\ Universe(NoUniverse)
    /\ DOMAIN NoUniverse.etfs = {} /\ DOMAIN NoUniverse.brands = {}
BY NothingIsPartial DEF Collection, Universe, NoUniverse

\* What the invariant needs to know of a collection.
Sound(c) ==
    Collection(c) /\ \A e \in DOMAIN c.etfs : c.etfs[e].brand \in DOMAIN c.brands

LEMMA FixtureIsSound ==
    ASSUME NEW f \in Fixtures
    PROVE  Sound(f)
<1>1. f.etfs \in Some(Etfs, Metadata) /\ f.brands \in Some(Brands, Providers)
      /\ \A e \in DOMAIN f.etfs : f.etfs[e].brand \in DOMAIN f.brands
  BY DEF Fixtures
<1> QED
  BY <1>1, SomeIsPartial DEF Sound, Collection

\* A catalog's collection has no other brands than those of its active strategies.
LEMMA CatalogIsSound ==
    ASSUME NEW c \in Catalogs
    PROVE  /\ Sound(FromCatalog(c))
           /\ DOMAIN FromCatalog(c).brands = ActiveBrands(FromCatalog(c))
           /\ DOMAIN FromCatalog(c).etfs = ActiveStrategy(c)
<1> DEFINE Entry == [brand : Brands, strategy : {"active", "passive", "unknown"}]
           active == ActiveStrategy(c)
           etfs == [e \in active |-> [brand |-> c.entries[e].brand, provider |-> c.provider]]
           brands == [b \in {c.entries[e].brand : e \in active} |-> c.provider]
<1>1. c.provider \in Providers /\ c.entries \in Some(Etfs, Entry)
  BY DEF Catalogs
<1>2. Partial(c.entries, Etfs, Entry)
  BY <1>1, SomeIsPartial
<1>3. active \subseteq Etfs /\ \A e \in active : c.entries[e] \in Entry
  BY <1>2 DEF Partial, ActiveStrategy
<1>4. Partial(etfs, Etfs, Metadata)
  BY <1>1, <1>3 DEF Partial, Metadata
<1>5. Partial(brands, Brands, Providers)
  BY <1>1, <1>3 DEF Partial
<1>6. FromCatalog(c) = [etfs |-> etfs, brands |-> brands]
  BY DEF FromCatalog
<1>7. \A e \in active : etfs[e].brand = c.entries[e].brand
  OBVIOUS
<1>8. DOMAIN etfs = active /\ DOMAIN brands = {c.entries[e].brand : e \in active}
  OBVIOUS
<1> HIDE DEF etfs, brands, active
<1>9. {etfs[e].brand : e \in active} = DOMAIN brands
  BY <1>7, <1>8
<1> QED
  BY <1>4, <1>5, <1>6, <1>7, <1>8, <1>9 DEF Sound, Collection, ActiveBrands, active

\* The next state is a universe whose two lists fit, and forgets nothing.
LEMMA NextStateFits ==
    ASSUME NEW c, NEW u, Sound(c), Universe(u), BrandsFit(u)
    PROVE  LET next == NextState(c, u)
           IN /\ Universe(next) /\ BrandsFit(next)
              /\ DOMAIN next.etfs = DOMAIN c.etfs \union DOMAIN u.etfs
              /\ DOMAIN next.brands = DOMAIN c.brands \union DOMAIN u.brands
<1> DEFINE etfs == NextEtfs(c, u)
           brands == NextBrands(c, u)
           BrandType == [provider : Providers, status : Statuses]
<1>1. /\ DOMAIN c.etfs \subseteq Etfs /\ \A e \in DOMAIN c.etfs : c.etfs[e] \in Metadata
      /\ DOMAIN c.brands \subseteq Brands
      /\ \A b \in DOMAIN c.brands : c.brands[b] \in Providers
      /\ DOMAIN u.etfs \subseteq Etfs
      /\ \A e \in DOMAIN u.etfs :
            u.etfs[e] \in [brand : Brands, provider : Providers, status : Statuses]
      /\ DOMAIN u.brands \subseteq Brands
      /\ \A b \in DOMAIN u.brands : u.brands[b] \in BrandType
  BY DEF Sound, Collection, Universe, Partial
<1>2. /\ DOMAIN etfs = DOMAIN c.etfs \union DOMAIN u.etfs
      /\ DOMAIN brands = DOMAIN c.brands \union DOMAIN u.brands
  BY DEF NextEtfs, NextBrands
<1>3. \A e \in DOMAIN c.etfs :
          /\ etfs[e] = [brand |-> c.etfs[e].brand, provider |-> c.etfs[e].provider,
                        status |-> "active"]
          /\ etfs[e].brand = c.etfs[e].brand /\ etfs[e].status = "active"
  BY DEF NextEtfs
<1>4. \A e \in DOMAIN u.etfs \ DOMAIN c.etfs :
          /\ etfs[e] = [u.etfs[e] EXCEPT !.status = "removed"]
          /\ etfs[e].brand = u.etfs[e].brand /\ etfs[e].status = "removed"
  BY <1>1 DEF NextEtfs
<1>5. \A e \in DOMAIN etfs :
          etfs[e] \in [brand : Brands, provider : Providers, status : Statuses]
  <2>1. ASSUME NEW e \in DOMAIN c.etfs
        PROVE  etfs[e] \in [brand : Brands, provider : Providers, status : Statuses]
    <3>1. c.etfs[e].brand \in Brands /\ c.etfs[e].provider \in Providers
      BY <1>1, <2>1 DEF Metadata
    <3>2. etfs[e] = [brand |-> c.etfs[e].brand, provider |-> c.etfs[e].provider,
                     status |-> "active"]
      BY <1>3, <2>1
    <3> QED
      BY <3>1, <3>2 DEF Statuses
  <2>2. ASSUME NEW e \in DOMAIN u.etfs \ DOMAIN c.etfs
        PROVE  etfs[e] \in [brand : Brands, provider : Providers, status : Statuses]
    <3>1. u.etfs[e] \in [brand : Brands, provider : Providers, status : Statuses]
      BY <1>1, <2>2
    <3>2. etfs[e] = [u.etfs[e] EXCEPT !.status = "removed"]
      BY <1>4, <2>2
    <3> QED
      BY <3>1, <3>2 DEF Statuses
  <2> QED
    BY <1>2, <2>1, <2>2
<1>6. \A b \in DOMAIN brands : brands[b] \in BrandType
      /\ (brands[b].status = "active" <=> b \in ActiveBrands(c))
  BY <1>1 DEF NextBrands, Statuses
<1>7. etfs = [e \in DOMAIN etfs |-> etfs[e]] /\ brands = [b \in DOMAIN brands |-> brands[b]]
  BY DEF NextEtfs, NextBrands
<1>8. NextState(c, u) = [etfs |-> etfs, brands |-> brands]
  BY DEF NextState
<1> HIDE DEF etfs, brands
<1>9. Partial(etfs, Etfs, [brand : Brands, provider : Providers, status : Statuses])
  BY <1>1, <1>2, <1>5, <1>7 DEF Partial
<1>10. Partial(brands, Brands, BrandType)
  BY <1>1, <1>2, <1>6, <1>7 DEF Partial
<1>11. \A e \in DOMAIN etfs : etfs[e].brand \in DOMAIN brands
  <2>1. ASSUME NEW e \in DOMAIN c.etfs PROVE etfs[e].brand \in DOMAIN brands
    <3>1. etfs[e].brand = c.etfs[e].brand
      BY <1>3, <2>1
    <3> QED
      BY <1>2, <2>1, <3>1 DEF Sound
  <2>2. ASSUME NEW e \in DOMAIN u.etfs \ DOMAIN c.etfs PROVE etfs[e].brand \in DOMAIN brands
    <3>1. etfs[e].brand = u.etfs[e].brand
      BY <1>4, <2>2
    <3> QED
      BY <1>2, <2>2, <3>1 DEF BrandsFit
  <2> QED
    BY <1>2, <2>1, <2>2
<1>12. \A b : b \in ActiveBrands(c) <=>
           \E e \in DOMAIN etfs : etfs[e].status = "active" /\ etfs[e].brand = b
  <2>1. \A e \in DOMAIN u.etfs \ DOMAIN c.etfs : etfs[e].status = "removed"
    BY <1>4
  <2>2. \A e \in DOMAIN c.etfs : etfs[e].status = "active" /\ etfs[e].brand = c.etfs[e].brand
    BY <1>3
  <2> QED
    BY <1>2, <2>1, <2>2 DEF ActiveBrands
<1>13. BrandsFit([etfs |-> etfs, brands |-> brands])
  BY <1>6, <1>11, <1>12 DEF BrandsFit
<1> QED
  BY <1>2, <1>8, <1>9, <1>10, <1>13 DEF Universe

-----------------------------------------------------------------------------
(* Types and the two lists of the state *)

\* What the state lists, and what was read of it, fits together and has all that was
\* ever seen; the collection in progress is sound.
Known(u) == DOMAIN u.etfs \union DOMAIN u.brands
Kept(u) == BrandsFit(u) /\ seen \subseteq Known(u)
StateInv ==
    /\ TypeOK
    /\ state # Garbled => Kept(state.data)
    /\ run.pc # "idle" => Kept(run.previous)

LEMMA IdleRun ==
    /\ Idle.pc = "idle" /\ Idle.kind = "fixture"
    /\ Idle.collected = NoUniverse /\ Idle.previous = NoUniverse
BY DEF Idle

LEMMA StateInvInit == Init => StateInv
<1> SUFFICES ASSUME Init PROVE StateInv
  OBVIOUS
<1>1. state = File(NoUniverse) /\ state.data = NoUniverse /\ run = Idle /\ seen = {}
  BY DEF Init, File
<1>2. catalog = Absent /\ ahead = FALSE
  BY DEF Init
<1>3. TypeOK
  BY <1>1, <1>2, IdleRun, NoUniverseType DEF TypeOK
<1>4. Kept(NoUniverse)
  BY <1>1, NoUniverseType DEF Kept, BrandsFit
<1> QED
  BY <1>1, <1>3, <1>4, IdleRun DEF StateInv

LEMMA StateInvStep == StateInv /\ [Next]_vars => StateInv'
<1> SUFFICES ASSUME StateInv, [Next]_vars PROVE StateInv'
  OBVIOUS
<1> DEFINE RunType(r) ==
             /\ DOMAIN r = DOMAIN Idle
             /\ r.pc \in {"idle", "open_catalog", "write_catalog", "summary", "open_state",
                          "write_state"}
             /\ r.kind \in {"fixture", "catalog"}
             /\ Sound(r.collected) /\ Universe(r.previous)
             /\ r.pc \in {"open_catalog", "write_catalog"} => r.catalog \in Catalogs
           StateType(s) == s # Garbled => s = File(s.data) /\ Universe(s.data)
           CatalogType(c) == c \in {Absent, Garbled} \union {File(d) : d \in Catalogs}
<1>0. /\ CatalogType(catalog) /\ StateType(state) /\ RunType(run)
      /\ seen \subseteq Etfs \union Brands /\ ahead \in BOOLEAN
      /\ state # Garbled => Kept(state.data)
      /\ run.pc # "idle" => Kept(run.previous)
  BY DEF StateInv, TypeOK, Sound
<1> DEFINE Goal ==
             /\ CatalogType(catalog') /\ StateType(state') /\ RunType(run')
             /\ seen' \subseteq Etfs \union Brands /\ ahead' \in BOOLEAN
             /\ state' # Garbled => BrandsFit(state'.data) /\ seen' \subseteq Known(state'.data)
             /\ run'.pc # "idle" =>
                  BrandsFit(run'.previous) /\ seen' \subseteq Known(run'.previous)
<1>1. SUFFICES Goal
  BY DEF StateInv, TypeOK, Sound, Kept
<1>2. RunType(Idle) /\ Idle.pc = "idle"
  BY IdleRun, NoUniverseType DEF Sound
<1>3. /\ state # Garbled => BrandsFit(state.data) /\ seen \subseteq Known(state.data)
      /\ run.pc # "idle" => BrandsFit(run.previous) /\ seen \subseteq Known(run.previous)
  BY <1>0 DEF Kept
<1>4. ASSUME NEW f \in Fixtures, CollectFixture(f) PROVE Goal
  <2>1. /\ DOMAIN run' = DOMAIN Idle /\ run'.pc = "summary" /\ run'.kind = "fixture"
        /\ run'.collected = f /\ run'.previous = state.data
    BY <1>4 DEF CollectFixture, Idle
  <2>2. RunType(run')
    BY <1>0, <1>4, <2>1, FixtureIsSound DEF CollectFixture
  <2> QED
    BY <1>0, <1>3, <1>4, <2>1, <2>2 DEF CollectFixture
<1>5. ASSUME NEW c \in Catalogs, CollectCatalog(c) PROVE Goal
  <2>1. /\ DOMAIN run' = DOMAIN Idle /\ run'.pc = "open_catalog" /\ run'.kind = "catalog"
        /\ run'.collected = FromCatalog(c) /\ run'.previous = state.data /\ run'.catalog = c
    BY <1>5 DEF CollectCatalog, Idle
  <2>2. RunType(run')
    BY <1>0, <1>5, <2>1, CatalogIsSound DEF CollectCatalog
  <2> QED
    BY <1>0, <1>3, <1>5, <2>1, <2>2 DEF CollectCatalog
<1>6. ASSUME NEW pc \in {"write_catalog", "summary", "open_state", "write_state"},
             run' = [run EXCEPT !.pc = pc], run.pc # "idle",
             pc = "write_catalog" => run.pc = "open_catalog"
      PROVE  RunType(run') /\ run'.previous = run.previous
  <2>1. /\ DOMAIN run' = DOMAIN run /\ run'.pc = pc /\ run'.kind = run.kind
        /\ run'.collected = run.collected /\ run'.previous = run.previous
        /\ run'.catalog = run.catalog
    BY <1>0, <1>6 DEF Idle
  <2> QED
    BY <1>0, <1>6, <2>1
<1>7. CASE OpenCatalog
  BY <1>0, <1>3, <1>6, <1>7 DEF OpenCatalog
<1>8. CASE WriteCatalog
  <2>1. /\ DOMAIN run' = DOMAIN run /\ run'.pc = "summary" /\ run'.kind = run.kind
        /\ run'.collected = run.collected /\ run'.previous = run.previous
    BY <1>0, <1>8 DEF WriteCatalog, Idle
  <2>2. RunType(run')
    BY <1>0, <2>1
  <2>3. CatalogType(catalog')
    BY <1>0, <1>8 DEF WriteCatalog
  <2> QED
    BY <1>0, <1>3, <1>8, <2>1, <2>2, <2>3 DEF WriteCatalog
<1>9. CASE WriteSummary
  BY <1>0, <1>3, <1>6, <1>9 DEF WriteSummary
<1>10. CASE OpenState
  BY <1>0, <1>3, <1>6, <1>10 DEF OpenState
<1>11. CASE WriteState
  <2> DEFINE next == NextState(run.collected, run.previous)
  <2>1. /\ Universe(next) /\ BrandsFit(next)
        /\ DOMAIN next.etfs = DOMAIN run.collected.etfs \union DOMAIN run.previous.etfs
        /\ DOMAIN next.brands = DOMAIN run.collected.brands \union DOMAIN run.previous.brands
    BY <1>0, <1>3, <1>11, NextStateFits DEF WriteState
  <2>2. /\ state' = File(next) /\ run' = Idle /\ catalog' = catalog
        /\ seen' = seen \union DOMAIN next.etfs \union DOMAIN next.brands
        /\ ahead' \in BOOLEAN
    BY <1>0, <1>11 DEF WriteState
  <2>3. state'.data = next
    BY <2>2 DEF File
  <2>4. DOMAIN next.etfs \subseteq Etfs /\ DOMAIN next.brands \subseteq Brands
    BY <2>1 DEF Universe, Partial
  <2>5. seen \subseteq Known(next)
    BY <1>3, <1>11, <2>1 DEF Known, WriteState
  <2> HIDE DEF next
  <2> QED
    BY <1>0, <1>2, <2>1, <2>2, <2>3, <2>4, <2>5 DEF Known
<1>12. CASE Crash
  BY <1>0, <1>2, <1>3, <1>12 DEF Crash
<1>13. CASE UNCHANGED vars
  BY <1>0, <1>3, <1>13 DEF vars
<1> QED
  BY <1>4, <1>5, <1>7, <1>8, <1>9, <1>10, <1>11, <1>12, <1>13 DEF Next

\* Types, and what the state lists, whatever collections follow one another.
LEMMA StateInvariant == Spec => []StateInv
BY StateInvInit, StateInvStep, PTL DEF Spec

\* The files and the collection in progress keep their types (collect_universe_fixture,
\* collect_source_catalog), for any ETFs, brands and providers.
THEOREM TypeCorrect == Spec => []TypeOK
<1>1. StateInv => TypeOK
  BY DEF StateInv
<1> QED
  BY <1>1, StateInvariant, PTL

\* Every ETF of the state has a brand that is there too, and a brand is active exactly
\* when an active ETF has it (_next_state_etfs, _next_state_brands).
THEOREM ListsFit == Spec => []BrandsOfTheStateFit
<1>1. StateInv => BrandsOfTheStateFit
  BY DEF StateInv, Kept, BrandsOfTheStateFit
<1> QED
  BY <1>1, StateInvariant, PTL

\* No ETF and no brand that was ever in the state leaves it, whatever dies and whoever's
\* catalogs are collected (_next_state_etfs, _next_state_brands).
THEOREM StateForgetsNothing == Spec => []NothingIsForgotten
<1>1. StateInv => NothingIsForgotten
  BY DEF StateInv, Kept, Known, NothingIsForgotten
<1> QED
  BY <1>1, StateInvariant, PTL

-----------------------------------------------------------------------------
(* What a catalog's collection leaves behind *)

\* The collection in progress, the catalog it is of, and the state that it has read.
CatalogInv ==
    /\ run.pc \in {"open_catalog", "write_catalog"} =>
         run.kind = "catalog" /\ run.collected = FromCatalog(run.catalog)
    /\ run.pc \in {"summary", "open_state", "write_state"} /\ run.kind = "catalog" =>
         \E c \in Catalogs : catalog = File(c) /\ run.collected = FromCatalog(c)
    /\ run.pc \in {"open_catalog", "write_catalog", "summary", "open_state"} =>
         state = File(run.previous)
    /\ run.pc = "write_state" => state = Garbled

LEMMA CatalogInvInit == Init => CatalogInv
BY IdleRun DEF Init, CatalogInv

\* A step that only moves the collection on to its next phase.
LEMMA PhaseStep ==
    ASSUME StateInv, NEW pc, run' = [run EXCEPT !.pc = pc]
    PROVE  /\ run'.pc = pc /\ run'.kind = run.kind /\ run'.collected = run.collected
           /\ run'.previous = run.previous /\ run'.catalog = run.catalog
BY DEF StateInv, TypeOK, Idle

LEMMA CatalogInvStep == StateInv /\ CatalogInv /\ [Next]_vars => CatalogInv'
<1> SUFFICES ASSUME StateInv, CatalogInv, [Next]_vars PROVE CatalogInv'
  OBVIOUS
<1>1. ASSUME NEW f \in Fixtures, CollectFixture(f) PROVE CatalogInv'
  <2>1. run'.pc = "summary" /\ run'.kind = "fixture" /\ run'.previous = state.data
    BY <1>1 DEF CollectFixture, Idle
  <2>2. state' = File(run'.previous)
    BY <1>1, <2>1 DEF CollectFixture, StateInv, TypeOK
  <2> QED
    BY <2>1, <2>2 DEF CatalogInv
<1>2. ASSUME NEW c \in Catalogs, CollectCatalog(c) PROVE CatalogInv'
  <2>1. /\ run'.pc = "open_catalog" /\ run'.kind = "catalog" /\ run'.previous = state.data
        /\ run'.collected = FromCatalog(c) /\ run'.catalog = c
    BY <1>2 DEF CollectCatalog
  <2>2. state' = File(run'.previous)
    BY <1>2, <2>1 DEF CollectCatalog, StateInv, TypeOK
  <2> QED
    BY <2>1, <2>2 DEF CatalogInv
<1>3. CASE OpenCatalog
  BY <1>3, PhaseStep DEF OpenCatalog, CatalogInv
<1>4. CASE WriteCatalog
  <2>1. /\ run'.pc = "summary" /\ run'.kind = run.kind /\ run'.collected = run.collected
        /\ run'.previous = run.previous
    BY <1>4 DEF WriteCatalog, StateInv, TypeOK, Idle
  <2>2. run.catalog \in Catalogs
    BY <1>4 DEF WriteCatalog, StateInv, TypeOK
  <2> QED
    BY <1>4, <2>1, <2>2 DEF WriteCatalog, CatalogInv
<1>5. CASE WriteSummary
  BY <1>5, PhaseStep DEF WriteSummary, CatalogInv
<1>6. CASE OpenState
  BY <1>6, PhaseStep DEF OpenState, CatalogInv
<1>7. CASE WriteState \/ Crash
  BY <1>7, IdleRun DEF WriteState, Crash, CatalogInv
<1>8. CASE UNCHANGED vars
  BY <1>8 DEF vars, CatalogInv
<1> QED
  BY <1>1, <1>2, <1>3, <1>4, <1>5, <1>6, <1>7, <1>8 DEF Next

LEMMA CatalogInvariant == Spec => [](StateInv /\ CatalogInv)
BY CatalogInvInit, CatalogInvStep, StateInvariant, PTL DEF Spec

\* Exactly what was collected is active in the next state.
LEMMA NextIsCollected ==
    ASSUME NEW c, NEW u, Sound(c), Universe(u)
    PROVE  /\ Active(NextState(c, u).etfs) = DOMAIN c.etfs
           /\ Active(NextState(c, u).brands) = ActiveBrands(c)
           /\ \A e \in DOMAIN c.etfs :
                 /\ NextState(c, u).etfs[e].brand = c.etfs[e].brand
                 /\ NextState(c, u).etfs[e].provider = c.etfs[e].provider
           /\ \A b \in ActiveBrands(c) :
                 NextState(c, u).brands[b].provider = c.brands[b]
<1> DEFINE etfs == NextEtfs(c, u)
           brands == NextBrands(c, u)
<1>1. DOMAIN etfs = DOMAIN c.etfs \union DOMAIN u.etfs
      /\ DOMAIN brands = DOMAIN c.brands \union DOMAIN u.brands
  BY DEF NextEtfs, NextBrands
<1>2. \A e \in DOMAIN c.etfs : etfs[e].brand = c.etfs[e].brand
          /\ etfs[e].provider = c.etfs[e].provider /\ etfs[e].status = "active"
  BY DEF NextEtfs
<1>3. \A e \in DOMAIN u.etfs \ DOMAIN c.etfs : etfs[e].status = "removed"
  <2>1. \A e \in DOMAIN u.etfs :
            u.etfs[e] \in [brand : Brands, provider : Providers, status : Statuses]
    BY DEF Universe, Partial
  <2> QED
    BY <2>1 DEF NextEtfs
<1>4. \A b \in DOMAIN brands : brands[b].status = "active" <=> b \in ActiveBrands(c)
  BY DEF NextBrands
<1>5. \A b \in DOMAIN c.brands : brands[b].provider = c.brands[b]
  BY DEF NextBrands
<1>6. ActiveBrands(c) \subseteq DOMAIN c.brands
  BY DEF Sound, ActiveBrands
<1>7. NextState(c, u).etfs = etfs /\ NextState(c, u).brands = brands
  BY DEF NextState
<1> HIDE DEF etfs, brands
<1>8. Active(etfs) = DOMAIN c.etfs
  BY <1>1, <1>2, <1>3 DEF Active
<1>9. Active(brands) = ActiveBrands(c)
  BY <1>1, <1>4, <1>6 DEF Active
<1> QED
  BY <1>2, <1>5, <1>6, <1>7, <1>8, <1>9

\* After a complete collection of a catalog, holdings are fetched of exactly its active
\* strategies, whatever died before it (collect_source_catalog, _source_holdings_targets).
THEOREM TargetsRestored == Spec => CatalogRestoresTargets
<1>1. ASSUME StateInv, CatalogInv, WriteState, run.kind = "catalog"
      PROVE  Targets' = ActiveStrategy(catalog.data)
  <2>1. PICK c \in Catalogs : catalog = File(c) /\ run.collected = FromCatalog(c)
    BY <1>1 DEF CatalogInv, WriteState
  <2> DEFINE next == NextState(run.collected, run.previous)
  <2>2. Active(next.etfs) = ActiveStrategy(c)
    BY <1>1, <2>1, CatalogIsSound, NextIsCollected DEF StateInv, TypeOK
  <2>3. state' = File(next) /\ catalog' = File(c)
    BY <1>1, <2>1 DEF WriteState
  <2> HIDE DEF next
  <2>4. state'.data = next /\ state' # Garbled /\ catalog'.data = c /\ catalog'.is = "file"
    BY <2>3 DEF File, Garbled
  <2>5. Targets' = {e \in ActiveStrategy(c) : e \in Active(next.etfs)}
    BY <2>4 DEF Targets, Active
  <2>6. catalog.data = c
    BY <2>1 DEF File
  <2> QED
    BY <2>2, <2>5, <2>6
<1>2. StateInv /\ CatalogInv =>
          [WriteState /\ run.kind = "catalog" => Targets' = ActiveStrategy(catalog.data)]_vars
  BY <1>1
<1> QED
  BY <1>2, CatalogInvariant, PTL DEF CatalogRestoresTargets

-----------------------------------------------------------------------------
(* What the summaries told *)

\* What the summaries told is what universe u tracks.
TrackedIs(u) ==
    /\ told.etfs = [e \in Active(u.etfs) |->
                       [brand |-> u.etfs[e].brand, provider |-> u.etfs[e].provider]]
    /\ told.brands = [b \in Active(u.brands) |-> u.brands[b].provider]

\* Once the summary is written, it is ahead of the state that is about to be.
ToldInv ==
    /\ ToldIsTrue
    /\ run.pc \in {"open_state", "write_state"} /\ (run.kind = "catalog" \/ ~ahead) =>
         TrackedIs(NextState(run.collected, run.previous))

LEMMA ToldInvInit == Init => ToldInv
<1> SUFFICES ASSUME Init PROVE ToldInv
  OBVIOUS
<1>1. state.data = NoUniverse /\ told = NoUniverse /\ run.pc = "idle"
  BY IdleRun DEF Init, File
<1>2. Active(NoUniverse.etfs) = {} /\ Active(NoUniverse.brands) = {}
  BY NoUniverseType DEF Active
<1>3. NoUniverse.etfs = << >> /\ NoUniverse.brands = << >>
  BY DEF NoUniverse, Nothing
<1>4. ToldIsTrue
  BY <1>1, <1>2, <1>3 DEF ToldIsTrue
<1> QED
  BY <1>1, <1>4 DEF ToldInv

\* Reported changes, applied to what the previous state tracked, give the collection.
LEMMA ChangesAddUp ==
    ASSUME NEW c, NEW u, Sound(c), Universe(u), TrackedIs(u)
    PROVE  LET new == Told("fixture", c, u)
           IN /\ new.etfs = [e \in DOMAIN c.etfs |->
                      [brand |-> c.etfs[e].brand, provider |-> c.etfs[e].provider]]
              /\ new.brands = [b \in ActiveBrands(c) |-> c.brands[b]]
<1> DEFINE reported == ReportedEtfs(c, u)
           removed == RemovedEtfs(c, u)
           etfs == Overlay(told.etfs, removed, reported, c.etfs)
           reportedBrands == ReportedBrands(c, u)
           removedBrands == RemovedBrands(c, u)
           brands == Overlay(told.brands, removedBrands, reportedBrands, c.brands)
<1>1. Told("fixture", c, u).etfs = etfs /\ Told("fixture", c, u).brands = brands
  BY DEF Told
<1>2. \A e \in DOMAIN c.etfs :
          c.etfs[e] = [brand |-> c.etfs[e].brand, provider |-> c.etfs[e].provider]
  BY DEF Sound, Collection, Partial, Metadata
<1>3. etfs = [e \in DOMAIN c.etfs |->
                 [brand |-> c.etfs[e].brand, provider |-> c.etfs[e].provider]]
  <2>1. DOMAIN told.etfs = Active(u.etfs)
        /\ \A e \in Active(u.etfs) :
              told.etfs[e] = [brand |-> u.etfs[e].brand, provider |-> u.etfs[e].provider]
    BY DEF TrackedIs
  <2>2. reported \subseteq DOMAIN c.etfs
        /\ \A e \in DOMAIN c.etfs \ reported :
              /\ e \in Active(u.etfs)
              /\ c.etfs[e].brand = u.etfs[e].brand /\ c.etfs[e].provider = u.etfs[e].provider
    BY DEF ReportedEtfs, SameEtf, Active
  <2>3. Active(u.etfs) \ removed = Active(u.etfs) \intersect DOMAIN c.etfs
    BY DEF RemovedEtfs, Active
  <2>4. (DOMAIN told.etfs \ removed) \union reported = DOMAIN c.etfs
    BY <2>1, <2>2, <2>3
  <2>5. etfs = [e \in DOMAIN c.etfs |-> IF e \in reported THEN c.etfs[e] ELSE told.etfs[e]]
    BY <2>4 DEF Overlay
  <2>6. \A e \in DOMAIN c.etfs : (IF e \in reported THEN c.etfs[e] ELSE told.etfs[e])
            = [brand |-> c.etfs[e].brand, provider |-> c.etfs[e].provider]
    BY <1>2, <2>1, <2>2
  <2> QED
    BY <2>5, <2>6
<1>4. brands = [b \in ActiveBrands(c) |-> c.brands[b]]
  <2>1. DOMAIN told.brands = Active(u.brands)
        /\ \A b \in Active(u.brands) : told.brands[b] = u.brands[b].provider
    BY DEF TrackedIs
  <2>2. reportedBrands \subseteq ActiveBrands(c)
        /\ \A b \in ActiveBrands(c) \ reportedBrands :
              b \in Active(u.brands) /\ c.brands[b] = u.brands[b].provider
    BY DEF ReportedBrands, SameBrand, Active
  <2>3. Active(u.brands) \ removedBrands = Active(u.brands) \intersect ActiveBrands(c)
    BY DEF RemovedBrands, Active
  <2>4. (DOMAIN told.brands \ removedBrands) \union reportedBrands = ActiveBrands(c)
    BY <2>1, <2>2, <2>3
  <2>5. brands = [b \in ActiveBrands(c) |->
                     IF b \in reportedBrands THEN c.brands[b] ELSE told.brands[b]]
    BY <2>4 DEF Overlay
  <2>6. \A b \in ActiveBrands(c) :
            (IF b \in reportedBrands THEN c.brands[b] ELSE told.brands[b]) = c.brands[b]
    BY <2>1, <2>2
  <2> QED
    BY <2>5, <2>6
<1> QED
  BY <1>1, <1>3, <1>4

LEMMA ToldInvStep == StateInv /\ CatalogInv /\ ToldInv /\ [Next]_vars => ToldInv'
<1> SUFFICES ASSUME StateInv, CatalogInv, ToldInv, [Next]_vars PROVE ToldInv'
  OBVIOUS
<1>0. state # Garbled /\ run.pc # "open_state" /\ ~ahead => TrackedIs(state.data)
  BY DEF ToldInv, ToldIsTrue, TrackedIs
<1> DEFINE Before == state' = state /\ told' = told /\ ahead' = ahead
                     /\ run.pc # "open_state" /\ run'.pc \notin {"open_state", "write_state"}
<1>1. Before => ToldInv'
  BY DEF ToldInv, ToldIsTrue
<1>2. ASSUME NEW f \in Fixtures, CollectFixture(f) PROVE ToldInv'
  BY <1>1, <1>2 DEF CollectFixture, Idle
<1>3. ASSUME NEW c \in Catalogs, CollectCatalog(c) PROVE ToldInv'
  BY <1>1, <1>3 DEF CollectCatalog
<1>4. CASE OpenCatalog
  BY <1>1, <1>4, PhaseStep DEF OpenCatalog
<1>5. CASE WriteCatalog
  <2>1. run'.pc = "summary"
    BY <1>5 DEF WriteCatalog, StateInv, TypeOK, Idle
  <2> QED
    BY <1>1, <1>5, <2>1 DEF WriteCatalog
<1>6. CASE WriteSummary
  <2> DEFINE c == run.collected
             u == run.previous
  <2>1. /\ run'.pc = "open_state" /\ run'.kind = run.kind /\ run'.collected = c
        /\ run'.previous = u /\ told' = Told(run.kind, c, u) /\ ahead' = ahead
    BY <1>6, PhaseStep DEF WriteSummary
  <2>2. Sound(c) /\ Universe(u)
    BY DEF StateInv, TypeOK, Sound
  <2>3. ASSUME run.kind = "catalog" \/ ~ahead
        PROVE  told'.etfs = [e \in DOMAIN c.etfs |->
                                [brand |-> c.etfs[e].brand, provider |-> c.etfs[e].provider]]
               /\ told'.brands = [b \in ActiveBrands(c) |-> c.brands[b]]
    <3>1. CASE run.kind = "catalog"
      <4>1. told' = c
        BY <2>1, <3>1 DEF Told
      <4>2. DOMAIN c.brands = ActiveBrands(c)
        BY <1>6, <3>1, CatalogIsSound DEF CatalogInv, WriteSummary
      <4>3. c.brands = [b \in DOMAIN c.brands |-> c.brands[b]]
        BY <2>2 DEF Sound, Collection, Partial
      <4>4. c.etfs = [e \in DOMAIN c.etfs |-> c.etfs[e]]
            /\ \A e \in DOMAIN c.etfs :
                 c.etfs[e] = [brand |-> c.etfs[e].brand, provider |-> c.etfs[e].provider]
        BY <2>2 DEF Sound, Collection, Partial, Metadata
      <4> QED
        BY <4>1, <4>2, <4>3, <4>4
    <3>2. CASE run.kind = "fixture" /\ ~ahead
      <4>1. state = File(u)
        BY <1>6 DEF CatalogInv, WriteSummary
      <4>2. TrackedIs(u)
        BY <1>0, <1>6, <3>2, <4>1 DEF WriteSummary, File, Garbled
      <4> QED
        BY <2>1, <2>2, <3>2, <4>2, ChangesAddUp
    <3> QED
      BY <2>3, <3>1, <3>2 DEF StateInv, TypeOK
  <2>4. (run.kind = "catalog" \/ ~ahead) => TrackedIs(NextState(c, u))'
    BY <2>1, <2>2, <2>3, NextIsCollected DEF TrackedIs
  <2>5. ToldIsTrue'
    BY <2>1 DEF ToldIsTrue
  <2> QED
    BY <2>1, <2>4, <2>5 DEF ToldInv
<1>7. CASE OpenState
  <2>1. /\ run'.pc = "write_state" /\ run'.kind = run.kind /\ state' = Garbled
        /\ run'.collected = run.collected /\ run'.previous = run.previous
        /\ told' = told /\ ahead' = ahead
    BY <1>7, PhaseStep DEF OpenState
  <2> QED
    BY <1>7, <2>1 DEF ToldInv, ToldIsTrue, OpenState, TrackedIs
<1>8. CASE WriteState
  <2> DEFINE next == NextState(run.collected, run.previous)
  <2>1. state' = File(next) /\ run'.pc = "idle" /\ told' = told
        /\ (~ahead' => run.kind = "catalog" \/ ~ahead)
    BY <1>8, IdleRun DEF WriteState, StateInv, TypeOK
  <2>2. ~ahead' => TrackedIs(next)
    BY <1>8, <2>1 DEF ToldInv, WriteState
  <2> HIDE DEF next
  <2>3. state'.data = next
    BY <2>1 DEF File
  <2> QED
    BY <2>1, <2>2, <2>3 DEF ToldInv, ToldIsTrue, TrackedIs
<1>9. CASE Crash
  <2>1. run'.pc = "idle" /\ state' = state /\ told' = told
        /\ (~ahead' => ~ahead /\ run.pc \notin {"open_state", "write_state"})
    BY <1>9, IdleRun DEF Crash
  <2> QED
    BY <1>0, <2>1 DEF ToldInv, ToldIsTrue, TrackedIs
<1>10. CASE UNCHANGED vars
  BY <1>10 DEF vars, ToldInv, ToldIsTrue, TrackedIs
<1> QED
  BY <1>2, <1>3, <1>4, <1>5, <1>6, <1>7, <1>8, <1>9, <1>10 DEF Next

\* Who applies the changes that the summaries report knows what is tracked, unless a
\* collection died after a report that nothing has corrected since (_etf_changes,
\* _brand_changes, and the order in which summary and state are written).
THEOREM SummariesAddUp == Spec => []ToldIsTrue
<1>1. ToldInv => ToldIsTrue
  BY DEF ToldInv
<1> QED
  BY <1>1, ToldInvInit, ToldInvStep, CatalogInvariant, PTL DEF Spec

=============================================================================
