SPECIFICATION Spec
CONSTANTS
    Etfs = {e1, e2}
    Brands = {b1, b2}
    Providers = {p1}
INVARIANTS TypeOK BrandsOfTheStateFit NothingIsForgotten ToldIsTrue
PROPERTY CatalogRestoresTargets
SYMMETRY Symmetry
CHECK_DEADLOCK FALSE
