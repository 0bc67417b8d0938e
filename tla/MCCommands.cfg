SPECIFICATION Spec
CONSTANTS
    Commands = {"oos", "robustness", "subset"}
    Codes = {"i", "j"}
    Labels = {"w1", "w-2", "w_2", "w3"}
    Slug <- MCSlug
    Factors = {"ep", "vol"}
    Horizons = {1, 2}
    WindowOf <- MCWindows
    RawConfigs <- MCRawConfigs
    Settlements <- MCSettlements
    SignTables <- MCSigns
CHECK_DEADLOCK FALSE
INVARIANTS
    MatrixIsHonest
