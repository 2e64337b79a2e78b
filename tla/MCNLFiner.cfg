CONSTANTS
    Cells <- MCCells
    Templates <- MCTemplates
    Repo <- MCRepo
SPECIFICATION NLFSpec
INVARIANTS
    RefinedIsConfigured
