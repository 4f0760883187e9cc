SPECIFICATION Spec
CONSTANTS
    m1 = m1
    m2 = m2
    d1 = d1
    s1 = s1
    s2 = s2
    c1 = c1
    c2 = c2
    Model = {m1, m2}
    Discovery = {d1}
    Save = {s1, s2}
    Choice = {c1, c2}
    Answers <- MCAnswers
    Manual <- MCManual
    Forms <- MCForms
    MaxFaults = 1
SYMMETRY Symmetry
INVARIANTS
    TypeOK
    VerifiedIsOneDiscovery
    SoloSaveSettles
    SoloKeepsLastSuccess
PROPERTIES
    RefinesAtomicCatalogue
    DisabledStaysOut
CHECK_DEADLOCK FALSE
