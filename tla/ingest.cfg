CONSTANTS
    one = one
    two = two
    other = other
    forged = forged
    broken = broken
    Workers = {a, b}
    Lines = {one, two, other, forged, broken}
    Readable = {one, two, other, forged}
    Validators = {"digest", "registry"}
    Batches <- Inputs
    FailedBy <- Verdicts
    TemplateOf <- Templates
    SpecOf <- Specs
    ItemOf <- Ids
    MaxRuns = 2
SPECIFICATION FairSpec
INVARIANTS EnteredOnce ReportTrue
PROPERTIES RunsEnd
CHECK_DEADLOCK FALSE
