SPECIFICATION Spec
CHECK_DEADLOCK FALSE
CONSTANTS
  NONE = NONE
  Rank <- MCRank
  Templates <- MCTemplates
  Pools <- MCPools
  Shown <- MCShown
  Profiles <- MCProfiles
  Tables <- MCTables
  Blueprints <- MCBlueprints
  MeasurementPools <- MCMeasurementPools
  Listenings <- MCListenings
  Bands <- MCBands
  Forms <- MCForms
  Answers <- MCAnswers
  Responses <- MCResponses
  Norms <- MCNorms
  StepLists <- MCStepLists
  Given <- MCGiven
  Rubrics <- MCRubrics
  Replies <- MCReplies
  MathAnswers <- MCMathAnswers
  MathResponses <- MCMathResponses
  Precision = 40
  Sixtieth <- MCSixtieth
  Cases <- MCCases
  Bindings <- MCBindings
  Choices <- MCChoices
  Operands <- MCOperands
  Parameters <- MCParameters
  Axes <- MCAxes
  Counts <- MCCounts
  Ranges <- MCRanges
  SampleCounts <- MCSampleCounts
  Numbers <- MCNumbers
  Wholes <- MCWholes
  Roundings <- MCPlaces
  Amounts <- MCAmounts
  UnitNames <- MCUnits
  Bounds <- MCBounds
  Points <- MCPoints
  Records <- MCRecords
  Evidence <- MCEvidence
  Coverages <- MCCoverages
  Actuals <- MCActuals
  EventLists <- MCEventLists
  Runs <- MCRuns
  Scores <- MCScores
INVARIANTS PapersLegal MarksFaithful NumbersHonest ChecksAgree
