CONSTANTS
  Operation = {o1, o2}
  StageOrder <- Stages
  MaxVersion = 2
  MaxRequests = 5
SPECIFICATION Spec
SYMMETRY Interchangeable
INVARIANTS TypeOK ReadySummaryExists ApprovedSummaryIsPublished PassedStagesHaveArtifacts
