CONSTANTS
  Operation = {o1, o2}
  StageOrder <- Stages
  MaxVersion = 1
  MaxRequests = 5
SPECIFICATION Spec
PROPERTY ToggleKeepsStage
