CONSTANTS
  p1 = p1
  p2 = p2
  Pods = {p1, p2, p3}
  Messages = {m1, m2}
  Chats = {c1}
  ChatOf <- SameChat
  LastStage = 1
  Threads <- FinalizerApart
  StageOf <- SecondOf
  PodOf <- FirstOf
  TimedStages <- AllStages
  IdleThreshold = 0
  UnackAge = 0
  SessionTTL = 0
  MaxRestarts = 2
  MaxFaults = 1
SYMMETRY PipelineSymmetry
SPECIFICATION Spec
INVARIANTS TypeOK OneStageAtATime HandedOverOnce StagesInOrder NoSilentLoss
