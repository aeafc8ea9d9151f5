CONSTANTS
  p1 = p1
  p2 = p2
  Pods = {p1, p2}
  Messages = {m1}
  Chats = {c1}
  ChatOf <- SameChat
  LastStage = 1
  Threads <- TwoPodsFirst
  StageOf <- SecondOf
  PodOf <- FirstOf
  TimedStages = {1}
  IdleThreshold = 1
  UnackAge = 2
  SessionTTL = 2
  MaxRestarts = 2
  MaxFaults = 1
SPECIFICATION FairSpec
PROPERTIES EveryMessageLeaves
