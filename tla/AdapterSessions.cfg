CONSTANTS
  c1 = c1
  c2 = c2
  m1 = m1
  alice = alice
  bob = bob
  Chats = {c1, c2}
  Messages = {m1}
  Users = {alice, bob}
  Nobody = Nobody
  GatewayTTL = 1
  AdapterTTL = 2
  ForwardTicks = 1
  MaxRestarts = 1
  MaxFaults = 1
SPECIFICATION FairSpec
INVARIANTS TypeOK StreamCredentials AdapterKnowsActive
PROPERTY EveryChatGoes
CHECK_DEADLOCK FALSE
