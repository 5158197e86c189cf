CONSTANTS
  Limit = 3
  MaxCommands = 5
SPECIFICATION ReceiverFairSpec
PROPERTIES
  RebootIsDeserved
  OnIsOn
