SPECIFICATION Spec
CONSTANTS
  Datatypes = {"uint8", "uint16", "attribId"}
  AsAny <- MCAsAny
  MaxId8 = 255
  MaxId16 = 65535
  Files <- MCFiles
  Hubs <- MCHubs
  Prefix <- MCPrefix
  Instance <- MCInstance
  Joined <- MCJoined
  Endpoints <- MCEndpoints
  Recursive = TRUE
  AsHex <- MCAsHex
  AsDecimal <- MCAsDecimal
  Hex16 <- MCHex16
  Decimal <- MCDecimal
  Hex4 <- MCHex4
  EndpointMod = 256
  Seconds <- MCSeconds
  Values <- MCValues
  Nesting = 4
  Decoded <- Decodings
  ObjectType <- ParseObjectType
INVARIANT ActsAsAsked
INVARIANT TopicsNameTheFrame
CHECK_DEADLOCK FALSE
