SPECIFICATION Spec
CONSTANTS
  Tokens <- AllTokens
  Parsed <- ParsedAs
  Canon <- CanonOf
  Values <- MixedValues
  Addresses <- MixedAddresses
  MaxLines = 5
CHECK_DEADLOCK FALSE
INVARIANT GroupRules
INVARIANT PlainStaysAway
