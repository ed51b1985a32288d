CONSTANTS
  Account <- MCAccount
  None = None
SPECIFICATION FairSpec
PROPERTIES
  NoStarvation
