CONSTANTS
  OldFiles <- SmallFiles
  Urls = {"u1", "u4"}
  NoUrl = ""
  MaxApps = 3
  MaxUuid = 50
SPECIFICATION FieldsSpec
 
PROPERTY ChosenProxyKept
CHECK_DEADLOCK FALSE
