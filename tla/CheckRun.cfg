\* The abstract run on lists of up to four entries.
SPECIFICATION AuditSpec
CONSTANTS
  MaxEntries = 4
  Removes = TRUE
  Aborts = TRUE
INVARIANTS
  TypeOK
  BusyIffOpen
  NoEntryCountedTwice
