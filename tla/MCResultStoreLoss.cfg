SPECIFICATION StoreSpec
CONSTANTS
  MaxResults = 2
  MaxWrites = 2
  Absent = Absent
PROPERTIES
  StoredResultsKept
