CONSTANTS
  Thread = {t1, t2}
  Person <- Persons
  Conf <- Configurations
  MaxId = 4
  Requests <- Traffic
  InitialRows <- FirstRows
  InitialGroups <- FirstGroups
  MaxRequests = 3
  MaxMishaps = 1
SYMMETRY Goroutines
SPECIFICATION Spec
INVARIANTS TypeOK DeniedChangesNothing ShownNamesWork AdministratorsAreConfigured GroupsAreAsSet GroupsAreGiven
PROPERTIES WritesReachTheirUser
