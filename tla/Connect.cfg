SPECIFICATION Spec
CONSTANTS
  Clients = {1, 2}
  Fds = {1, 2, 3}
  Servers = {"a", "b", "c"}
  Protected = {"b"}
  DBs = {0, 1}
  ConLists <- MCConLists
INVARIANTS OwnSockets OnlyThrowLeaks RecordedIsSelected
