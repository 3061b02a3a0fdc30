\* Two callers of one of five applications; see MCCommands for the elections.
SPECIFICATION Spec
CONSTANTS
  Clients <- Callers
  Databases <- ServedDatabases
  Requests <- ServedRequests
  Script <- ServedScript
  Execute <- ServedExecute
  Transactional <- ServedTransactional
  Declared <- ServedDeclared
  MaxCalls <- Calls
  None = None
  Tenants = {"t1"}
  Numbers = {"n1"}
  LineNumbers = {1, 2}
  Amounts = {2}
  MaxSafe = 3
  MaxOrders = 1
  Skus = {"sku", "other"}
  Stock <- MCStock
  Quantities = {1, 2}
  MaxReservations = 2
  Agents = {"ann"}
  Customers = {"customer"}
  MaxCases = 1
  MaxVersion = 4
  NoAgent = NoAgent
  Voters = {"alice", "bob", "eve"}
  TenantOf <- MCTenantOf
  Editor = "editor"
  Rankings <- MCRankings
  Stored <- MCStored
  MaxSlate = 3
  MaxElections = 1
  Categories = {"food"}
  AmountsMinor = {1, 2}
  MaxExpenses = 1
INVARIANTS TotalsAgree StockAccounted TrailTellsTheCase
PROPERTIES ResultsAreFinal ImplementsAtomic
CHECK_DEADLOCK FALSE
