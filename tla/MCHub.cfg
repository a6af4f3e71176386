SPECIFICATION Spec
CONSTANTS
  Devices = {"button", "plug"}
  Addrs = {"a1", "a2", "a3"}
  Home <- MCHome
  Bodies = {"on", "unknown"}
  Known = {"on"}
  TsnMod = 2
  MaxTraffic = 3
  Budgets <- MCBudgets
INVARIANT TypeOK
INVARIANT RightDevice
INVARIANT OnceInOrder
INVARIANT OnlyDuplicatesIgnored
INVARIANT CommandsArrive
CHECK_DEADLOCK FALSE
