CONSTANTS
  c1 = c1
  c2 = c2
  c3 = c3
  e1 = e1
  e2 = e2
  t1 = t1
  t2 = t2
  s1 = s1
  Calls = {c1, c2}
  Editors = {e1}
  Tabs = {t1, t2}
  Subflows = {s1}
  Global = Global
  TabEntry = TabEntry
  Boot = Boot
  Free = Free
  Kinds = {"edit", "update", "create", "delete", "replace", "subflow"}
  Initial <- OneTab
SPECIFICATION Spec
CHECK_DEADLOCK FALSE
INVARIANTS
  UpdateBackupIsExact
  UpdateKeepsOtherOwners
  SnapshotExactUnlessRaced
  EditLosesOnlyToOutsiders
  NoWriteWithoutBackup
PROPERTIES
  EveryCallReturns
  KeepsPromise
