SPECIFICATION FairSpec
CONSTANTS
  Jobs = {j1, j2, j3}
  SlotCount = 2
  NoJob = NoJob
  Admits = {"busyDeath", "idleDeath", "stop"}
INVARIANTS RunsAlone CommitsAreAnnounced
PROPERTIES ImplementsContract JobsSettle
CHECK_DEADLOCK FALSE
