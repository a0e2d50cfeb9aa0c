\* Installation from the cloud.
SPECIFICATION Spec
CONSTANTS
  MaxVersion = 2
  Window = 2
  MaxBackups = 2
  MaxMade = 3
  MaxFastCrashes = 2
  MaxMessages = 2
  BadVersions = {}
  Admits = {}
  PowerLossAt = {}
PROPERTY CloudInstallStages
