SPECIFICATION Spec
CONSTANTS
  SectorCount = 2
  start <- MCstart
  Vendors = {"SST", "Intel", "unknown"}
  EnvSector = 1
  Envs <- MCEnvs
  Default <- MCOld
  Requests <- MCRequests
PROPERTY SavedMeansStored
