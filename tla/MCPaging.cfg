CONSTANTS
  MAX_PROC = 6
  UserVAs <- MC_UserVAs
  VidmapArgs <- MC_VidmapArgs
SPECIFICATION Spec
INVARIANTS TypeOK UserAccessIsolated WindowTracksProcesses VidmapAddressMapsVideo
