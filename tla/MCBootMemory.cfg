SPECIFICATION BootSpec
CONSTANTS
  Infos <- MCInfos
  UINT64_MAX = 1000
  PAGE_SIZE = 16
  FRAME_T = 512
  LowMemoryMaps <- MCLowMemoryMaps
INVARIANTS
  WalkOnTags
  AreasExact
  FindsFirst
  KernelNotGranted
PROPERTY
  AllocatorReady
