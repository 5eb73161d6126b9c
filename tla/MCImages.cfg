SPECIFICATION ImagesSpec
CONSTANTS
  None = None
  Err = Err
  Pullers = {p, q}
  Layers <- LayersDef
  Tars = {"t"}
  Size = 2
  MaxPulls = 1
  U8_MAX = 1
  U32_MAX = 512
  Ports = {0, 1, 2, 3}
  GUEST_CONTROL_PORT = 1
  SSH_VSOCK_PORT = 2
  Missing = {"gone"}
  MaxBoots = 1
  OpaqueName = "opq"
  DiskSize = 16
  MAX_BLOCKS_PER_EXTENT = 1
  MAX_INLINE = 2
  LEAVES_PER_BLOCK = 4
  MAX_LINKS = 5
  ENTRIES_PER_BLOCK = 4
  MaxEntries = 4
  OverLinks = FALSE
  blocks_per_group = 16
  groups_per_descriptor_block = 4
  addr_per_block = 4
  RESERVED_GDT_MULTIPLIER = 2
  inodes_per_block = 4
  inode_increment = 8
INVARIANTS PartsTypeOK ImagesAreWhole  
PROPERTIES  PullEnds
CHECK_DEADLOCK FALSE
