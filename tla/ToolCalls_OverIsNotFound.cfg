SPECIFICATION Spec
CONSTANTS
  a = a  b = b  inside = inside  outside = outside
  call = call  other = other
  Calls <- OneRun
  Kind <- RunKind
  Aliases <- Two  Dotted = {}
  Ips <- Addresses
  Versions <- Contents
  Empty = "none"  First = "old"
  Hosts <- HostsOf  Tagged <- TaggedOf  Complete <- CompleteOf
  Permits <- PermitsOf  Networks <- NetworksOf  Readable <- ReadableOf
  Threaded = FALSE
  MaxReloads = 0
CHECK_DEADLOCK FALSE
PROPERTIES OverIsNotFound
