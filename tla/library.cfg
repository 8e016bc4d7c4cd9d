SPECIFICATION LibrarySpec
CONSTANTS
  Kinds = {"array", "blob"}
  BlobBuffer = 4
  Bad = 99
  Junk = 77
  Counted = {3}
  MaxSize = 4
  Calls <- MCCalls
  Ibuf = 16
  Gbuf = 6
  Mbuf = 48
  Gallop0 = 5
  Lrotbuf = 16
  Rotbuf = 128
  MinCache = 32
  K = 8
  W = 12
  IntMax = 2147483647
  RecurseLimit = 6
  ToSort <- MCToSort
  NameOrders <- MCNameOrders
  HashOf <- MCHashOf
  TextCalls <- MCTextCalls
  Refs <- MCRefs
  ItemLists <- MCItemLists
  PairLists <- MCPairLists
  Leaves <- MCLeaves
  Numbers <- MCIntegers
  Streams <- MCStreams
  Blobs <- MCBlobs
  Packed <- MCPacked
  Years <- MCYears
  Instants <- MCInstants
  Sources <- MCSources
  Machines <- MCMachines
  Dumped <- MCDumped
PROPERTIES
  Sorted
  TreeIsMap
  TextAgrees
  RoundTrips
  DatesAgree
  ImplementsLists
CHECK_DEADLOCK FALSE
