CONSTANTS
  Deltas = {0, 1}
  Statuses = {"note", "control"}
  System = "f1"
  Items <- FewItems
  MaxTracks = 2
  MaxItems = 4
  TableLines <- FewTableLines
  VendorLines <- FewVendorLines
  Sounds <- FewSounds
  Maps = 3
  Programs = 2
  Byte = 3
  Columns = 2
  FirstRoom = 1
  MaxLines = 4
SPECIFICATION FilesSpec
CHECK_DEADLOCK FALSE
INVARIANTS AsWritten InOrder FirstSourceAsWritten ZeroIsEmpty
