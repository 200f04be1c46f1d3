SPECIFICATION Spec
CONSTANTS
  Ids <- MCIds
  FolderIds <- MCFolderIds
  Columns = {"name", "size"}
  Orders = {"asc", "desc"}
  TextValues = {1, 2}
  SizeValues = {0, 1}
  Limit = 1
  MaxEdits = 1
INVARIANTS
  NoDuplicates
  NoneSkipped
