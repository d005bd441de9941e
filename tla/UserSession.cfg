\* MaxParts 3: ".." twice and a name, in every order.
CONSTANTS
  Names = {"", "anonymous", "alice", "bob"}
  Passwords = {"p", "q"}
  Accounts <- UserAccounts
  Params <- AllParams
  MaxParts = 3
  RenameParams <- Renames
  MaxDepth = 1
  Nobody = Nobody
  NoAccount = NoAccount
SPECIFICATION Spec
INVARIANTS TypeOK LoggedInAsNamed WorkingDirectoryEntered Confined CleanPathIsReference
PROPERTY RenameAsChecked
CHECK_DEADLOCK FALSE
