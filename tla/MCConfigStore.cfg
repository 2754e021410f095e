SPECIFICATION Spec
CONSTANTS
  web = web
  cli = cli
  Users = {web, cli}
  Names = {"a", "b"}
  Boot = Boot
  Free = Free
  Float <- Nearest
  Edits <- KeyedEdits
INVARIANTS
  TypeOK
  FlashMatches
  KeysSurvive
PROPERTIES
  BootNames
