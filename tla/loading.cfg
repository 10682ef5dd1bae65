SPECIFICATION FairSpec
CONSTANTS
  Faaslets = {f1, f2}
  Handlers = {h1, h2}
  FunctionNames = {"fn"}
  Main = "fn"
  SharedObjects = {"so"}
  SharedFiles = {"data"}
  PythonFiles = {"py"}
  MaxVersion = 2
  Styles <- FiveStyles
INVARIANTS
  AckedBuilt
  
  

  
CHECK_DEADLOCK FALSE
