SPECIFICATION FairSpec
CONSTANTS
  Nil = Nil
  Names = {1, 2}
  MaxChanges = 2
  MaxOpens = 2
  MaxAsks = 1
  Envs = {{"rows", "reopen", "busy"},
          {"network", "rows", "reopen"},
          {"refresh", "stop"},
          {"network", "stop", "busy"},
          {"rewrite", "rows", "busy"},
          {"fail", "sweep", "reopen"},
          {"network", "fail", "busy"},
          {"network", "all", "rewrite"},
          {"network", "hang", "rows"}}
CHECK_DEADLOCK FALSE
INVARIANTS MirrorsView RowsFit CacheIsHonest
PROPERTIES KeepsPromise 
