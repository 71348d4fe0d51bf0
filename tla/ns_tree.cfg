CONSTANTS
    INODE_NUM = 3
    Path <- Paths
    Within <- Occurs
    Leftover <- LeftOver
SPECIFICATION Spec
CONSTRAINT RootWhileOffline
VIEW WithoutPwd
INVARIANTS TypeOK TableOwnsInodes StoredSurvives NamesUnique
PROPERTIES RmdirKeepsChildren StartsInDirectory
