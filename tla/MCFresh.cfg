SPECIFICATION FairSpec
CONSTANTS
    Names = {"a"}
    Repos = {"current"}
    Paths <- MCPaths
    Dirs <- MCDirs
    Projects <- MCProjects
    NoRepo = "-"
    Undeclared = "-"
    Bare = "hermes"
    Other = "other"
    DefaultHome <- MCDefaultHome
    DefaultProject <- MCDefaultProject
    Basename <- MCBasename
    Dir <- MCDir
    Desc <- FreshDesc
    Procs = {1, 2}
    Ops = {"up", "down", "stop", "start", "pause", "unpause", "activate", "sign-in", "set-home"}
    Crashing = {}
    NoCommand = NoCommand
    NoContainer = NoContainer
INVARIANTS
    CredentialFresh
PROPERTY
    CredentialReaches
