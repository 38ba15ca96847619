SPECIFICATION Spec
CONSTANTS
    Names = {"a"}
    Repos = {"current"}
    Paths <- MCPaths
    Dirs <- MCDirs
    Projects <- MCProjects
    NoRepo = "-"
    Undeclared = "-"
    Bare = "hermes"
    Other = "other"
    DefaultHome <- MCDefaultHome
    DefaultProject <- MCDefaultProject
    Basename <- MCBasename
    Dir <- MCDir
    Desc <- FreshDesc
    Procs = {1}
    Ops = {"up", "activate"}
    Crashing = {"hermes-a"}
    NoCommand = NoCommand
    NoContainer = NoContainer
INVARIANTS
    CredentialFresh
