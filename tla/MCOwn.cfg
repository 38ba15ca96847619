SPECIFICATION Spec
CONSTANTS
    Names <- MCNames
    Repos = {"shared", "guarded"}
    Paths <- MCPaths
    Dirs <- MCDirs
    Projects <- MCProjects
    NoRepo = "-"
    Undeclared = "-"
    Bare = "hermes"
    Other = "other"
    DefaultHome <- MCDefaultHome
    DefaultProject <- MCDefaultProject
    Basename <- MCBasename
    Dir <- MCDir
    Desc <- SharedDesc
    Procs = {1}
    Ops = {"up", "restart", "down", "stop", "start", "pause", "unpause", "reboot", "activate", "set-latch", "deploy"}
    Crashing = {"team"}
    NoCommand = NoCommand
    NoContainer = NoContainer
INVARIANT
    HomeFresh
PROPERTY
    OnlyOwnContainer
    Consented
