SPECIFICATION Spec
CONSTANTS
    Names <- MCNames
    Repos = {"plain", "bare", "astray"}
    Paths <- MCPaths
    Dirs <- MCDirs
    Projects <- MCProjects
    NoRepo = "-"
    Undeclared = "-"
    Bare = "hermes"
    Other = "other"
    DefaultHome <- MCDefaultHome
    DefaultProject <- MCDefaultProject
    Basename <- MCBasename
    Dir <- MCDir
    Desc <- ExclusiveDesc
    Procs = {1, 2}
    Ops = {"up", "down"}
    Crashing = {}
    NoCommand = NoCommand
    NoContainer = NoContainer
INVARIANTS
    TypeOK
    OneGatewayPerHome
    Admission
