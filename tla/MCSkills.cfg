SPECIFICATION SkillsSpec
CONSTANTS
    Names = {"alice", "bob"}
    Dests = {"hunt", "productivity", "productivity/connectors"}
    Refs = {"a", "b", "main"}
    Revs = {"a", "b"}
    None = None
    Repo <- OneRepo
    Swallows <- Nested
    NoCommand = NoCommand
INVARIANTS
    SkillsTypeOK
    HomeHoldsPins
PROPERTY
    OthersKept
