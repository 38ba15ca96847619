SPECIFICATION Spec
CONSTANTS
    Digests = {"d-current"}
    Tags = {"tag"}
    DigestContract <- MCDigestContract
    Unlisted = {"scale"}
    Procs = {p1, p2}
    NoCommand = NoCommand
    NoContainer = NoContainer
SYMMETRY Symmetry
INVARIANTS
    NeverForeign
PROPERTIES
    BootsAsMounted
    ExecAtHome
    PathStaysFile
    CredentialRead
