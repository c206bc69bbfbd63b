CONSTANTS
    Rounds = {r1, r2, r3}
    MAX_ATTEMPTS = 2
    MAX_CONSECUTIVE_SYNC_FAILURES = 2
SPECIFICATION Spec
INVARIANTS
    TypeOK
    ExclusiveSync
    DownloadIsProtected
    CooldownIsKept
PROPERTIES
    RoundsEndOrHang
