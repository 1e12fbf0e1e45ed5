SPECIFICATION FairSpec
CONSTANTS
    c1 = c1  c2 = c2  a1 = a1  a2 = a2  p1 = p1  p2 = p2
    Clients = {c1, c2}
    Accounts = {a1, a2}
    Passwords = {p1, p2}
    Logins <- RivalsOrStrangers
    VerifySlots = 1
    ClaimSlots = 1
    MaxEdits = 1
    MaxCrashes = 1
INVARIANTS OnePassword MemoryIsDurable
PROPERTIES WritesOnlyClaims CallsEnd
CHECK_DEADLOCK FALSE
