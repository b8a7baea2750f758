SPECIFICATION PartSpec
CONSTANTS
    key = key
    wallet = wallet
    lone = t1
    Handlers = {h1, h2}
    Scheduler = Scheduler
    Bodies = {b1, b2}
    Tasks = {t1, t2}
    OneShot = {t2}
    IdemKeys = {i1}
    SessionKeys = {key}
    Serialized = TRUE
    Wallets = {wallet}
    KeyOf <- OneKeyOf
    WalletOf <- OneWalletOf
    None = None
    Failing = {"reply", "record", "complete", "abort", "mark"}
    MaxCap = 1
    MaxTx = 3
SYMMETRY Symmetry
INVARIANTS
    TypeOK
    AtMostOncePerKey
    OneAnswerPerKey
    CapOvershoot
    OnceForEachDue
CHECK_DEADLOCK FALSE
