SPECIFICATION PartSpec
CONSTANTS
    key = key
    wallet = wallet
    lone = t1
    Handlers = {h1}
    Scheduler = Scheduler
    Bodies = {b1}
    Tasks = {t1}
    OneShot = {}
    IdemKeys = {}
    SessionKeys = {key}
    Serialized = FALSE
    Wallets = {wallet}
    KeyOf <- OneKeyOf
    WalletOf <- OneWalletOf
    None = None
    Failing = {}
    MaxCap = 0
    MaxTx = 1
INVARIANTS
    SignerHeld
CHECK_DEADLOCK FALSE
