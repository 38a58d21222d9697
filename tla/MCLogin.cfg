CONSTANTS
    Hosts = {home, partner, other}
    Home = home
    Partner = partner
    None = none
    Given = given
    Configs <- MCConfigs
    Scripts <- MCScripts
    MaxHops = 2
    MaxTokens = 1
SPECIFICATION FairSpec
INVARIANTS RequiredIsEncrypted ModeAgreed HandshakeInClear OneSocketPerAttempt TlsNameFollowsRouting BindingOverTls
PROPERTY Returns
CHECK_DEADLOCK FALSE
