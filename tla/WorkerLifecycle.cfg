\* Two hostnames, of one relay or of two, registered, removed and made default
\* or deployed while tunnels come and go and the plugin is stopped, or dies, and restarts.
CONSTANTS
    Id = {c1, c2}
    Host = {h1, h2}
    RelayId = {r1, r2}
    None = None
    MaxConnections = 2
    MaxAttempts = 2
    MaxProbes = 2
SPECIFICATION LifecycleSpec
INVARIANTS
    LifecycleTypeOK
    SnapshotValid
    DeploymentsServe
    ConnectionsAreSaved
    ReadyIsConnected
    QuietUnlessHeld
PROPERTIES
    MutationsEnd
    ConnectedAreProbed
