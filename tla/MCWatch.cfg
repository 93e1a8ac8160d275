CONSTANTS
    Alerts  = {"provider", "switch"}
    Grace   = 1
    Hold    = 1
    MaxTime = 3
SPECIFICATION FairSpec
INVARIANTS RowRemembersSpell
PROPERTIES PageEarned RecoveryEarned EndIsStable PageOutlivesDelivery ImplementsLifecycle RecoveryDelivered OutagePaged
