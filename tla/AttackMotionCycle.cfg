CONSTANTS
    NumWeapons = 2
    SalvoSize <- MCSalvoSize
    SalvoWindup <- MCSalvoWindup
    SalvoDelay <- MCSalvoDelay
    ReloadTime <- MCReloadTime
    AttackRecoveryTime = 2
    MaxSpeed = 1
    CannotMove = {TRUE}
    Revalidate = {FALSE, TRUE}
    HoldOutOfArc = {TRUE}
    HitsItself = {FALSE}
SPECIFICATION Spec
INVARIANTS TypeOK LockedWhileShotsPend StandsWhileAttacking
PROPERTIES ReloadPaysForShots EventuallyMobile AttemptsEnd
