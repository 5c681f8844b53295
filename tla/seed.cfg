\* The seed of an old version against a new one, an old PIN against a new one,
\* and two overlapping conversations of encryptWallet.
SPECIFICATION Spec
CONSTANTS
    Seeds = {oldSeed, newSeed}
    Pins = {oldPin, newPin}
    Slots = {slot1, slot2}
    Null = Null
INVARIANTS
    TypeOK
    
    OpenedIsSealed
PROPERTY ImplementsVault
