\* Three commands of any kind, resets between any two library calls, and one
\* library call that fails.
CONSTANTS
    home = home
    away = away
    x = x
    old = old
    new = new
    good = good
    foreign = foreign
    junk = junk
    huge = huge
    long = long
    Nil = Nil
    LongSsids <- NoCreds
    LongPasswords <- LongCreds
    LongNames <- LongTexts
    Empty = Empty
    Unknown = Unknown
    Creds <- ThreeCreds
    Texts <- TwoTexts
    Contents <- TwoContents
    Files <- TwoFiles
    Temp <- TempOf
    Factory = Factory
    Images <- FourImages
    Signer <- SignerOf
    Broken <- NoApplication
    Oversized <- TooLarge
    Provisioned <- Bootstrapped
    MaxCommands = 3
    MaxFaults = 1
SPECIFICATION Spec
INVARIANTS
    TypeOK
    ConfigKept
    UploadKept
    UploadWhole
    BootsApproved
    UpdateKept
PROPERTIES
    ProfileKept
    UpdateIsAtomic
