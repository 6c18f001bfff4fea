SPECIFICATION FairSpec
CONSTANT MaxFaults = 3
INVARIANTS
    StartsWhole
    Resumable
    EntryRecorded
    EvidenceLast
PROPERTIES
    UntouchedUnlessAgreed
    UserFilesStay
    UninstallFinishes
CHECK_DEADLOCK FALSE
