\* One signal of each kind the code tells apart: the four of the kernel, one
\* that is an error (SIGILL) and one that is not (20, SIGTSTP), above them all.
CONSTANTS
    Sig <- MCSig
    Masks <- MCMasks
    Main = Main
    None = None
SPECIFICATION Spec
INVARIANTS
    StoppedStaysStopped
    HandlingHasBackup
PROPERTIES
    SignalNotLost
    SigreturnAfterDelivery
    ErrorSignalEnds
    KillTerminates
    ContResumes
