\* The instance of MCSignals.cfg.
CONSTANTS
    Sig <- MCSig
    Masks <- MCMasks
    Main = Main
    None = None
SPECIFICATION Spec
PROPERTIES
    UserLogicKept
