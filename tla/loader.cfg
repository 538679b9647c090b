SPECIFICATION FairSpec
INVARIANTS
    TypeOK
    NoOrphan
    ReasonReported
    ExitInfoFresh
    OneLateAttach
PROPERTIES
    Released
    ImplementsChild
