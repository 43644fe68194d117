CONSTANTS
    Hostnames <- MC_Hostnames
    PortIds <- MC_PortIds
    SvcNames <- MC_SvcNames
    PortStates <- MC_PortStates
    MaxHosts <- MC_MaxHosts
    MaxParses <- MC_MaxParses
SPECIFICATION Spec
CHECK_DEADLOCK FALSE
INVARIANT TypeOK
INVARIANT ServicesIndexExact
INVARIANT ReparseReplaces
INVARIANT ServiceViewShowsOfferingHosts
