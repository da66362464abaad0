SPECIFICATION Spec
CONSTANTS
    Tabs = {t1, t2}
    Sids = {s1}
    None = None
    Incidents = {"lose", "reload", "grace", "sign-out"}
    MaxIncidents = 3
SYMMETRY Symmetry
INVARIANTS
    SignedOutStaysOut
    

    
CHECK_DEADLOCK FALSE
