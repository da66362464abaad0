SPECIFICATION FairSpec
CONSTANTS
    Tabs = {t1}
    Sids = {s1, s2}
    None = None
    Incidents = {"lose", "denied", "presence", "elsewhere", "sign-out", "grace", "reload"}
    MaxIncidents = 2
PROPERTIES
    RevokedLeaves
CHECK_DEADLOCK FALSE
