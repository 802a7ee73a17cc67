CONSTANTS
    Users = {u1}
    PasswdLengths = {0, 32, 60}
    AuditValues <- MCAuditValues
    Hosts <- MCHosts
    HostFlags <- MCHostFlags
    HostStatus <- MCHostStatus
    Triggers = {t1}
    DescLengths = {255, 256, 300}
    TemplateLinks <- MCTemplateLinks
    HstGroups = {g1, g2}
    IsServer = TRUE
    MaxFailures = 1
SPECIFICATION Spec
INVARIANTS
    TypeOK
    ProfilesPreserved
    DataPatchesNeverFail
