\* The split on a server database, with one storage failure per upgrade:
\* whether every ancestor of a template group is a template group too.
CONSTANTS
    GroupIds <- MCGroupIds
    GroupNames <- MCGroupNames
    Hosts <- MCHosts
    HostStatus <- MCHostStatus
    Grant <- MCGrant
    MaxFailures = 1
    IsServer = TRUE
SPECIFICATION Spec
INVARIANT
    TemplateHierarchyClosed
