\* The split implements the abstract one-step placement of GroupNamespaces.
CONSTANTS
    GroupIds <- MCGroupIds
    GroupNames <- MCGroupNames
    Hosts <- MCHosts
    HostStatus <- MCHostStatus
    Grant <- MCGrant
    MaxFailures = 1
    IsServer = TRUE
SPECIFICATION Spec
PROPERTY RefinesGroupNamespaces
