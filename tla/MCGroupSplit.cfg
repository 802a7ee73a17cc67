\* The split on a server database, with one storage failure per upgrade:
\* what happens to each group's type, members and grants, and the name
\* hierarchies of host and template groups.
CONSTANTS
    GroupIds <- MCGroupIds
    GroupNames <- MCGroupNames
    Hosts <- MCHosts
    HostStatus <- MCHostStatus
    Grant <- MCGrant
    MaxFailures = 1
    IsServer = TRUE
SPECIFICATION Spec
INVARIANTS
    TypeOK
    NoUniqueConflict
    PrototypeGroupsAreHostGroups
    NamespaceMatchesMembers
    GrantsFollowOrigin
    HostHierarchyClosed
    FolderPlacementIsClosure
