\* MySQL: DDL commits at once, and the server may crash before the version is recorded.
CONSTANTS
    LdapHosts <- MCLdapHosts
    Quoted <- MCQuoted
    DDLTransactional = FALSE
    MaxFailures = 1
    NULL = NULL
SPECIFICATION Spec
INVARIANTS
    PatchesNeverFail
