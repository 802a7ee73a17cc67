\* The LDAP move on a database with transactional DDL (PostgreSQL).
CONSTANTS
    LdapHosts <- MCLdapHosts
    Quoted <- MCQuoted
    DDLTransactional = TRUE
    MaxFailures = 3
    NULL = NULL
SPECIFICATION Spec
INVARIANTS
    TypeOK
    PatchesNeverFail
    LdapSettingsNeverLost
