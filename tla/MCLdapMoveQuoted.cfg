\* A configured LDAP host whose name contains a quote.
CONSTANTS
    LdapHosts <- MCQuotedHosts
    Quoted <- MCQuoted
    DDLTransactional = TRUE
    MaxFailures = 3
    NULL = NULL
SPECIFICATION Spec
INVARIANTS
    PatchesNeverFail
