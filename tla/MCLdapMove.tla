----------------------------- MODULE MCLdapMove -----------------------------
EXTENDS LdapMove

MCLdapHosts == {"ldap.example.com"}

\* A host value with a quote, as the frontend can store it.
MCQuotedHosts == {"ldap.example.com", "o'hara.example.com"}
MCQuoted == {"o'hara.example.com"}
=============================================================================
