--------------------------- MODULE MCDataPatches ---------------------------
EXTENDS DataPatches

\* One host of each kind the select tells apart: a plain host, a host
\* prototype, a discovered host that is not monitored, a template and an
\* active proxy (a hosts row in 6.0).
MCHosts == 1..5
MCHostFlags == <<0, 2, 4, 0, 0>>
MCHostStatus == <<0, 0, 1, 3, 5>>

\* -1 (any action) and two single actions.
MCAuditValues == {-1, 0, 3}

\* A template linked to the plain host, the prototype and the discovered host.
MCTemplateLinks == {<<1, 4>>, <<2, 4>>, <<3, 4>>}

=============================================================================
