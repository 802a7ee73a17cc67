-------------------------- MODULE GroupNamespaces --------------------------
(***************************************************************************)
(* What the host group split promises, per logical group: a group is its  *)
(* name.  Before the split every name is a host group.  The split is one  *)
(* step that places every name in the host namespace, the template        *)
(* namespace or both, and changes nothing else a user can observe: which  *)
(* hosts and templates are in the group of that name, which names host    *)
(* prototypes use, and the grants held on every group of that name.       *)
(*                                                                         *)
(* The placement is constrained, not computed: a name holding templates   *)
(* is a template group, one holding hosts or used by prototypes a host    *)
(* group; only those and empty folders become template groups; a name    *)
(* becomes a host group only if it holds hosts, is a folder, or is needed *)
(* above another host group; and the host hierarchy is closed (spec       *)
(* sections 4.2-4.4 and invariant 2, for the host namespace).             *)
(***************************************************************************)
EXTENDS FiniteSets

CONSTANTS
    GroupNames,   \* names a group may carry
    Hosts,        \* hosts and templates
    HostStatus,   \* host -> hosts.status
    HOST,         \* the host namespace
    TEMPLATE,     \* the template namespace
    IsTemplate(_) \* whether a hosts.status value marks a template

VARIABLES
    placement,    \* name -> the namespaces a group of that name exists in
    members,      \* set of <<host, name>>
    protoNames,   \* names of the groups host prototypes use
    grants,       \* set of <<user group, permission, name>>
    migrated

avars == <<placement, members, protoNames, grants, migrated>>

NH == INSTANCE NameHierarchy WITH names <- {}, Names <- GroupNames, MaxNames <- 0

Names == DOMAIN placement

TemplateHolder(n) == \E h \in Hosts : <<h, n>> \in members /\ IsTemplate(HostStatus[h])
HostHolder(n) ==
    \/ \E h \in Hosts : <<h, n>> \in members /\ ~IsTemplate(HostStatus[h])
    \/ n \in protoNames
Folder(n) == ~TemplateHolder(n) /\ ~HostHolder(n)

\* The placements the split may produce.
Placed(p) ==
    \A n \in Names :
        /\ p[n] # {}
        /\ TemplateHolder(n) => TEMPLATE \in p[n]
        /\ HostHolder(n) => HOST \in p[n]
        /\ TEMPLATE \in p[n] => TemplateHolder(n) \/ Folder(n)
        /\ HOST \in p[n] =>
              \/ HostHolder(n) \/ Folder(n)
              \/ \E m \in Names : HOST \in p[m] /\ NH!SpecAncestor(n, m)
        /\ \A m \in Names : HOST \in p[m] /\ NH!SpecAncestor(n, m) => HOST \in p[n]

Init ==
    /\ Names \subseteq GroupNames
    /\ \A n \in Names : placement[n] = {HOST}
    /\ migrated = FALSE

Migrate ==
    /\ ~migrated
    /\ migrated' = TRUE
    /\ DOMAIN placement' = Names
    /\ Placed(placement')
    /\ UNCHANGED <<members, protoNames, grants>>

Spec == Init /\ [][Migrate]_avars

=============================================================================
