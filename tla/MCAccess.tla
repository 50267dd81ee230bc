------------------------------ MODULE MCAccess ------------------------------
(***************************************************************************)
(* Constants of the TLC model of AccessSystem.                             *)
(***************************************************************************)
EXTENDS AccessSystem, TLC

MCSectionPermissions == [s \in Sections |-> {s}]

MCDefaultRoles == [s \in Sections |-> {Admin}]

MCRoleChoices == {{Admin}, {Guest}}

\* An account with a Microsoft identity and the email of the administrator, and
\* a suspended local one that has his username.
MCAccountRows ==
  {[person |-> p, email |-> AdminEmail, microsoft |-> i, local |-> None, status |-> "ACTIVE",
    rotate |-> FALSE, roles |-> {Admin}] : p \in Persons, i \in Identities}
  \cup
  {[person |-> p, email |-> e, microsoft |-> None, local |-> AdminUsername,
    status |-> "SUSPENDED", rotate |-> FALSE, roles |-> {Guest}] :
     p \in Persons, e \in Emails \ {AdminEmail}}
==============================================================================
