--------------------------- MODULE Authorization ----------------------------
(***************************************************************************)
(* What a signed-in user may do: the capabilities of the roles, as one     *)
(* organisation has overridden them, and the memberships that give a user  *)
(* a role on a property.  One user, whose organisation role is fixed by    *)
(* the access token.  Of the roles' capabilities only those are listed     *)
(* that somebody asks for.                                                 *)
(***************************************************************************)
EXTENDS Naturals

CONSTANTS
  Properties,    \* the properties of the organisation
  OrgRoles,      \* the organisation roles the user may have, "NONE" for none
  Rosters,       \* the memberships the user may have to begin with
  MemberRoles,   \* the property roles somebody gives the user
  Edits,         \* edits of a role's permissions: [role, wanted]
  MaxChanges     \* bound: changes of memberships and permissions

VARIABLES
  orgRole,       \* the user's organisation role
  memberships,   \* the user's ACTIVE memberships: [property, role]
  overrides,     \* the organisation's deviations: [role, capability, granted]
  changes

authorizationVars == <<orgRole, memberships, overrides, changes>>

\* The catalogue: nothing else is ever granted, whatever has been stored.
Capabilities ==
  {"property.view", "property.manage", "spaces.view", "spaces.manage", "people.view", "people.manage",
   "maintenance.view", "maintenance.manage", "work_orders.view", "work_orders.manage",
   "contractors.view", "contractors.manage", "contractor_compliance.view", "contractor_compliance.manage",
   "contractor_compliance.verify", "quotes.view", "quotes.manage", "quotes.approve",
   "communications.view", "communications.send", "communications.manage", "analytics.view", "activity.view",
   "strata.view", "strata.manage", "financials.view", "financials.manage", "financials.approve", "ai.use"}

DefaultCapabilities ==
  [PROPERTY_MANAGER |-> {"property.view", "maintenance.view", "work_orders.view", "contractors.view",
                         "quotes.view", "communications.view", "strata.view", "ai.use"},
   FACILITY_MANAGER |-> {"property.view", "maintenance.view", "work_orders.view", "contractors.view",
                         "quotes.view", "communications.view", "ai.use"},
   AGENT            |-> {"property.view", "maintenance.view", "work_orders.view", "communications.view"},
   COMMITTEE_MEMBER |-> {"property.view", "maintenance.view", "work_orders.view", "quotes.view",
                         "communications.view", "strata.view"},
   OWNER            |-> {"property.view", "maintenance.view", "strata.view"},
   TENANT           |-> {},
   RESIDENT         |-> {}]

PropertyRoles == DOMAIN DefaultCapabilities
ConfigurableRoles == PropertyRoles \ {"TENANT", "RESIDENT"}
MemberCapabilities == {"property.view", "maintenance.view", "strata.view"}

-----------------------------------------------------------------------------
EffectiveCapabilities(role) ==
  LET overridden(granted) ==
        {o.capability : o \in {x \in overrides : x.role = role /\ x.granted = granted}} \cap Capabilities
  IN (DefaultCapabilities[role] \cup overridden(TRUE)) \ overridden(FALSE)

\* The memberships held are read before the overrides of their roles.
CapabilitiesOn(held, p) == UNION {EffectiveCapabilities(m.role) : m \in {x \in held : x.property = p}}

CanEverywhere(capability) ==
  \/ orgRole \in {"OWNER", "ADMIN"}
  \/ orgRole = "MEMBER" /\ capability \in MemberCapabilities

\* Wrong: memberships on other properties count.
CanAnywhere(held, capability, p) == CanEverywhere(capability) \/ \E q \in Properties : capability \in CapabilitiesOn(held, q)

\* With no property of the organisation at hand: is there one where they may?
Can(held, capability, p) ==
  \/ CanEverywhere(capability)
  \/ p \in Properties /\ capability \in CapabilitiesOn(held, p)
  \/ p \notin Properties /\ \E q \in Properties : capability \in CapabilitiesOn(held, q)

AccessibleProperties(held, capability) ==
  IF CanEverywhere(capability) THEN Properties
  ELSE {p \in Properties : capability \in CapabilitiesOn(held, p)}

-----------------------------------------------------------------------------
Counted == changes < MaxChanges /\ changes' = changes + 1

BeginMembership(p, role) ==
  /\ Counted
  /\ memberships' = memberships \cup {[property |-> p, role |-> role]}
  /\ UNCHANGED <<orgRole, overrides>>

EndMembership(m) ==
  /\ Counted
  /\ memberships' = memberships \ {m}
  /\ UNCHANGED <<orgRole, overrides>>

\* A wish that agrees with the default deletes the row, another one stores it;
\* capabilities that are not mentioned keep theirs.
UpdateRole(role, wanted) ==
  /\ role \in ConfigurableRoles
  /\ Counted
  /\ LET deviating == {c \in DOMAIN wanted : wanted[c] # (c \in DefaultCapabilities[role])} IN
     overrides' = {o \in overrides : o.role # role \/ o.capability \notin DOMAIN wanted}
                  \cup {[role |-> role, capability |-> c, granted |-> wanted[c]] : c \in deviating}
  /\ UNCHANGED <<orgRole, memberships>>

ResetRole(role) ==
  /\ role \in ConfigurableRoles
  /\ Counted
  /\ overrides' = {o \in overrides : o.role # role}
  /\ UNCHANGED <<orgRole, memberships>>

AuthorizationInit ==
  /\ orgRole \in OrgRoles
  /\ memberships \in Rosters
  /\ overrides = {}
  /\ changes = 0

AuthorizationNext ==
  \/ \E p \in Properties, role \in MemberRoles : BeginMembership(p, role)
  \/ \E m \in memberships : EndMembership(m)
  \/ \E edit \in Edits : UpdateRole(edit.role, edit.wanted)
  \/ \E role \in MemberRoles : ResetRole(role)
=============================================================================
