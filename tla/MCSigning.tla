----------------------------- MODULE MCSigning ------------------------------
(***************************************************************************)
(* Who may see and release what.  The parts share nothing, so a behaviour  *)
(* takes the steps of one of them:                                         *)
(*   SIGNING    the approval and signature of an order's items;            *)
(*   ASSISTANT  a conversation with the assistant, under permissions.      *)
(***************************************************************************)
EXTENDS Signing

CONSTANTS
  Properties, OrgRoles, Rosters, MemberRoles, Edits, MaxChanges,
  Elsewhere, Claims, MaxTurns, MaxToolCalls, MaxToolCallsPerTool, MaxCallsPerMessage, RateLimit, MaxQuestions,
  p1, p2

VARIABLES
  part,
  orgRole, memberships, overrides, changes,
  aiEnabled, hits, conversation, turn, cited, held, granted, questions

Assistant == INSTANCE Assistant

\* Nobody's property has the id that is nobody's, and a property role is one
\* of those the catalogue has capabilities for.
ASSUME AssistantAssumption ==
  /\ Elsewhere \notin Properties
  /\ \A roster \in Rosters : \A m \in roster : m.role \in Assistant!PropertyRoles
  /\ MemberRoles \subseteq Assistant!PropertyRoles

assistantVars == <<orgRole, memberships, overrides, changes,
                   aiEnabled, hits, conversation, turn, cited, held, granted, questions>>

-----------------------------------------------------------------------------
\* Small amounts need an approval, larger ones a signature too; a policy that
\* asks for nothing; and an amount in another currency.
Tiered == [enabled |-> TRUE, currency |-> "AUD",
           rules |-> <<[max |-> 10, mode |-> "APPROVAL_ONLY"], [max |-> Open, mode |-> "APPROVAL_THEN_SIGNATURE"]>>]
Lax == [enabled |-> TRUE, currency |-> "AUD", rules |-> <<[max |-> Open, mode |-> "NONE"]>>]
MCPricings ==
  <<{[policy |-> Tiered, cents |-> 10, currency |-> "AUD"], [policy |-> Tiered, cents |-> 11, currency |-> "AUD"],
     [policy |-> Tiered, cents |-> 10, currency |-> "USD"], [policy |-> Lax, cents |-> 11, currency |-> "AUD"]},
    {[policy |-> Tiered, cents |-> 11, currency |-> "AUD"]}>>
MCMixes == {<<"QUOTE", "QUOTE">>, <<"VARIATION">>}

\* A member of staff who manages one property's facilities and owns a lot on
\* the other, or has no membership yet; permissions of both roles may be
\* edited; the assistant claims nothing or everything.
Kinds == {"MAINTENANCE_REQUEST", "WORK_ORDER", "WORK_ORDER_VARIATION", "QUOTE_ROUND", "CONTRACTOR_QUOTE",
          "CONTRACTOR", "PROPERTY"}

MCProperties == {p1, p2}
MCOrgRoles == {"NONE", "MEMBER"}
MCRosters == {{}, {[property |-> p1, role |-> "FACILITY_MANAGER"], [property |-> p2, role |-> "OWNER"]}}
MCMemberRoles == {"FACILITY_MANAGER", "OWNER"}
MCEdits ==
  {[role |-> "OWNER", wanted |-> [c \in {"quotes.view"} |-> TRUE]],
   [role |-> "FACILITY_MANAGER", wanted |-> [c \in {"maintenance.view", "strata.view"} |-> c = "strata.view"]]}
MCClaims == {{}, Kinds \X {p1, p2, Elsewhere}}

-----------------------------------------------------------------------------
MCInit ==
  /\ Init /\ Assistant!Init
  /\ part \in {"SIGNING", "ASSISTANT"}
  /\ part = "SIGNING" => orgRole = "NONE" /\ memberships = {} /\ aiEnabled

MCNext ==
  \/ part = "SIGNING" /\ Next /\ UNCHANGED <<part, assistantVars>>
  \/ part = "ASSISTANT" /\ Assistant!Next /\ UNCHANGED <<part, vars>>

MCSpec == MCInit /\ [][MCNext]_<<part, vars, assistantVars>>

\* An answer refers only to rows its reader may see.
AnswersStayInReach == Assistant!AnswersStayInReach
=============================================================================
