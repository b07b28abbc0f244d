----------------------------- MODULE Assistant ------------------------------
(***************************************************************************)
(* One conversation of one user with the assistant.  A turn lets the       *)
(* provider choose tools and their arguments freely, runs each of them     *)
(* through the gateway, which looks up the property and checks the user's  *)
(* capability, within a budget, and keeps of the final answer only the     *)
(* resources the tools have returned in this turn.  Permissions change     *)
(* between any two steps.                                                  *)
(*                                                                         *)
(* A resource is a kind of row on a property; of every kind a property has *)
(* one, and one contractor works for all of them.  Of the rows a tool may  *)
(* or may not find there, it finds all or none.                            *)
(***************************************************************************)
EXTENDS Authorization, Sequences, FiniteSets

CONSTANTS
  Elsewhere,          \* an id that is not one of the organisation's
  Claims,             \* what a final answer may refer to
  MaxTurns, MaxToolCalls, MaxToolCallsPerTool, MaxCallsPerMessage,
  RateLimit,          \* questions in an hour
  MaxQuestions        \* bound

VARIABLES
  aiEnabled,          \* the organisation's switch
  hits,               \* questions of the trailing hour, kept in memory
  conversation,       \* the roles of the stored messages
  turn,               \* the turn in progress
  cited,              \* the resources of the last answer
  held, granted,      \* history: memberships and grants since the turn began
  questions

vars == <<authorizationVars, aiEnabled, hits, conversation, turn, cited, held, granted, questions>>

-----------------------------------------------------------------------------
(***************************************************************************)
(* The tools.  Each asks for a capability on the property its argument     *)
(* belongs to, or anywhere, and returns one of some sets of resources.     *)
(***************************************************************************)
Some(rows) == {{}, rows}
With(rows, optional) == {rows \cup o : o \in Some(optional)}

MaintenanceRequestContext(p) ==
  [capability |-> "maintenance.view",
   outcomes |-> With({<<"MAINTENANCE_REQUEST", p>>, <<"PROPERTY", p>>}, {<<"WORK_ORDER", p>>, <<"QUOTE_ROUND", p>>})]

MaintenanceTimeline(p) ==
  [capability |-> "maintenance.view", outcomes |-> {{<<"MAINTENANCE_REQUEST", p>>}}]

\* A request that is not found has no round either: nothing is missing.
QuoteComparisonFacts(p) ==
  [capability |-> "quotes.view",
   outcomes |-> IF p = Elsewhere THEN {{}}
                ELSE Some({<<"QUOTE_ROUND", p>>, <<"CONTRACTOR_QUOTE", p>>, <<"CONTRACTOR", Elsewhere>>})]

ContractorEligibilityContext ==
  [capability |-> "contractors.view", outcomes |-> {{<<"CONTRACTOR", Elsewhere>>}}]

ApprovalContext(p) ==
  [capability |-> "quotes.view", outcomes |-> {{<<"CONTRACTOR_QUOTE", p>>}}]

VariationContext(p) ==
  [capability |-> "work_orders.view", outcomes |-> {{<<"WORK_ORDER", p>>}}]

CommunicationTimeline ==
  [capability |-> "communications.view", outcomes |-> {{}}]

PropertyOperationalSummary(p) ==
  [capability |-> "property.view", outcomes |-> {{<<"PROPERTY", p>>}}]

RelatedMaintenanceHistory(p) ==
  [capability |-> "maintenance.view", outcomes |-> Some({<<"MAINTENANCE_REQUEST", p>>})]

StrataContext(p) ==
  [capability |-> "strata.view", outcomes |-> {{<<"PROPERTY", p>>}}]

\* The handler reads for itself where the user may look.
PortfolioExceptionCandidates(read) ==
  [capability |-> "maintenance.view",
   outcomes |-> Some({"MAINTENANCE_REQUEST", "WORK_ORDER", "QUOTE_ROUND", "WORK_ORDER_VARIATION"}
                       \X AccessibleProperties(read, "maintenance.view"))]

WorkOrderContext(p) ==
  [capability |-> "work_orders.view",
   outcomes |-> With({<<"WORK_ORDER", p>>, <<"PROPERTY", p>>}, {<<"MAINTENANCE_REQUEST", p>>})]

\* The allow-list, with an argument that names something on p.
Tools(p, read) ==
  [get_maintenance_request_context    |-> MaintenanceRequestContext(p),
   get_maintenance_timeline           |-> MaintenanceTimeline(p),
   get_quote_comparison_facts         |-> QuoteComparisonFacts(p),
   get_contractor_eligibility_context |-> ContractorEligibilityContext,
   get_approval_context               |-> ApprovalContext(p),
   get_variation_context              |-> VariationContext(p),
   get_communication_timeline         |-> CommunicationTimeline,
   get_property_operational_summary   |-> PropertyOperationalSummary(p),
   get_related_maintenance_history    |-> RelatedMaintenanceHistory(p),
   get_strata_context                 |-> StrataContext(p),
   get_portfolio_exception_candidates |-> PortfolioExceptionCandidates(read),
   get_work_order_context             |-> WorkOrderContext(p)]

ToolNames == DOMAIN Tools(Elsewhere, {})
PortfolioWide == {"get_contractor_eligibility_context", "get_portfolio_exception_candidates"}

\* Tools that answer although their argument names nothing of theirs.
AnswersForAnything == {"get_quote_comparison_facts", "get_communication_timeline"}

-----------------------------------------------------------------------------
Idle == [step |-> "IDLE", turns |-> 0, calls |-> 0, tool |-> "", at |-> Elsewhere, read |-> {}, used |-> <<>>,
         collected |-> {}]

Grants == {x \in PropertyRoles \X DefaultCapabilities.PROPERTY_MANAGER : x[2] \in EffectiveCapabilities(x[1])}

\* The history follows a turn in progress.
Remember ==
  IF turn.step = "IDLE" THEN held' = {} /\ granted' = {}
  ELSE held' = held \cup memberships' /\ granted' = granted \cup Grants'

\* The platform's switch is on; the gate reads the others in turn.
Ask ==
  /\ turn.step = "IDLE" /\ questions < MaxQuestions
  /\ aiEnabled /\ Can(memberships, "ai.use", Elsewhere)
  /\ hits < RateLimit
  /\ hits' = hits + 1
  /\ conversation' = Append(conversation, "USER")
  /\ turn' = [Idle EXCEPT !.step = "CHAT"]
  /\ cited' = {}
  /\ held' = memberships /\ granted' = Grants
  /\ questions' = questions + 1
  /\ UNCHANGED <<authorizationVars, aiEnabled>>

Proceed(t) == turn' = t /\ UNCHANGED <<authorizationVars, aiEnabled, hits, conversation, cited, held, granted, questions>>

\* An answer, or the fallback, is stored and ends the turn.
Respond(resources) ==
  /\ turn' = Idle
  /\ cited' = resources
  /\ conversation' = Append(conversation, "ASSISTANT")
  /\ UNCHANGED <<authorizationVars, aiEnabled, hits, held, granted, questions>>

AbortTurn == Respond({})

Reconciled(claims) == claims \cap turn.collected

Chat ==
  /\ turn.step = "CHAT"
  /\ IF turn.turns >= MaxTurns THEN AbortTurn
     ELSE \/ \E claims \in Claims : Respond(Reconciled(claims))
          \/ AbortTurn   \* malformed, or the provider fails
          \/ \E n \in 1 .. MaxCallsPerMessage :
               Proceed([turn EXCEPT !.step = "CALL", !.turns = @ + 1, !.calls = n])

\* What a failed or finished call leaves to do.
Advanced(t) == [t EXCEPT !.step = IF t.calls = 1 THEN "CHAT" ELSE "CALL", !.calls = @ - 1,
                      !.tool = "", !.at = Elsewhere, !.read = {}]

WithinBudget(tool) ==
  /\ Len(turn.used) < MaxToolCalls
  /\ Cardinality({n \in DOMAIN turn.used : turn.used[n] = tool}) < MaxToolCallsPerTool

\* The model names a tool, allowed or not, and an argument.
CallTool ==
  /\ turn.step = "CALL"
  /\ \/ AbortTurn                 \* no such tool
     \/ Proceed(Advanced(turn))      \* arguments that are no JSON, or not the tool's
     \/ \E tool \in ToolNames, p \in Properties \cup {Elsewhere} :
          IF WithinBudget(tool)
          THEN Proceed([turn EXCEPT !.step = "CHECK", !.tool = tool, !.read = memberships,
                                    !.at = IF tool \in PortfolioWide THEN Elsewhere ELSE p])
          ELSE AbortTurn

CheckCapability ==
  /\ turn.step = "CHECK"
  /\ IF Can(turn.read, Tools(turn.at, {})[turn.tool].capability, turn.at)
     THEN Proceed([turn EXCEPT !.read = {},
                     !.step = IF turn.tool = "get_portfolio_exception_candidates" THEN "SCOPE" ELSE "RUN"])
     ELSE Proceed(Advanced(turn))

ScopePortfolio ==
  /\ turn.step = "SCOPE"
  /\ Proceed([turn EXCEPT !.step = "RUN", !.read = memberships])

RunTool ==
  /\ turn.step = "RUN"
  /\ \/ Proceed(Advanced(turn))      \* it times out
     \/ IF turn.at = Elsewhere /\ turn.tool \notin PortfolioWide \cup AnswersForAnything
        THEN Proceed(Advanced(turn))
        ELSE \/ \E found \in Tools(turn.at, turn.read)[turn.tool].outcomes :
                  Proceed(Advanced([turn EXCEPT !.collected = @ \cup found, !.used = Append(@, turn.tool)]))
             \/ AbortTurn         \* the results have grown too long

\* The server stops: the turn is lost, and so is the limiter's memory.
Restart ==
  /\ turn.step # "IDLE" \/ hits > 0
  /\ turn' = Idle /\ hits' = 0 /\ held' = {} /\ granted' = {} /\ cited' = {}
  /\ UNCHANGED <<authorizationVars, aiEnabled, conversation, questions>>

HourPasses ==
  /\ hits > 0 /\ hits' = hits - 1
  /\ UNCHANGED <<authorizationVars, aiEnabled, conversation, turn, cited, held, granted, questions>>

SwitchAssistant ==
  /\ Counted
  /\ aiEnabled' = ~aiEnabled
  /\ UNCHANGED <<orgRole, memberships, overrides, hits, conversation, turn, cited, held, granted, questions>>

ChangePermissions ==
  /\ AuthorizationNext
  /\ Remember
  /\ cited' = IF turn.step = "IDLE" THEN {} ELSE cited
  /\ UNCHANGED <<aiEnabled, hits, conversation, turn, questions>>

Init ==
  /\ AuthorizationInit
  /\ aiEnabled \in BOOLEAN
  /\ hits = 0
  /\ conversation = <<>>
  /\ turn = Idle
  /\ cited = {} /\ held = {} /\ granted = {}
  /\ questions = 0

Next ==
  \/ Ask \/ Chat \/ CallTool \/ CheckCapability \/ ScopePortfolio \/ RunTool
  \/ Restart \/ HourPasses \/ SwitchAssistant \/ ChangePermissions

Spec == Init /\ [][Next]_vars

-----------------------------------------------------------------------------
\* The capabilities that may show rows of a kind.
ShownBy ==
  [MAINTENANCE_REQUEST  |-> {"maintenance.view", "work_orders.view"},
   WORK_ORDER           |-> {"maintenance.view", "work_orders.view"},
   WORK_ORDER_VARIATION |-> {"maintenance.view"},
   QUOTE_ROUND          |-> {"maintenance.view", "quotes.view"},
   CONTRACTOR_QUOTE     |-> {"quotes.view"},
   CONTRACTOR           |-> {"quotes.view", "contractors.view"},
   PROPERTY             |-> {"property.view", "maintenance.view", "work_orders.view", "strata.view"}]

\* Whatever the model asks for and claims, and however permissions change
\* meanwhile, an answer refers to a row only if the user has held, since the
\* question was asked, a membership on the row's property and that role a
\* capability that shows such rows, or may look everywhere.
AnswersStayInReach ==
  \A r \in cited : \E c \in ShownBy[r[1]] :
    \/ CanEverywhere(c)
    \/ \E m \in held : (r[2] = m.property \/ r[1] = "CONTRACTOR") /\ <<m.role, c>> \in granted
=============================================================================
