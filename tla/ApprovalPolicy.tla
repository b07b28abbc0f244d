--------------------------- MODULE ApprovalPolicy ---------------------------
(***************************************************************************)
(* What an amount must go through before it binds anyone: the bands of the *)
(* organisation's policy (ApprovalPolicyService) and the result of the     *)
(* gates a workflow implies (workflow-result.ts).                          *)
(***************************************************************************)
EXTENDS Integers, Sequences, FiniteSets, FiniteSetsExt

Unset == "UNSET"      \* null in the database
Modes == {"NONE", "APPROVAL_ONLY", "SIGNATURE_ONLY", "APPROVAL_THEN_SIGNATURE"}

NeedsApproval(mode) == mode \in {"APPROVAL_ONLY", "APPROVAL_THEN_SIGNATURE"}
NeedsSignature(mode) == mode \in {"SIGNATURE_ONLY", "APPROVAL_THEN_SIGNATURE"}

\* A stricter workflow may be chosen than the one required, never a weaker.
MeetsOrExceeds(chosen, required) ==
  /\ NeedsApproval(required) => NeedsApproval(chosen)
  /\ NeedsSignature(required) => NeedsSignature(chosen)

\* The rules of a policy in order: [max, mode], where max = Open has no upper
\* bound.  A band starts a cent after the one before it ends.
Open == -1
MinOf(rules, k) == IF k = 1 THEN 0 ELSE rules[k - 1].max + 1
Matching(rules, cents) ==
  {k \in DOMAIN rules : MinOf(rules, k) <= cents /\ (rules[k].max = Open \/ cents <= rules[k].max)}

\* Unset: no policy, disabled, in another currency, or no band matches.
Resolve(policy, cents, currency) ==
  IF ~policy.enabled \/ policy.currency # currency \/ Matching(policy.rules, cents) = {}
  THEN Unset
  ELSE policy.rules[Min(Matching(policy.rules, cents))].mode

SignatureResult(signature) ==
  CASE signature = "SIGNED" -> "COMPLETED"
    [] signature \in {"DECLINED", "EXPIRED"} -> "FAILED"
    [] signature = "CANCELLED" -> "CANCELLED"
    [] OTHER -> "PENDING"

\* Faulty variant: approval completes a workflow that has a signature to come.
DeriveByApproval(mode, approval, signature) ==
  IF mode = "SIGNATURE_ONLY" THEN SignatureResult(signature)
  ELSE IF ~NeedsApproval(mode) THEN "NOT_REQUIRED"
  ELSE IF approval \in {"REJECTED", "CANCELLED"} THEN approval
  ELSE IF approval = "APPROVED" THEN "COMPLETED" ELSE "PENDING"

\* deriveWorkflowResult: the signature is not even looked at before the
\* approval has passed.
Derive(mode, approval, signature) ==
  IF ~NeedsApproval(mode) /\ ~NeedsSignature(mode) THEN "NOT_REQUIRED"
  ELSE IF NeedsApproval(mode) /\ approval \in {"REJECTED", "CANCELLED"} THEN approval
  ELSE IF NeedsApproval(mode) /\ approval # "APPROVED" THEN "PENDING"
  ELSE IF NeedsSignature(mode) THEN SignatureResult(signature) ELSE "COMPLETED"

CanRelease(result) == result \in {"NOT_REQUIRED", "COMPLETED"}

\* What a WaslSign event says of the signature; Unset when nothing.
SignatureOf(event) ==
  CASE event = "SIGNATURE_PENDING" -> "PENDING"
    [] event \in {"SIGNED", "WORKFLOW_COMPLETED"} -> "SIGNED"
    [] event = "WORKFLOW_CANCELLED" -> "CANCELLED"
    [] event \in {"PARTIALLY_SIGNED", "DECLINED", "EXPIRED"} -> event
    [] OTHER -> Unset
=============================================================================
