-------------------------------- MODULE Policy --------------------------------
(***************************************************************************)
(* PolicyEngine.validate (policy.py): a pure function from the trusted     *)
(* user, a proposed action and the outcome of the ticket lookup to a       *)
(* decision.  The clauses are tried in the order of the code.              *)
(*                                                                         *)
(* An action is a record with                                              *)
(*   type        the action type                                           *)
(*   claims      the user_id the LLM wrote, or NoUser                      *)
(*   ticket      a ticket id, or NoTicket                                  *)
(*   complaint   whether complaint_type is given                           *)
(*   to          requested_transition, or NoStatus                         *)
(*   text        what reason and answer_text promise: "plain", "refund"    *)
(*               (a phrase of the refund gate) or "sla" (of the SLA gate)  *)
(***************************************************************************)
EXTENDS TicketLifecycle

CONSTANTS NoUser, NoTicket

Decision(code, reason) == [code |-> code, reason |-> reason]

\* Mutant: the clause CLOSED_IMMUTABLE is missing
NeverImmutable(type, status) == FALSE

\* A ticket that may take no further write
Immutable(type, status) == status = "CLOSED" /\ type # "GET_TICKET_STATUS"

RequestedTarget(action) ==
    IF action.type = "CLOSE_TICKET" THEN "CLOSED"
    ELSE IF action.type = "UPDATE_TICKET" THEN action.to
    ELSE NoStatus

Unreachable(action, status) ==
    /\ RequestedTarget(action) # NoStatus
    /\ ~CanTransition(status, RequestedTarget(action))

\* UPDATE_TICKET, CLOSE_TICKET and GET_TICKET_STATUS; status is the status of
\* the ticket found.  ALREADY_CLOSED and UNKNOWN_ACTION are unreachable in the
\* code: CLOSED_IMMUTABLE comes first and the action type is an enumeration.
ValidateTicketAction(action, lookup, status) ==
    IF action.ticket = NoTicket THEN Decision("CLARIFY", "MISSING_TICKET_ID")
    ELSE IF lookup = "ACCESS_DENIED" THEN Decision("DENY", "TICKET_NOT_ACCESSIBLE")
    ELSE IF lookup = "NOT_FOUND" THEN Decision("CLARIFY", "TICKET_NOT_FOUND_OR_UNAVAILABLE")
    ELSE IF lookup # "FOUND" THEN Decision("DENY", "TICKET_LOOKUP_UNAVAILABLE")
    ELSE IF Immutable(action.type, status) THEN Decision("DENY", "CLOSED_IMMUTABLE")
    ELSE IF Unreachable(action, status) THEN Decision("DENY", "INVALID_TRANSITION")
    ELSE Decision("ALLOW", "ALLOW")

Validate(user, action, lookup, status) ==
    IF action.claims \notin {NoUser, user} THEN Decision("DENY", "TRUSTED_IDENTITY_MISMATCH")
    ELSE IF action.text = "refund" THEN Decision("DENY", "REFUND_OR_COMPENSATION_COMMITMENT")
    ELSE IF action.text = "sla" THEN Decision("DENY", "INVENTED_SLA")
    ELSE IF action.type = "NONE" THEN Decision("NONE", "NO_ACTION")
    ELSE IF action.type = "CLARIFY" THEN Decision("CLARIFY", "CLARIFY_REQUIRED")
    ELSE IF action.type = "CREATE_TICKET" /\ ~action.complaint
         THEN Decision("CLARIFY", "MISSING_COMPLAINT_TYPE")
    ELSE IF action.type = "CREATE_TICKET" THEN Decision("ALLOW", "CREATE_OK")
    ELSE ValidateTicketAction(action, lookup, status)
==============================================================================
