--------------------------- MODULE TicketLifecycle ---------------------------
(***************************************************************************)
(* Vocabulary shared by the runtime modules: the ticket states and their   *)
(* allowed transitions (state_machine.py with config/policy.yaml), the     *)
(* action types an LLM may propose and the codes a lookup and the policy   *)
(* answer with (models.py).                                                *)
(***************************************************************************)

Statuses == {"OPEN", "WAITING_CUSTOMER", "IN_REVIEW", "RESOLVED", "CLOSED"}

\* "no status": from_status NULL in the event table, requested_transition None
NoStatus == "NONE"

\* config/policy.yaml ticket.allowed_transitions, as TicketStateMachine loads it
AllowedTargets ==
    [OPEN             |-> {"WAITING_CUSTOMER", "IN_REVIEW"},
     WAITING_CUSTOMER |-> {"IN_REVIEW"},
     IN_REVIEW        |-> {"WAITING_CUSTOMER", "RESOLVED"},
     RESOLVED         |-> {"CLOSED"},
     CLOSED           |-> {}]

\* Mutant: allowed_transitions is not consulted
TransitionsAnywhere(from, to) == to # from

CanTransition(from, to) == to \in AllowedTargets[from]

ActionTypes == {"NONE", "CREATE_TICKET", "UPDATE_TICKET", "CLOSE_TICKET",
                "CLARIFY", "GET_TICKET_STATUS"}

\* The actions that name an existing ticket (ticket_actions, needs_ticket)
TicketActions == {"UPDATE_TICKET", "CLOSE_TICKET", "GET_TICKET_STATUS"}

\* The actions whose execution writes to the store
WritingActions == {"CREATE_TICKET", "UPDATE_TICKET", "CLOSE_TICKET"}

DecisionCodes == {"ALLOW", "DENY", "CLARIFY", "NONE"}

LookupCodes == {"FOUND", "NOT_FOUND", "ACCESS_DENIED", "NOT_REQUESTED"}
==============================================================================
