---------------------------- MODULE MCOrchestrator ----------------------------
(* One scenario: fixtures, then queries of one trusted user.                 *)
EXTENDS Orchestrator

CONSTANTS u1, u2

MCIds == {1, 2, 3}
MCSeedVersions == {4}

Act(type, ticket) ==
    [type |-> type, claims |-> NoUser, ticket |-> ticket, complaint |-> TRUE,
     to |-> NoStatus, text |-> "plain", newId |-> 1]

Move(ticket, to) == [Act("UPDATE_TICKET", ticket) EXCEPT !.to = to]
Create(id) == [Act("CREATE_TICKET", NoTicket) EXCEPT !.newId = id]

Ticket(user, id, status, created) ==
    [user |-> user, id |-> id, status |-> status, version |-> 4, created |-> created]

\* No ticket, a stranger's, an open one, two that tie, two that do not, and a list
\* that names one id twice.  Two queries close a ticket and try to write it again.
MCFixtures ==
    {<<>>} \cup {<<Ticket(u, 1, "OPEN", 0)>> : u \in {u1, u2}}
    \cup {<<Ticket(u1, 1, "IN_REVIEW", c), Ticket(u1, 2, "RESOLVED", 0)>> : c \in 0 .. MaxTime}
    \cup {<<Ticket(u1, 1, "OPEN", 0), Ticket(u1, 1, "CLOSED", 0)>>}

\* Each action that reaches the store, each kind of reference, and the denials that
\* come from the claimed user, a promise, a lookup and the state machine
MCProposals ==
    {Create(1), Create(2),
     [Create(1) EXCEPT !.claims = u2], [Create(1) EXCEPT !.complaint = FALSE],
     [Act("NONE", NoTicket) EXCEPT !.text = "refund"],
     Act("NONE", UnknownRef),
     Act("GET_TICKET_STATUS", LatestTicket),
     Act("CLOSE_TICKET", InitialTicket),
     Act("UPDATE_TICKET", 2), Move(1, "IN_REVIEW"), Move(2, "CLOSED")}
==============================================================================
