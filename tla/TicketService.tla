---------------------------- MODULE TicketService ----------------------------
(***************************************************************************)
(* TicketService (ticket_service.py) over its SQLite store (db.py): the    *)
(* ticket table, the append-only event table and the calls that change     *)
(* them.  A call is one action: the reads that guard it, its transaction   *)
(* and its read-back.  A transaction is all or nothing; what a call        *)
(* returned or raised is in reply.                                         *)
(*                                                                         *)
(* The text columns (summary, resolution, complaint_type, payload_json)    *)
(* and updated_at are abstracted: every write increments version, so two   *)
(* different stores of one ticket always differ in the columns kept here.  *)
(***************************************************************************)
EXTENDS TicketLifecycle, Integers, Sequences, FiniteSets

CONSTANTS Users,        \* user identities
          TicketIds,    \* ticket ids; integers, for ORDER BY ... ticket_id
          SeedVersions, \* versions a fixture may declare
          MaxTime,      \* bound of the clock; 0 is a FixedClock
          WriteFaults,  \* may a transaction fail (and roll back)?
          ReadFaults    \* may a read of the store fail?

ASSUME ServiceConstants ==
    /\ TicketIds \subseteq Nat
    /\ SeedVersions \subseteq Int
    /\ MaxTime \in Nat
    /\ WriteFaults \in BOOLEAN
    /\ ReadFaults \in BOOLEAN

VARIABLES tickets,  \* table tickets: ticket_id -> row
          events,   \* table ticket_events, in event_id order
          clock,    \* what now_iso() answers
          reply     \* result or exception of the last call

svcVars == <<tickets, events, clock, reply>>

Row == [owner : Users, status : Statuses, version : Int, created : Nat]

Event == [ticket : TicketIds, user : Users,
          type : {"CREATE", "SEED", "UPDATE", "TRANSITION"},
          from : Statuses \cup {NoStatus}, to : Statuses]

\* "ok" or the exception class raised
Replies == {"none", "ok", "TicketError", "TicketNotFound", "TicketAccessDenied",
            "ClosedTicketImmutable", "InvalidTicketTransition", "DatabaseError"}

Exists(id) == id \in DOMAIN tickets

-----------------------------------------------------------------------------
(* Reads *)

\* Mutant: the owner is not compared
LookupIgnoringOwner(u, id) == IF Exists(id) THEN "FOUND" ELSE "NOT_FOUND"

LookupCode(u, id) ==
    IF ~Exists(id) THEN "NOT_FOUND"
    ELSE IF tickets[id].owner # u THEN "ACCESS_DENIED"
    ELSE "FOUND"

Owned(u) == {id \in DOMAIN tickets : tickets[id].owner = u}

\* ORDER BY created_at, ticket_id: a comes before b
ListedBefore(a, b) ==
    \/ tickets[a].created < tickets[b].created
    \/ tickets[a].created = tickets[b].created /\ a < b

\* get_ticket raises instead of answering
GetError(u, id) ==
    IF LookupCode(u, id) = "NOT_FOUND" THEN "TicketNotFound"
    ELSE IF LookupCode(u, id) = "ACCESS_DENIED" THEN "TicketAccessDenied"
    ELSE "none"

-----------------------------------------------------------------------------
(* Writes *)

Refuse(code) == reply' = code /\ UNCHANGED <<tickets, events, clock>>

\* The statement block "with self.conn": row and event together, then the
\* read-back of the row.  A failure inside rolls both back and surfaces as
\* code; a failure of the read-back surfaces although the write is durable.
Transaction(id, row, event, code) ==
    \/ /\ tickets' = [i \in DOMAIN tickets \cup {id} |->
                         IF i = id THEN row ELSE tickets[i]]
       /\ events' = Append(events, event)
       /\ reply' \in {"ok"} \cup (IF ReadFaults THEN {"DatabaseError"} ELSE {})
       /\ UNCHANGED clock
    \/ WriteFaults /\ Refuse(code)

\* trusted_user_id is a member of Users, never empty
CreateTicket(u, id, hasComplaint) ==
    IF ~hasComplaint \/ Exists(id)
    THEN Refuse("TicketError")
    ELSE Transaction(id,
             [owner |-> u, status |-> "OPEN", version |-> 1, created |-> clock],
             [ticket |-> id, user |-> u, type |-> "CREATE",
              from |-> NoStatus, to |-> "OPEN"],
             "TicketError")

SeedTicket(u, id, status, version, created) ==
    IF Exists(id)
    THEN Refuse("DatabaseError")
    ELSE Transaction(id,
             [owner |-> u, status |-> status, version |-> version, created |-> created],
             [ticket |-> id, user |-> u, type |-> "SEED",
              from |-> NoStatus, to |-> status],
             "DatabaseError")

\* Mutant: version not incremented
BumpedStatusOnly(id, status) == [tickets[id] EXCEPT !.status = status]

\* The row changes that update_ticket and transition_ticket make
Bumped(id, status) ==
    [owner |-> tickets[id].owner, status |-> status,
     version |-> tickets[id].version + 1, created |-> tickets[id].created]

\* Mutant: no CLOSED check
UpdateClosedToo(u, id, staleVersion) ==
    IF GetError(u, id) # "none" THEN Refuse(GetError(u, id))
    ELSE IF staleVersion THEN Refuse("TicketError")
    ELSE Transaction(id, Bumped(id, tickets[id].status),
             [ticket |-> id, user |-> u, type |-> "UPDATE",
              from |-> tickets[id].status, to |-> tickets[id].status],
             "DatabaseError")

\* staleVersion: an expected_version was given and is not the stored one
UpdateTicket(u, id, staleVersion) ==
    IF GetError(u, id) # "none" THEN Refuse(GetError(u, id))
    ELSE IF tickets[id].status = "CLOSED" THEN Refuse("ClosedTicketImmutable")
    ELSE IF staleVersion THEN Refuse("TicketError")
    ELSE Transaction(id, Bumped(id, tickets[id].status),
             [ticket |-> id, user |-> u, type |-> "UPDATE",
              from |-> tickets[id].status, to |-> tickets[id].status],
             "DatabaseError")

\* Mutant: the event is written from the updated row
TransitionLoggedLate(u, id, to) ==
    IF GetError(u, id) # "none" THEN Refuse(GetError(u, id))
    ELSE IF tickets[id].status = "CLOSED" THEN Refuse("ClosedTicketImmutable")
    ELSE IF ~CanTransition(tickets[id].status, to) THEN Refuse("InvalidTicketTransition")
    ELSE Transaction(id, Bumped(id, to),
             [ticket |-> id, user |-> u, type |-> "TRANSITION", from |-> to, to |-> to],
             "TicketError")

TransitionTicket(u, id, to) ==
    IF GetError(u, id) # "none" THEN Refuse(GetError(u, id))
    ELSE IF tickets[id].status = "CLOSED" THEN Refuse("ClosedTicketImmutable")
    ELSE IF ~CanTransition(tickets[id].status, to) THEN Refuse("InvalidTicketTransition")
    ELSE Transaction(id, Bumped(id, to),
             [ticket |-> id, user |-> u, type |-> "TRANSITION",
              from |-> tickets[id].status, to |-> to],
             "TicketError")

CloseTicket(u, id) ==
    IF GetError(u, id) = "none" /\ tickets[id].status = "CLOSED"
    THEN Refuse("ok")
    ELSE TransitionTicket(u, id, "CLOSED")

GetTicket(u, id) ==
    Refuse(IF GetError(u, id) = "none" THEN "ok" ELSE GetError(u, id))

\* Any call that reads first may fail on that read
ReadFails == ReadFaults /\ Refuse("DatabaseError")

-----------------------------------------------------------------------------
(* The service on its own: any caller, with or without the policy before it *)

\* SystemClock advances between calls; a FixedClock never does
Tick ==
    /\ clock < MaxTime
    /\ clock' = clock + 1
    /\ UNCHANGED <<tickets, events, reply>>

ServiceInit ==
    /\ tickets = [i \in {} |-> i]
    /\ events = <<>>
    /\ clock = 0
    /\ reply = "none"

SeedCall(u, id) ==
    \E status \in Statuses, version \in SeedVersions, created \in 0 .. MaxTime :
        SeedTicket(u, id, status, version, created)

CreateCall(u, id) == \E c \in BOOLEAN : CreateTicket(u, id, c)
UpdateCall(u, id) == \E stale \in BOOLEAN : UpdateTicket(u, id, stale)
TransitionCall(u, id) == \E to \in Statuses : TransitionTicket(u, id, to)

ServiceNext ==
    \/ \E u \in Users, id \in TicketIds :
          \/ SeedCall(u, id)
          \/ CreateCall(u, id)
          \/ UpdateCall(u, id)
          \/ TransitionCall(u, id)
          \/ CloseTicket(u, id)
          \/ GetTicket(u, id)
    \/ ReadFails
    \/ Tick

ServiceSpec == ServiceInit /\ [][ServiceNext]_svcVars

-----------------------------------------------------------------------------
(* Properties *)

\* Types of the four variables.
ServiceTypeOK ==
    /\ DOMAIN tickets \subseteq TicketIds
    /\ tickets \in [DOMAIN tickets -> Row]
    /\ events \in Seq(Event)
    /\ clock \in 0 .. MaxTime
    /\ reply \in Replies

\* i is the first / the last event about its ticket; j follows i immediately
IsFirst(i) == \A k \in 1 .. i - 1 : events[k].ticket # events[i].ticket
IsLast(i)  == \A k \in i + 1 .. Len(events) : events[k].ticket # events[i].ticket
Follows(j, i) ==
    /\ i < j
    /\ events[i].ticket = events[j].ticket
    /\ \A k \in i + 1 .. j - 1 : events[k].ticket # events[i].ticket

\* A ticket's history starts with CREATE (in OPEN) or SEED and only there.
HistoryStarts ==
    \A i \in 1 .. Len(events) :
        /\ IsFirst(i) <=> events[i].type \in {"CREATE", "SEED"}
        /\ events[i].type = "CREATE" => events[i].to = "OPEN"

\* Each later event starts from the status the event before it ended in.
HistoryChains ==
    \A i, j \in 1 .. Len(events) :
        Follows(j, i) => events[j].from = events[i].to

\* The last event of a ticket ends in the status of its row.
HistoryEndsInTable ==
    /\ \A i \in 1 .. Len(events) :
          /\ Exists(events[i].ticket)
          /\ IsLast(i) => events[i].to = tickets[events[i].ticket].status
    /\ \A id \in DOMAIN tickets : \E i \in 1 .. Len(events) : events[i].ticket = id

\* Every TRANSITION is one config/policy.yaml allows, no event leaves CLOSED,
\* and only the owner of the row wrote about it.
HistoryIsLegal ==
    \A i \in 1 .. Len(events) :
        /\ events[i].type = "TRANSITION" => events[i].to \in AllowedTargets[events[i].from]
        /\ events[i].from # "CLOSED"
        /\ events[i].user = tickets[events[i].ticket].owner

\* The event table explains the ticket table: replaying a ticket's events,
\* whatever the order of calls, failures and roll-backs that produced them,
\* gives the status of its row by legal transitions only.
LogExplainsTable ==
    /\ HistoryStarts
    /\ HistoryChains
    /\ HistoryEndsInTable
    /\ HistoryIsLegal

EventsOf(id) == {i \in 1 .. Len(events) : events[i].ticket = id}

\* The version of a ticket made by create_ticket counts its events: no write
\* is applied twice, none is lost and none escapes the event table.
VersionCountsEvents ==
    \A i \in 1 .. Len(events) :
        events[i].type = "CREATE" =>
            tickets[events[i].ticket].version = Cardinality(EventsOf(events[i].ticket))

\* errors.py: "Closed tickets cannot be mutated."  No call, made with or
\* without the policy before it, changes or removes a CLOSED row.
ClosedIsFinal ==
    [][\A id \in DOMAIN tickets :
          tickets[id].status = "CLOSED" =>
              id \in DOMAIN tickets' /\ tickets'[id] = tickets[id]]_svcVars

\* Ownership and creation time never change, no row disappears, and a status
\* only moves along allowed_transitions, from CLOSED nowhere.
RowsEvolveLegally ==
    [][\A id \in DOMAIN tickets :
          /\ id \in DOMAIN tickets'
          /\ tickets'[id].owner = tickets[id].owner
          /\ tickets'[id].created = tickets[id].created
          /\ \/ tickets'[id].status = tickets[id].status
             \/ tickets'[id].status \in AllowedTargets[tickets[id].status]]_svcVars
==============================================================================
