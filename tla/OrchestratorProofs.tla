-------------------------- MODULE OrchestratorProofs --------------------------
(***************************************************************************)
(* What handle_query keeps to for any users, fixtures, proposals, clock    *)
(* and faults: what the traces tell of the store, that what the policy     *)
(* allows can be executed, and that a scenario implements SupportDesk.     *)
(***************************************************************************)
EXTENDS Orchestrator, TicketServiceProofs, SequenceTheorems, WellFoundedInduction

Reasons == {"NO_DECISION", "MISSING_TICKET_ID", "TICKET_NOT_ACCESSIBLE",
            "TICKET_NOT_FOUND_OR_UNAVAILABLE", "TICKET_LOOKUP_UNAVAILABLE",
            "CLOSED_IMMUTABLE", "INVALID_TRANSITION", "ALLOW", "TRUSTED_IDENTITY_MISMATCH",
            "REFUND_OR_COMPENSATION_COMMITMENT", "INVENTED_SLA", "NO_ACTION",
            "CLARIFY_REQUIRED", "MISSING_COMPLAINT_TYPE", "CREATE_OK"}
Decisions == [code : DecisionCodes, reason : Reasons]

Tables == UNION {[S -> Row] : S \in SUBSET TicketIds}
TraceSpace == [query : Nat, proposed : ActionTypes, decision : Decisions,
               executed : ActionTypes, ticket : TicketIds \cup {NoTicket},
               error : {"none", "provider", "runtime"}, final : Tables]

\* A ticket table is a function from some ids to rows
LEMMA TableIs ==
    ASSUME NEW t
    PROVE  t \in Tables <=> DOMAIN t \subseteq TicketIds /\ t \in [DOMAIN t -> Row]
BY DEF Tables

LEMMA TicketsAreTable == ServiceTypeOK => tickets \in Tables
BY TableIs DEF ServiceTypeOK

-----------------------------------------------------------------------------
(* $LATEST_OWNED_TICKET names a ticket *)

\* A finite set of tickets that is not empty has one listed last
LEMMA SomeLast ==
    ASSUME ServiceTypeOK, NEW S \in SUBSET DOMAIN tickets, IsFiniteSet(S), S # {}
    PROVE  \E id \in S : \A o \in S \ {id} : ListedBefore(o, id)
<1> DEFINE Last(T, id) == id \in T /\ \A o \in T \ {id} : ListedBefore(o, id)
           Bad == {T \in FiniteSubsetsOf(S) : T # {} /\ ~ \E id \in T : Last(T, id)}
<1>1. FiniteSubsetsOf(S) = SUBSET S
  BY FS_FiniteSubsetsOfFinite
<1>2. SUFFICES ASSUME Bad # {} PROVE FALSE
  BY <1>1
<1>3. PICK T \in Bad : \A U \in Bad : <<U, T>> \notin StrictSubsetOrdering(S)
  <2>1. IsWellFoundedOn(StrictSubsetOrdering(S), FiniteSubsetsOf(S))
    BY FS_StrictSubsetOrderingWellFounded
  <2> HIDE DEF Last
  <2>2. Bad \subseteq FiniteSubsetsOf(S)
    OBVIOUS
  <2> HIDE DEF Bad
  <2> QED
    BY <1>2, <2>1, <2>2, WFMin
<1>4. PICK x \in T : TRUE
  OBVIOUS
<1>5. CASE T = {x}
  BY <1>5
<1>6. CASE T # {x}
  <2>1. T \ {x} \in SUBSET S /\ T \ {x} # {} /\ T \in SUBSET S
    BY <1>1, <1>6
  <2>2. <<T \ {x}, T>> \in StrictSubsetOrdering(S)
    BY <2>1 DEF StrictSubsetOrdering
  <2>3. T \ {x} \notin Bad
    BY <1>3, <2>2
  <2>4. PICK y \in T \ {x} : \A o \in (T \ {x}) \ {y} : ListedBefore(o, y)
    BY <1>1, <2>1, <2>3
  <2>5. \A id \in T : id \in Nat /\ tickets[id].created \in Nat
    BY <2>1, ServiceConstants DEF ServiceTypeOK, Row
  <2>6. ListedBefore(x, y) \/ ListedBefore(y, x)
    BY <2>5 DEF ListedBefore
  <2>7. \A o \in T : ListedBefore(o, y) /\ ListedBefore(y, x) => ListedBefore(o, x)
    BY <2>5 DEF ListedBefore
  <2>8. Last(T, y) \/ Last(T, x)
    BY <2>4, <2>6, <2>7
  <2> QED
    BY <2>8
<1> QED
  BY <1>5, <1>6

LEMMA LastListedIsOwned ==
    ASSUME ServiceTypeOK, IsFiniteSet(DOMAIN tickets), NEW u, Owned(u) # {}
    PROVE  LastListed(u) \in Owned(u)
<1>1. Owned(u) \in SUBSET DOMAIN tickets
  BY DEF Owned
<1>2. IsFiniteSet(Owned(u))
  BY <1>1, FS_Subset
<1>3. \E id \in Owned(u) : \A o \in Owned(u) \ {id} : ListedBefore(o, id)
  BY <1>1, <1>2, SomeLast
<1> QED
  BY <1>3 DEF LastListed

-----------------------------------------------------------------------------
(* References, lookup and policy *)

LEMMA ResolvedType ==
    ASSUME ServiceTypeOK, IsFiniteSet(DOMAIN tickets), NEW a \in ProposalSpace
    PROVE  /\ ResolveRef(Persona, a) \in ProposalSpace
           /\ ResolveRef(Persona, a).ticket \in TicketIds \cup {NoTicket}
<1>1. Clarified(a) \in ProposalSpace /\ Clarified(a).ticket = NoTicket
  BY DEF Clarified, ProposalSpace, ActionTypes
<1>2. \A id \in TicketIds : /\ [a EXCEPT !.ticket = id] \in ProposalSpace
                            /\ [a EXCEPT !.ticket = id].ticket = id
  BY DEF ProposalSpace
<1>3. \A id \in Owned(Persona) : id \in TicketIds
  BY DEF Owned, ServiceTypeOK
<1>4. CASE a.ticket = InitialTicket
  BY <1>1, <1>2, <1>4 DEF ResolveRef
<1>5. CASE a.ticket = LatestTicket /\ a.ticket # InitialTicket
  BY <1>1, <1>2, <1>3, <1>5, LastListedIsOwned DEF ResolveRef
<1>6. CASE a.ticket \notin {InitialTicket, LatestTicket}
  <2>1. a.ticket \in TicketIds \cup Refs \cup {NoTicket}
    BY DEF ProposalSpace
  <2> QED
    BY <1>1, <1>6, <2>1 DEF ResolveRef, Refs
<1> QED
  BY <1>4, <1>5, <1>6

\* What an allowed action is, and what was found of the ticket it names
Permitted(a) ==
    /\ a \in ProposalSpace
    /\ a.type \in TicketActions \cup {"CREATE_TICKET"}
    /\ a.type \in TicketActions =>
         /\ Exists(a.ticket)
         /\ tickets[a.ticket].owner = Persona
    /\ a.type \in WritingActions \cap TicketActions => tickets[a.ticket].status # "CLOSED"
    /\ a.type = "CLOSE_TICKET" => CanTransition(tickets[a.ticket].status, "CLOSED")
    /\ a.type = "UPDATE_TICKET" /\ a.to # NoStatus =>
         CanTransition(tickets[a.ticket].status, a.to)

LEMMA DecisionType ==
    ASSUME NEW u, NEW a
    PROVE  Decide(u, a) \in Decisions
<1>1. \A lookup, status : ValidateTicketAction(a, lookup, status) \in Decisions
  BY DEF ValidateTicketAction, Decision, Decisions, DecisionCodes, Reasons
<1>2. \A lookup, status : Validate(u, a, lookup, status) \in Decisions
  BY <1>1 DEF Validate, Decision, Decisions, DecisionCodes, Reasons
<1> QED
  BY <1>2 DEF Decide

\* A decision ALLOW rests on everything the service will check.
LEMMA AllowMeansPermitted ==
    ASSUME NEW a \in ProposalSpace, Decide(Persona, a).code = "ALLOW"
    PROVE  Permitted(a)
<1> DEFINE lookup == Lookup(Persona, a)
           status == IF lookup = "FOUND" THEN tickets[a.ticket].status ELSE NoStatus
<1>1. Validate(Persona, a, lookup, status).code = "ALLOW"
  BY DEF Decide
<1>2. a.type \in ActionTypes
  BY DEF ProposalSpace
<1>3. CASE a.type \notin TicketActions
  BY <1>1, <1>2, <1>3
     DEF Validate, Decision, ActionTypes, TicketActions, Permitted, WritingActions
<1>4. CASE a.type \in TicketActions
  <2>1. ValidateTicketAction(a, lookup, status).code = "ALLOW"
    <3> HIDE DEF lookup, status
    <3> QED
      BY <1>1, <1>4 DEF Validate, Decision, TicketActions
  <2>2. /\ a.ticket # NoTicket
        /\ lookup = "FOUND"
        /\ ~Immutable(a.type, status)
        /\ ~Unreachable(a, status)
    <3> HIDE DEF lookup, status
    <3> QED
      BY <2>1 DEF ValidateTicketAction, Decision
  <2>3. Exists(a.ticket) /\ tickets[a.ticket].owner = Persona
    BY <1>4, <2>2 DEF Lookup, LookupCode
  <2>4. status = tickets[a.ticket].status
    BY <2>2
  <2>5. a.type \in WritingActions => status # "CLOSED"
    BY <2>2 DEF Immutable, WritingActions
  <2>6. a.type = "CLOSE_TICKET" => CanTransition(status, "CLOSED")
    BY <2>2 DEF Unreachable, RequestedTarget, NoStatus
  <2>7. a.type = "UPDATE_TICKET" /\ a.to # NoStatus => CanTransition(status, a.to)
    BY <2>2 DEF Unreachable, RequestedTarget
  <2> HIDE DEF status
  <2> QED
    BY <1>4, <2>3, <2>4, <2>5, <2>6, <2>7 DEF Permitted, TicketActions
<1> QED
  BY <1>3, <1>4

-----------------------------------------------------------------------------
(* Execution *)

\* new differs from old by the one write that an action of this type makes
WriteOf(old, new, type, id) ==
    /\ type \in WritingActions
    /\ id \in TicketIds
    /\ id \in DOMAIN new
    /\ new = [i \in DOMAIN old \cup {id} |-> IF i = id THEN new[id] ELSE old[i]]
    /\ IF id \in DOMAIN old
       THEN type # "CREATE_TICKET" /\ Desk!NextRow(old[id], new[id])
       ELSE type = "CREATE_TICKET" /\ Desk!NewRow(new[id])

\* What the one call left behind when it returned or raised
Outcome(old, new, result, type, id) ==
    \/ new = old /\ (result = "ok" => type = "GET_TICKET_STATUS")
    \/ WriteOf(old, new, type, id)

Expected(result, type) ==
    \/ result \in {"ok", "DatabaseError"}
    \/ result = "TicketError" /\ (WriteFaults \/ type = "CREATE_TICKET")

\* A transaction reports success only if it committed.
LEMMA TransactionReply ==
    ASSUME NEW id, NEW row, NEW event, NEW code, code # "ok", Transaction(id, row, event, code)
    PROVE  \/ Wrote(id, row, event) /\ reply' \in {"ok", "DatabaseError"}
           \/ WriteFaults /\ tickets' = tickets /\ reply' = code
BY DEF Transaction, Refuse, Wrote

LEMMA WroteIsWrite ==
    ASSUME NEW id \in TicketIds, NEW row, NEW event, NEW type \in WritingActions,
           Wrote(id, row, event),
           Exists(id) => type # "CREATE_TICKET" /\ Desk!NextRow(tickets[id], row),
           ~Exists(id) => type = "CREATE_TICKET" /\ Desk!NewRow(row)
    PROVE  WriteOf(tickets, tickets', type, id)
<1>1. tickets'[id] = row /\ id \in DOMAIN tickets'
  BY DEF Wrote
<1>2. tickets' = [i \in DOMAIN tickets \cup {id} |->
                     IF i = id THEN tickets'[id] ELSE tickets[i]]
  BY <1>1 DEF Wrote
<1> QED
  BY <1>1, <1>2 DEF WriteOf, Exists

LEMMA CreateOutcome ==
    ASSUME ServiceTypeOK, NEW id \in TicketIds, CreateTicket(Persona, id, TRUE)
    PROVE  /\ Outcome(tickets, tickets', reply', "CREATE_TICKET", id)
           /\ Expected(reply', "CREATE_TICKET")
<1>1. CASE Exists(id)
  BY <1>1 DEF CreateTicket, Refuse, Outcome, Expected
<1>2. CASE ~Exists(id)
  <2> DEFINE row == [owner |-> Persona, status |-> "OPEN", version |-> 1, created |-> clock]
             event == [ticket |-> id, user |-> Persona, type |-> "CREATE",
                       from |-> NoStatus, to |-> "OPEN"]
  <2>1. Transaction(id, row, event, "TicketError")
    BY <1>2 DEF CreateTicket
  <2>2. Desk!NewRow(row)
    BY DEF Desk!NewRow
  <2>3. Wrote(id, row, event) => WriteOf(tickets, tickets', "CREATE_TICKET", id)
    <3> HIDE DEF row, event
    <3> QED
      BY <1>2, <2>2, WroteIsWrite DEF WritingActions
  <2> HIDE DEF row, event
  <2> QED
    BY <2>1, <2>3, TransactionReply DEF Outcome, Expected
<1> QED
  BY <1>1, <1>2

\* A change of the user's own open ticket to a status it may take
LEMMA ChangeOutcome ==
    ASSUME ServiceTypeOK, NEW id \in TicketIds, Exists(id),
           tickets[id].owner = Persona, tickets[id].status # "CLOSED",
           NEW to \in Statuses,
           to = tickets[id].status \/ to \in AllowedTargets[tickets[id].status],
           NEW type \in WritingActions \ {"CREATE_TICKET"}, NEW event,
           NEW code \in {"DatabaseError", "TicketError"},
           Transaction(id, Bumped(id, to), event, code)
    PROVE  /\ Outcome(tickets, tickets', reply', type, id)
           /\ Expected(reply', type)
<1>0. Desk!AllowedTargets = AllowedTargets
  BY DEF AllowedTargets, Desk!AllowedTargets
<1>1. Desk!NextRow(tickets[id], Bumped(id, to))
  BY <1>0 DEF Desk!NextRow, Bumped
<1>2. Wrote(id, Bumped(id, to), event) => WriteOf(tickets, tickets', type, id)
  BY <1>1, WroteIsWrite
<1> QED
  BY <1>2, TransactionReply DEF Outcome, Expected

LEMMA TransitionOutcome ==
    ASSUME ServiceTypeOK, NEW id \in TicketIds, Exists(id),
           tickets[id].owner = Persona, tickets[id].status # "CLOSED",
           NEW to \in Statuses, CanTransition(tickets[id].status, to),
           NEW type \in WritingActions \ {"CREATE_TICKET"},
           TransitionTicket(Persona, id, to)
    PROVE  /\ Outcome(tickets, tickets', reply', type, id)
           /\ Expected(reply', type)
<1>1. GetError(Persona, id) = "none"
  BY DEF GetError, LookupCode
<1>2. Transaction(id, Bumped(id, to),
             [ticket |-> id, user |-> Persona, type |-> "TRANSITION",
              from |-> tickets[id].status, to |-> to],
             "TicketError")
  BY <1>1 DEF TransitionTicket
<1> QED
  BY <1>2, ChangeOutcome DEF CanTransition

LEMMA UpdateOutcome ==
    ASSUME ServiceTypeOK, NEW id \in TicketIds, Exists(id),
           tickets[id].owner = Persona, tickets[id].status # "CLOSED",
           UpdateTicket(Persona, id, FALSE)
    PROVE  /\ Outcome(tickets, tickets', reply', "UPDATE_TICKET", id)
           /\ Expected(reply', "UPDATE_TICKET")
<1>1. GetError(Persona, id) = "none"
  BY DEF GetError, LookupCode
<1>2. Transaction(id, Bumped(id, tickets[id].status),
             [ticket |-> id, user |-> Persona, type |-> "UPDATE",
              from |-> tickets[id].status, to |-> tickets[id].status],
             "DatabaseError")
  BY <1>1 DEF UpdateTicket
<1>3. tickets[id].status \in Statuses
  BY DEF ServiceTypeOK, Exists, Row
<1> QED
  BY <1>2, <1>3, ChangeOutcome DEF WritingActions

\* What the one call of an allowed action does to the store, and answers.
LEMMA ExecuteOutcome ==
    ASSUME ServiceTypeOK, Permitted(action), Execute
    PROVE  /\ Shape /\ reply' \in Replies /\ UNCHANGED clock
           /\ Target \in TicketIds
           /\ Outcome(tickets, tickets', reply', action.type, Target)
           /\ Expected(reply', action.type)
<1> USE DEF TicketActions, WritingActions
<1>0. Persona \in Users
  BY OrchestratorConstants
<1>1. CASE action.type = "CREATE_TICKET" /\ CreateTicket(Persona, action.newId, TRUE)
  <2>1. Target = action.newId /\ action.newId \in TicketIds
    BY <1>1 DEF Target, Permitted, ProposalSpace
  <2>2. CreateCall(Persona, action.newId)
    BY <1>1 DEF CreateCall
  <2> QED
    BY <1>0, <1>1, <2>1, <2>2, CreateShape, CreateOutcome
<1>2. CASE action.type \in TicketActions
  <2> DEFINE id == action.ticket
  <2>1. Target = id /\ id \in TicketIds /\ Exists(id) /\ tickets[id].owner = Persona
    BY <1>2 DEF Target, Permitted, ServiceTypeOK, Exists
  <2>2. CASE action.type = "UPDATE_TICKET" /\ action.to # NoStatus
             /\ TransitionTicket(Persona, id, action.to)
    <3>1. action.to \in Statuses
      BY <2>2 DEF Permitted, ProposalSpace
    <3>2. tickets[id].status # "CLOSED" /\ CanTransition(tickets[id].status, action.to)
      BY <2>2 DEF Permitted
    <3> QED
      BY <1>0, <2>1, <2>2, <3>1, <3>2, TransitionShape, TransitionOutcome
  <2>3. CASE action.type = "UPDATE_TICKET" /\ UpdateTicket(Persona, id, FALSE)
    <3>1. UpdateCall(Persona, id)
      BY <2>3 DEF UpdateCall
    <3>2. tickets[id].status # "CLOSED"
      BY <2>3 DEF Permitted
    <3> QED
      BY <1>0, <2>1, <2>3, <3>1, <3>2, UpdateShape, UpdateOutcome
  <2>4. CASE action.type = "CLOSE_TICKET" /\ CloseTicket(Persona, id)
    <3>1. tickets[id].status # "CLOSED" /\ CanTransition(tickets[id].status, "CLOSED")
      BY <2>4 DEF Permitted
    <3>2. TransitionTicket(Persona, id, "CLOSED") /\ "CLOSED" \in Statuses
      BY <2>4, <3>1 DEF CloseTicket, Statuses
    <3> QED
      BY <1>0, <2>1, <2>4, <3>1, <3>2, TransitionShape, TransitionOutcome
  <2>5. CASE action.type = "GET_TICKET_STATUS" /\ GetTicket(Persona, id)
    <3>1. GetError(Persona, id) = "none"
      BY <2>1 DEF GetError, LookupCode
    <3> QED
      BY <2>1, <2>5, <3>1 DEF GetTicket, Refuse, Shape, Quiet, Replies, Outcome, Expected
  <2>6. CASE ReadFails
    BY <2>1, <2>6 DEF ReadFails, Refuse, Shape, Quiet, Replies, Outcome, Expected
  <2> QED
    BY <1>2, <2>2, <2>3, <2>4, <2>5, <2>6 DEF Execute
<1> QED
  BY <1>1, <1>2 DEF Execute, Permitted

-----------------------------------------------------------------------------
(* What one trace says of the store before it and after it *)

Diff(old, new) == {id \in DOMAIN new : id \notin DOMAIN old \/ old[id] # new[id]}

Accounts(old, tr) ==
    IF tr.executed \in WritingActions
    THEN /\ Diff(old, tr.final) = {tr.ticket}
         /\ tr.final[tr.ticket].owner = Persona
         /\ IF tr.ticket \in DOMAIN old
            THEN /\ tr.executed # "CREATE_TICKET"
                 /\ old[tr.ticket].owner = Persona
                 /\ tr.final[tr.ticket].version = old[tr.ticket].version + 1
            ELSE tr.executed = "CREATE_TICKET" /\ tr.final[tr.ticket].version = 1
    ELSE \/ Diff(old, tr.final) = {}
         \/ /\ tr.decision.code = "ALLOW" /\ tr.error = "runtime"
            /\ \E id \in TicketIds : Diff(old, tr.final) = {id} /\ tr.final[id].owner = Persona

LEMMA AccountingPerTrace ==
    TracesAccountUpToReadBack <=> \A i \in 1 .. Len(traces) : Accounts(Before(i), traces[i])
BY DEF TracesAccountUpToReadBack, WroteOnce, Changed, FailedReadBack, Accounts, Diff

LEMMA WriteDiff ==
    ASSUME NEW old \in Tables, NEW new, NEW type, NEW id, WriteOf(old, new, type, id)
    PROVE  /\ Diff(old, new) = {id}
           /\ new[id].owner = Persona
           /\ IF id \in DOMAIN old
              THEN /\ type # "CREATE_TICKET"
                   /\ old[id].owner = Persona
                   /\ new[id].version = old[id].version + 1
              ELSE type = "CREATE_TICKET" /\ new[id].version = 1
<1>1. /\ DOMAIN new = DOMAIN old \cup {id}
      /\ \A o \in DOMAIN old : o # id => new[o] = old[o]
  BY DEF WriteOf
<1>2. CASE id \in DOMAIN old
  <2>1. Desk!NextRow(old[id], new[id]) /\ type # "CREATE_TICKET"
    BY <1>2 DEF WriteOf
  <2>2. old[id].version \in Int
    BY <1>2, TableIs DEF Row
  <2>3. old[id] # new[id]
    BY <2>1, <2>2 DEF Desk!NextRow
  <2> QED
    BY <1>1, <1>2, <2>1, <2>3 DEF Desk!NextRow, Diff
<1>3. CASE id \notin DOMAIN old
  BY <1>1, <1>3 DEF WriteOf, Desk!NewRow, Diff
<1> QED
  BY <1>2, <1>3

-----------------------------------------------------------------------------
(* The inductive invariant *)

\* The store the query in progress found
Base == Before(Len(traces) + 1)

TypeInv ==
    /\ ServiceTypeOK
    /\ IsFiniteSet(DOMAIN tickets)
    /\ phase \in Phases
    /\ toSeed \in Seq(Fixture)
    /\ asked \in 0 .. MaxQueries
    /\ proposal \in ActionSpace
    /\ phase = "proposed" => proposal \in ProposalSpace
    /\ action \in ActionSpace
    /\ decision \in Decisions
    /\ traces \in Seq(TraceSpace)
    /\ window \in Seq(Turns) /\ Len(window) <= MaxTurns
    /\ seeded \in Tables

Bookkeeping ==
    /\ OneTracePerQuery
    /\ phase = "seeding" => asked = 0 /\ seeded = tickets
    /\ asked = 0 => traces = <<>>

ExecutedAsAllowed ==
    /\ action \in ProposalSpace
    /\ action.type \in TicketActions \cup {"CREATE_TICKET"}
    /\ decision.code = "ALLOW"
    /\ Target \in TicketIds
    /\ Outcome(Base, tickets, reply, action.type, Target)
    /\ Expected(reply, action.type)

StoreInv ==
    /\ phase \in {"ready", "asking", "proposed", "allowed"} => tickets = Base
    /\ phase = "allowed" => Permitted(action) /\ decision.code = "ALLOW"
    /\ phase = "executed" => ExecutedAsAllowed
    /\ TracesAccountUpToReadBack

IInv == TypeInv /\ Bookkeeping /\ StoreInv

\* A query returns its trace, or the process ends
Answers(tr) ==
    \/ traces' = Append(traces, tr) /\ phase' = "ready"
    \/ UNCHANGED traces /\ phase' = "dead"

LEMMA TraceType ==
    ASSUME TypeInv, NEW kind \in ActionTypes, NEW d \in Decisions, NEW executed \in ActionTypes,
           NEW ticket \in TicketIds \cup {NoTicket}, NEW error \in {"none", "provider", "runtime"}
    PROVE  Trace(kind, d, executed, ticket, error) \in TraceSpace
<1>1. asked \in Nat /\ tickets \in Tables
  BY TicketsAreTable, OrchestratorConstants DEF TypeInv
<1> QED
  BY <1>1 DEF Trace, TraceSpace

LEMMA RetriedAnswers ==
    ASSUME NEW kind, NEW d, NEW executed, NEW ticket,
           ReturnOrRetry(Trace(kind, d, executed, ticket, "none"))
    PROVE  \E error \in {"none", "runtime"} : Answers(Trace(kind, d, executed, ticket, error))
<1>1. [Trace(kind, d, executed, ticket, "none") EXCEPT !.error = "runtime"]
        = Trace(kind, d, executed, ticket, "runtime")
  BY DEF Trace
<1> QED
  BY <1>1 DEF ReturnOrRetry, Return, Answers

LEMMA RuntimeErrorAnswers ==
    ASSUME NEW kind, NEW d, RuntimeError(kind, d)
    PROVE  /\ Answers(Trace(kind, d, "NONE", NoTicket, "runtime"))
           /\ UNCHANGED window
BY DEF RuntimeError, Return, Answers

LEMMA WindowStaysShort ==
    ASSUME TypeInv, NEW turn \in Turns, Remember(turn)
    PROVE  window' \in Seq(Turns) /\ Len(window') <= MaxTurns
<1> DEFINE all == Append(window, turn)
           first == IF Len(all) > MaxTurns THEN Len(all) - MaxTurns + 1 ELSE 1
<1>1. PICK n \in Nat : n = Len(window)
  BY DEF TypeInv
<1>2. /\ all \in Seq(Turns) /\ Len(all) = n + 1
      /\ n <= MaxTurns /\ MaxTurns \in Nat \ {0}
  BY <1>1, OrchestratorConstants DEF TypeInv
<1>3. window' = SubSeq(all, first, Len(all))
  BY DEF Remember
<1> HIDE DEF all
<1>4. first \in 1 .. n + 1 /\ n + 1 - first + 1 <= MaxTurns
  BY <1>2
<1> HIDE DEF first
<1>5. \A i \in first .. n + 1 : all[i] \in Turns
  BY <1>2, <1>4
<1>6. /\ SubSeq(all, first, n + 1) \in Seq(Turns)
      /\ Len(SubSeq(all, first, n + 1)) = n + 1 - first + 1
  BY <1>4, <1>5, SubSeqProperties
<1> QED
  BY <1>2, <1>3, <1>4, <1>6

-----------------------------------------------------------------------------
(* Every step keeps it *)

LEMMA Initially == Init => IInv
<1> SUFFICES ASSUME Init PROVE IInv
  OBVIOUS
<1>1. ServiceTypeOK /\ tickets \in Tables /\ DOMAIN tickets = {}
  <2>1. ServiceTypeOK
    BY ServiceConstants DEF Init, ServiceInit, ServiceTypeOK, Replies
  <2>2. DOMAIN tickets = {}
    BY DEF Init, ServiceInit
  <2> QED
    BY <2>1, <2>2, TicketsAreTable
<1>2. NoDecision \in Decisions /\ NoAction \in ActionSpace
  BY DEF NoDecision, Decision, Decisions, DecisionCodes, Reasons, ActionSpace
<1>3. traces \in Seq(TraceSpace) /\ window \in Seq(Turns) /\ Len(window) <= MaxTurns
  BY OrchestratorConstants DEF Init
<1>4. TypeInv
  <2>1. toSeed \in Seq(Fixture)
    BY OrchestratorConstants DEF Init
  <2>2. asked \in 0 .. MaxQueries /\ phase = "seeding"
    BY OrchestratorConstants DEF Init
  <2> QED
    BY <1>1, <1>2, <1>3, <2>1, <2>2, FS_EmptySet DEF Init, TypeInv, Phases
<1>5. traces = <<>> /\ Len(traces) = 0 /\ asked = 0 /\ phase = "seeding" /\ seeded = tickets
  BY DEF Init
<1>6. Bookkeeping
  BY <1>5 DEF Bookkeeping, OneTracePerQuery
<1>7. StoreInv
  BY <1>5 DEF StoreInv, TracesAccountUpToReadBack
<1> QED
  BY <1>4, <1>6, <1>7 DEF IInv

\* A step that leaves the traces and the stores alone keeps the accounting.
LEMMA SameAccounts ==
    ASSUME UNCHANGED <<traces, seeded>>
    PROVE  /\ Base' = Base
           /\ TracesAccountUpToReadBack' <=> TracesAccountUpToReadBack
BY DEF Base, Before, TracesAccountUpToReadBack, WroteOnce, Changed, FailedReadBack

\* One more trace that accounts for what changed since the trace before it
LEMMA OneMoreAccount ==
    ASSUME traces \in Seq(TraceSpace), NEW tr \in TraceSpace, traces' = Append(traces, tr),
           UNCHANGED seeded, TracesAccountUpToReadBack, Accounts(Base, tr)
    PROVE  TracesAccountUpToReadBack' /\ Base' = tr.final
<1>1. PICK n \in Nat : n = Len(traces)
  OBVIOUS
<1>2. /\ Len(traces') = n + 1
      /\ traces'[n + 1] = tr
      /\ \A i \in 1 .. n : traces'[i] = traces[i]
  BY <1>1
<1>3. \A i \in 1 .. n + 1 : Before(i)' = Before(i)
  BY <1>2 DEF Before
<1>4. Before(n + 1) = Base /\ Base' = tr.final
  BY <1>1, <1>2 DEF Base, Before
<1>5. \A i \in 1 .. n : Accounts(Before(i), traces[i])
  BY <1>1, AccountingPerTrace
<1>6. \A i \in 1 .. n + 1 : Accounts(Before(i)', traces'[i])
  <2> SUFFICES ASSUME NEW i \in 1 .. n + 1 PROVE Accounts(Before(i)', traces'[i])
    OBVIOUS
  <2>1. CASE i = n + 1
    BY <1>2, <1>3, <1>4, <2>1
  <2>2. CASE i \in 1 .. n
    BY <1>2, <1>3, <1>5, <2>2
  <2> QED
    BY <1>1, <2>1, <2>2
<1>7. TracesAccountUpToReadBack'
  BY <1>2, <1>6 DEF TracesAccountUpToReadBack, WroteOnce, Changed, FailedReadBack, Accounts, Diff
<1> QED
  BY <1>4, <1>7

LEMMA TypesStay ==
    ASSUME TypeInv, UNCHANGED <<svcVars, asked, toSeed, seeded>>
    PROVE  /\ ServiceTypeOK'
           /\ IsFiniteSet(DOMAIN tickets')
           /\ toSeed' \in Seq(Fixture)
           /\ asked' \in 0 .. MaxQueries
           /\ seeded' \in Tables
BY DEF TypeInv, ServiceTypeOK, svcVars

\* Returning a trace that accounts for the store keeps the invariant.
LEMMA Returned ==
    ASSUME IInv, phase \in {"asking", "proposed", "executed"},
           UNCHANGED <<svcVars, asked, toSeed, seeded>>,
           window' \in Seq(Turns), Len(window') <= MaxTurns,
           proposal' \in ActionSpace, action' \in ActionSpace, decision' \in Decisions,
           NEW tr \in TraceSpace, tr.query = asked, tr.final = tickets, Accounts(Base, tr),
           Answers(tr)
    PROVE  IInv'
<1>1. TypeInv /\ Bookkeeping /\ StoreInv
  BY DEF IInv
<1>2. Len(traces) = asked - 1 /\ asked \in Nat /\ Len(traces) \in Nat /\ asked # 0
  BY <1>1, OrchestratorConstants DEF Bookkeeping, OneTracePerQuery, TypeInv
<1>3. CASE traces' = Append(traces, tr) /\ phase' = "ready"
  <2>1. /\ Len(traces') = asked
        /\ traces'[asked] = tr
        /\ \A i \in 1 .. asked - 1 : traces'[i] = traces[i]
        /\ traces' \in Seq(TraceSpace)
    BY <1>1, <1>2, <1>3 DEF TypeInv
  <2>2. TypeInv'
    BY <1>1, <1>3, <2>1, TypesStay DEF TypeInv, Phases
  <2>3. Bookkeeping'
    <3>1. \A i \in 1 .. asked : traces'[i].query = i
      <4>1. \A i \in 1 .. asked - 1 : traces[i].query = i
        BY <1>1, <1>2 DEF Bookkeeping, OneTracePerQuery
      <4> QED
        BY <1>2, <2>1, <4>1
    <3> QED
      BY <1>2, <1>3, <2>1, <3>1 DEF Bookkeeping, OneTracePerQuery
  <2>4. StoreInv'
    <3>1. TracesAccountUpToReadBack' /\ Base' = tr.final
      BY <1>1, <1>3, OneMoreAccount DEF TypeInv, StoreInv
    <3> QED
      BY <1>3, <3>1 DEF StoreInv, svcVars
  <2> QED
    BY <2>2, <2>3, <2>4 DEF IInv
<1>4. CASE UNCHANGED traces /\ phase' = "dead"
  <2>1. TypeInv'
    BY <1>1, <1>4, TypesStay DEF TypeInv, Phases
  <2>2. Bookkeeping'
    BY <1>1, <1>2, <1>4 DEF Bookkeeping, OneTracePerQuery
  <2>3. StoreInv'
    BY <1>1, <1>4, SameAccounts DEF StoreInv
  <2> QED
    BY <2>1, <2>2, <2>3 DEF IInv
<1> QED
  BY <1>3, <1>4 DEF Answers

\* A trace of a query that left the store alone accounts for it.
LEMMA NothingToAccount ==
    ASSUME tickets = Base, NEW kind, NEW d, NEW executed, NEW ticket, NEW error,
           executed \notin WritingActions
    PROVE  Accounts(Base, Trace(kind, d, executed, ticket, error))
BY DEF Accounts, Diff, Trace

\* Neither a row nor an event more: the ids in the table stay finitely many.
LEMMA ShapeKeepsFinite ==
    ASSUME IsFiniteSet(DOMAIN tickets), Shape
    PROVE  IsFiniteSet(DOMAIN tickets')
<1>1. CASE Quiet
  BY <1>1 DEF Quiet
<1>2. CASE Inserts \/ Changes
  <2>1. PICK id : DOMAIN tickets' = DOMAIN tickets \cup {id}
    BY <1>2 DEF Inserts, Changes, InsertsRow, ChangesRow, Wrote
  <2> QED
    BY <2>1, FS_AddElement
<1> QED
  BY <1>1, <1>2 DEF Shape

LEMMA SeedStep == ASSUME IInv, Seed PROVE IInv'
<1> DEFINE f == Head(toSeed)
<1>1. TypeInv /\ Bookkeeping /\ StoreInv
  BY DEF IInv
<1>2. f \in Fixture /\ toSeed' \in Seq(Fixture)
  BY <1>1, HeadTailProperties DEF TypeInv, Seed
<1>3. Shape /\ reply' \in Replies /\ UNCHANGED clock
  <2>1. SeedTicket(f.user, f.id, f.status, f.version, f.created)
    BY DEF Seed
  <2> QED
    BY <1>1, <1>2, <2>1, SeedTicketShape DEF Fixture, TypeInv
<1>4. ServiceTypeOK' /\ IsFiniteSet(DOMAIN tickets')
  BY <1>1, <1>3, ShapeKeepsTypes, ShapeKeepsFinite DEF TypeInv, ServiceTypeOK
<1>5. seeded' = tickets' /\ tickets' \in Tables
  BY <1>4, TableIs DEF ServiceTypeOK, Seed
<1>6. phase' \in {"seeding", "dead"} /\ UNCHANGED <<asked, proposal, action, decision, traces, window>>
  BY DEF Seed
<1>7. asked = 0 /\ traces = <<>> /\ Len(traces) = 0
  BY <1>1 DEF Bookkeeping, Seed
<1>8. TypeInv'
  BY <1>1, <1>2, <1>4, <1>5, <1>6 DEF TypeInv, Phases
<1>9. Bookkeeping'
  BY <1>5, <1>6, <1>7 DEF Bookkeeping, OneTracePerQuery
<1>10. StoreInv'
  BY <1>6, <1>7 DEF StoreInv, TracesAccountUpToReadBack
<1> QED
  BY <1>8, <1>9, <1>10 DEF IInv

LEMMA OpenSessionStep == ASSUME IInv, OpenSession PROVE IInv'
<1>1. TypeInv /\ Bookkeeping /\ StoreInv
  BY DEF IInv
<1> USE DEF OpenSession
<1>2. asked = 0 /\ traces = <<>> /\ Len(traces) = 0 /\ seeded = tickets
  BY <1>1 DEF Bookkeeping
<1>3. TypeInv'
  BY <1>1, TypesStay DEF TypeInv, Phases
<1>4. Bookkeeping'
  BY <1>2 DEF Bookkeeping, OneTracePerQuery
<1>5. Base' = tickets'
  BY <1>2 DEF Base, Before, svcVars
<1>6. StoreInv'
  BY <1>1, <1>5, SameAccounts DEF StoreInv
<1> QED
  BY <1>3, <1>4, <1>6 DEF IInv

LEMMA BeginQueryStep == ASSUME IInv, BeginQuery PROVE IInv'
<1>1. TypeInv /\ Bookkeeping /\ StoreInv
  BY DEF IInv
<1> USE DEF BeginQuery
<1>2. /\ phase = "ready" /\ phase' \in {"asking", "dead"}
      /\ asked' = asked + 1 /\ asked \in Nat /\ asked' \in 0 .. MaxQueries
      /\ Len(traces) = asked
  BY <1>1, OrchestratorConstants DEF TypeInv, Bookkeeping, OneTracePerQuery
<1>3. ServiceTypeOK' /\ IsFiniteSet(DOMAIN tickets')
  BY <1>1 DEF TypeInv, ServiceTypeOK, svcVars
<1>4. NoDecision \in Decisions /\ NoAction \in ActionSpace
  BY DEF NoDecision, Decision, Decisions, DecisionCodes, Reasons, ActionSpace
<1>5. TypeInv'
  BY <1>1, <1>2, <1>3, <1>4 DEF TypeInv, Phases
<1>6. Bookkeeping'
  BY <1>1, <1>2 DEF Bookkeeping, OneTracePerQuery
<1>7. StoreInv'
  BY <1>1, <1>2, SameAccounts DEF StoreInv, svcVars
<1> QED
  BY <1>5, <1>6, <1>7 DEF IInv

LEMMA ProposeStep == ASSUME IInv, NEW p \in Proposals, Propose(p) PROVE IInv'
<1>1. TypeInv /\ Bookkeeping /\ StoreInv
  BY DEF IInv
<1> USE DEF Propose
<1>2. p \in ProposalSpace
  BY OrchestratorConstants
<1>3. TypeInv'
  BY <1>1, <1>2, TypesStay DEF TypeInv, Phases, ActionSpace
<1>4. Bookkeeping'
  BY <1>1 DEF Bookkeeping, OneTracePerQuery
<1>5. StoreInv'
  BY <1>1, SameAccounts DEF StoreInv, svcVars
<1> QED
  BY <1>3, <1>4, <1>5 DEF IInv

LEMMA ExecuteStep == ASSUME IInv, Execute PROVE IInv'
<1>1. TypeInv /\ Bookkeeping /\ StoreInv
  BY DEF IInv
<1>2. /\ phase = "allowed" /\ phase' = "executed"
      /\ UNCHANGED <<asked, proposal, action, decision, traces, window, toSeed, seeded>>
  BY DEF Execute
<1>3. Permitted(action) /\ decision.code = "ALLOW" /\ tickets = Base
  BY <1>1, <1>2 DEF StoreInv
<1>4. /\ Shape /\ reply' \in Replies /\ UNCHANGED clock
      /\ Target \in TicketIds
      /\ Outcome(tickets, tickets', reply', action.type, Target)
      /\ Expected(reply', action.type)
  BY <1>1, <1>3, ExecuteOutcome DEF TypeInv
<1>5. ServiceTypeOK' /\ IsFiniteSet(DOMAIN tickets')
  BY <1>1, <1>4, ShapeKeepsTypes, ShapeKeepsFinite DEF TypeInv, ServiceTypeOK
<1>6. TypeInv'
  BY <1>1, <1>2, <1>5 DEF TypeInv, Phases
<1>7. Bookkeeping'
  BY <1>1, <1>2 DEF Bookkeeping, OneTracePerQuery
<1>8. ExecutedAsAllowed'
  <2>1. Base' = Base /\ Target' = Target
    BY <1>2, SameAccounts DEF Target
  <2> QED
    BY <1>2, <1>3, <1>4, <2>1 DEF ExecutedAsAllowed, Permitted
<1>9. StoreInv'
  BY <1>1, <1>2, <1>8, SameAccounts DEF StoreInv
<1> QED
  BY <1>6, <1>7, <1>9 DEF IInv

LEMMA CrashStep == ASSUME IInv, Crash PROVE IInv'
<1>1. TypeInv /\ Bookkeeping /\ StoreInv
  BY DEF IInv
<1> USE DEF Crash
<1>2. TypeInv'
  BY <1>1, TypesStay DEF TypeInv, Phases
<1>3. Bookkeeping'
  BY <1>1 DEF Bookkeeping, OneTracePerQuery
<1>4. StoreInv'
  BY <1>1, SameAccounts DEF StoreInv
<1> QED
  BY <1>2, <1>3, <1>4 DEF IInv

LEMMA IdleStep == ASSUME IInv, TimePasses \/ UNCHANGED vars PROVE IInv'
<1>1. TypeInv /\ Bookkeeping /\ StoreInv
  BY DEF IInv
<1>2. /\ UNCHANGED <<tickets, events, reply, orchVars>>
      /\ clock' \in 0 .. MaxTime
  BY <1>1, ServiceConstants DEF TimePasses, Tick, vars, svcVars, orchVars, TypeInv, ServiceTypeOK
<1> USE DEF orchVars
<1>3. TypeInv'
  BY <1>1, <1>2 DEF TypeInv, ServiceTypeOK
<1>4. Bookkeeping'
  BY <1>1, <1>2 DEF Bookkeeping, OneTracePerQuery
<1>5. ExecutedAsAllowed' <=> ExecutedAsAllowed
  BY <1>2, SameAccounts DEF ExecutedAsAllowed, Target
<1>6. Permitted(action)' <=> Permitted(action)
  BY <1>2 DEF Permitted, Exists
<1>7. StoreInv'
  BY <1>1, <1>2, <1>5, <1>6, SameAccounts DEF StoreInv
<1> QED
  BY <1>3, <1>4, <1>7 DEF IInv

\* A query in progress returns, its trace true to the store
Returns ==
    /\ phase \in {"asking", "proposed", "executed"}
    /\ UNCHANGED <<svcVars, asked, toSeed, seeded>>
    /\ window' \in Seq(Turns) /\ Len(window') <= MaxTurns
    /\ proposal' \in ActionSpace /\ action' \in ActionSpace /\ decision' \in Decisions
    /\ \E tr \in TraceSpace : /\ tr.query = asked
                            /\ tr.final = tickets
                            /\ Accounts(Base, tr)
                            /\ Answers(tr)

LEMMA ReturnsKeeps == ASSUME IInv, Returns PROVE IInv'
BY Returned DEF Returns

\* An answer or an error before anything was executed
LEMMA AnswersWithoutCall ==
    ASSUME TypeInv, tickets = Base, NEW kind \in ActionTypes, NEW d \in Decisions,
           NEW error \in {"none", "provider", "runtime"},
           Answers(Trace(kind, d, "NONE", NoTicket, error))
    PROVE  \E tr \in TraceSpace : /\ tr.query = asked
                               /\ tr.final = tickets
                               /\ Accounts(Base, tr)
                               /\ Answers(tr)
<1> DEFINE tr == Trace(kind, d, "NONE", NoTicket, error)
<1>1. tr \in TraceSpace
  BY TraceType DEF ActionTypes
<1>2. Accounts(Base, tr)
  BY NothingToAccount DEF WritingActions
<1>3. tr.query = asked /\ tr.final = tickets
  BY DEF Trace
<1>4. Answers(tr)
  OBVIOUS
<1> HIDE DEF tr
<1> QED
  BY <1>1, <1>2, <1>3, <1>4

LEMMA NoDecisionType == NoDecision \in Decisions /\ "NONE" \in ActionTypes
BY DEF NoDecision, Decision, Decisions, DecisionCodes, Reasons, ActionTypes

LEMMA ProviderReturns == ASSUME IInv, ProviderFails \/ ProposeRaises PROVE Returns
<1>1. TypeInv /\ phase = "asking" /\ tickets = Base
  BY DEF IInv, StoreInv, ProviderFails, ProposeRaises
<1>2. UNCHANGED <<svcVars, asked, proposal, action, decision, toSeed, seeded>>
  BY DEF ProviderFails, ProposeRaises
<1>3. \E error \in {"none", "provider", "runtime"} :
          Answers(Trace("NONE", NoDecision, "NONE", NoTicket, error))
  BY RuntimeErrorAnswers DEF ProviderFails, ProposeRaises, Return, Answers
<1>4. window' \in Seq(Turns) /\ Len(window') <= MaxTurns
  <2>1. CASE ProviderFails
    <3>1. asked \in Nat
      BY <1>1, OrchestratorConstants DEF TypeInv
    <3>2. Turn("ERROR", NoTicket) \in Turns
      BY <3>1 DEF Turn, Turns
    <3> QED
      BY <1>1, <2>1, <3>2, WindowStaysShort DEF ProviderFails
  <2>2. CASE ProposeRaises
    BY <1>1, <2>2 DEF ProposeRaises, RuntimeError, TypeInv
  <2> QED
    BY <2>1, <2>2
<1>5. \E tr \in TraceSpace : tr.query = asked /\ tr.final = tickets /\ Accounts(Base, tr) /\ Answers(tr)
  BY <1>1, <1>3, AnswersWithoutCall, NoDecisionType
<1> QED
  BY <1>1, <1>2, <1>4, <1>5 DEF Returns, TypeInv

LEMMA ResolveOutcome ==
    ASSUME IInv, Resolve
    PROVE  \/ Returns
           \/ /\ phase' = "allowed"
              /\ UNCHANGED <<svcVars, asked, proposal, toSeed, seeded, traces, window>>
              /\ Permitted(action')
              /\ decision' \in Decisions /\ decision'.code = "ALLOW"
<1> DEFINE a == ResolveRef(Persona, proposal)
           d == Decide(Persona, a)
<1>1. TypeInv /\ phase = "proposed" /\ tickets = Base /\ proposal \in ProposalSpace
  BY DEF IInv, StoreInv, TypeInv, Resolve
<1>2. a \in ProposalSpace /\ d \in Decisions
  BY <1>1, ResolvedType, DecisionType DEF TypeInv
<1>3. action' = a /\ decision' = d /\ UNCHANGED <<svcVars, asked, proposal, toSeed, seeded>>
  BY DEF Resolve
<1>4. CASE d.code = "ALLOW"
  <2>1. Permitted(a)
    <3> HIDE DEF a
    <3> QED
      BY <1>2, <1>4, AllowMeansPermitted
  <2>2. phase' = "allowed" /\ UNCHANGED <<traces, window>>
    BY <1>4 DEF Resolve
  <2> QED
    BY <1>2, <1>3, <1>4, <2>1, <2>2
<1>5. CASE d.code # "ALLOW"
  <2>1. /\ Remember(Turn(a.type, NoTicket))
        /\ ReturnOrRetry(Trace(a.type, d, "NONE", NoTicket, "none"))
    BY <1>5 DEF Resolve
  <2> HIDE DEF a, d
  <2>2. a.type \in ActionTypes /\ asked \in Nat
    BY <1>1, <1>2, OrchestratorConstants DEF ProposalSpace, TypeInv
  <2>3. Turn(a.type, NoTicket) \in Turns
    BY <2>2 DEF Turn, Turns
  <2>4. window' \in Seq(Turns) /\ Len(window') <= MaxTurns
    BY <1>1, <2>1, <2>3, WindowStaysShort
  <2>5. \E error \in {"none", "provider", "runtime"} :
            Answers(Trace(a.type, d, "NONE", NoTicket, error))
    BY <2>1, RetriedAnswers
  <2>6. \E tr \in TraceSpace : tr.query = asked /\ tr.final = tickets /\ Accounts(Base, tr) /\ Answers(tr)
    BY <1>1, <1>2, <2>2, <2>5, AnswersWithoutCall
  <2> QED
    BY <1>1, <1>2, <1>3, <2>4, <2>6 DEF Returns, TypeInv, ActionSpace
<1> QED
  BY <1>4, <1>5

LEMMA ResolveStep == ASSUME IInv, Resolve PROVE IInv'
<1>1. CASE Returns
  BY <1>1, ReturnsKeeps
<1>2. CASE /\ phase' = "allowed"
           /\ UNCHANGED <<svcVars, asked, proposal, toSeed, seeded, traces, window>>
           /\ Permitted(action')
           /\ decision' \in Decisions /\ decision'.code = "ALLOW"
  <2>1. TypeInv /\ Bookkeeping /\ StoreInv /\ phase = "proposed"
    BY DEF IInv, Resolve
  <2>2. action' \in ActionSpace
    BY <1>2 DEF Permitted, ActionSpace
  <2>3. TypeInv'
    BY <1>2, <2>1, <2>2, TypesStay DEF TypeInv, Phases
  <2>4. Bookkeeping'
    BY <1>2, <2>1 DEF Bookkeeping, OneTracePerQuery
  <2>5. Permitted(action)'
    BY <1>2 DEF Permitted, Exists, svcVars
  <2>6. StoreInv'
    BY <1>2, <2>1, <2>5, SameAccounts DEF StoreInv, svcVars
  <2> QED
    BY <2>3, <2>4, <2>6 DEF IInv
<1> QED
  BY <1>1, <1>2, ResolveOutcome

LEMMA ResolveRaisesReturns == ASSUME IInv, ResolveRaises PROVE Returns
<1> DEFINE a == ResolveRef(Persona, proposal)
<1>1. TypeInv /\ phase = "proposed" /\ tickets = Base /\ proposal \in ProposalSpace
  BY DEF IInv, StoreInv, TypeInv, ResolveRaises
<1>2. a.type \in ActionTypes
  BY <1>1, ResolvedType DEF TypeInv, ProposalSpace
<1>3. \E kind \in ActionTypes : RuntimeError(kind, NoDecision)
  BY <1>2, NoDecisionType DEF ResolveRaises
<1>4. UNCHANGED <<svcVars, asked, proposal, action, decision, toSeed, seeded>>
  BY DEF ResolveRaises
<1>5. UNCHANGED window
  BY <1>3 DEF RuntimeError
<1>6. \E tr \in TraceSpace : tr.query = asked /\ tr.final = tickets /\ Accounts(Base, tr) /\ Answers(tr)
  BY <1>1, <1>3, RuntimeErrorAnswers, AnswersWithoutCall, NoDecisionType
<1> QED
  BY <1>1, <1>4, <1>5, <1>6 DEF Returns, TypeInv

\* What an executed action answers accounts for what it did.
LEMMA AnswerAccounts ==
    ASSUME TypeInv, ExecutedAsAllowed
    PROVE  /\ reply = "ok" => \A error \in {"none", "runtime"} :
                  Accounts(Base, Trace(action.type, decision, action.type, Target, error))
           /\ reply # "ok" =>
                  Accounts(Base, Trace(action.type, decision, "NONE", NoTicket, "runtime"))
<1>1. Base \in Tables
  <2>1. traces \in Seq(TraceSpace) /\ seeded \in Tables /\ Len(traces) \in Nat
    BY DEF TypeInv
  <2>2. Len(traces) # 0 => traces[Len(traces)] \in TraceSpace
    BY <2>1
  <2>3. Len(traces) # 0 => traces[Len(traces)].final \in Tables
    BY <2>2 DEF TraceSpace
  <2> QED
    BY <2>1, <2>3 DEF Base, Before
<1>2. CASE tickets = Base /\ (reply = "ok" => action.type = "GET_TICKET_STATUS")
  BY <1>2, NothingToAccount DEF WritingActions
<1>3. CASE WriteOf(Base, tickets, action.type, Target)
  <2>1. action.type \in WritingActions /\ Target \in TicketIds /\ decision.code = "ALLOW"
    BY <1>3 DEF WriteOf, ExecutedAsAllowed
  <2>2. /\ Diff(Base, tickets) = {Target}
        /\ tickets[Target].owner = Persona
        /\ IF Target \in DOMAIN Base
           THEN /\ action.type # "CREATE_TICKET"
                /\ Base[Target].owner = Persona
                /\ tickets[Target].version = Base[Target].version + 1
           ELSE action.type = "CREATE_TICKET" /\ tickets[Target].version = 1
    <3> HIDE DEF Base, Target
    <3> QED
      BY <1>1, <1>3, WriteDiff
  <2> HIDE DEF Base, Target
  <2>3. \A error :
            Accounts(Base, Trace(action.type, decision, action.type, Target, error))
    BY <2>1, <2>2 DEF Accounts, Trace
  <2>4. Accounts(Base, Trace(action.type, decision, "NONE", NoTicket, "runtime"))
    BY <2>1, <2>2 DEF Accounts, Trace, WritingActions
  <2> QED
    BY <2>3, <2>4
<1> QED
  BY <1>2, <1>3 DEF ExecutedAsAllowed, Outcome

LEMMA AnswerReturns == ASSUME IInv, Answer PROVE Returns
<1>1. TypeInv /\ phase = "executed" /\ ExecutedAsAllowed
  BY DEF IInv, StoreInv, Answer
<1>2. /\ action.type \in ActionTypes /\ Target \in TicketIds /\ decision \in Decisions
      /\ asked \in Nat
  BY <1>1, OrchestratorConstants DEF ExecutedAsAllowed, ProposalSpace, TypeInv
<1>3. UNCHANGED <<svcVars, asked, proposal, action, decision, toSeed, seeded>>
  BY DEF Answer
<1>4. CASE reply = "ok"
  <2>1. /\ Remember(Turn(action.type, Target))
        /\ ReturnOrRetry(Trace(action.type, decision, action.type, Target, "none"))
    BY <1>4 DEF Answer
  <2>2. Turn(action.type, Target) \in Turns
    BY <1>2 DEF Turn, Turns
  <2>3. window' \in Seq(Turns) /\ Len(window') <= MaxTurns
    BY <1>1, <2>1, <2>2, WindowStaysShort
  <2>4. PICK error \in {"none", "runtime"} :
            Answers(Trace(action.type, decision, action.type, Target, error))
    BY <2>1, RetriedAnswers
  <2> DEFINE tr == Trace(action.type, decision, action.type, Target, error)
  <2>5. tr \in TraceSpace
    BY <1>1, <1>2, TraceType
  <2>6. Accounts(Base, tr)
    BY <1>1, <1>4, AnswerAccounts
  <2>7. tr.query = asked /\ tr.final = tickets
    BY DEF Trace
  <2>8. Answers(tr)
    BY <2>4
  <2> HIDE DEF tr
  <2> QED
    BY <1>1, <1>3, <2>3, <2>5, <2>6, <2>7, <2>8 DEF Returns, TypeInv
<1>5. CASE reply # "ok"
  <2> DEFINE tr == Trace(action.type, decision, "NONE", NoTicket, "runtime")
  <2>1. Answers(tr) /\ UNCHANGED window
    BY <1>5, RuntimeErrorAnswers DEF Answer
  <2>2. tr \in TraceSpace
    BY <1>1, <1>2, TraceType, NoDecisionType
  <2>3. Accounts(Base, tr)
    BY <1>1, <1>5, AnswerAccounts
  <2>4. tr.query = asked /\ tr.final = tickets
    BY DEF Trace
  <2> HIDE DEF tr
  <2> QED
    BY <1>1, <1>3, <2>1, <2>2, <2>3, <2>4 DEF Returns, TypeInv
<1> QED
  BY <1>4, <1>5

LEMMA EveryStepKeeps == IInv /\ [Next]_vars => IInv'
<1> SUFFICES ASSUME IInv, [Next]_vars PROVE IInv'
  OBVIOUS
<1>1. CASE Seed BY <1>1, SeedStep
<1>2. CASE OpenSession BY <1>2, OpenSessionStep
<1>3. CASE BeginQuery BY <1>3, BeginQueryStep
<1>4. CASE \E p \in Proposals : Propose(p) BY <1>4, ProposeStep
<1>5. CASE ProviderFails \/ ProposeRaises BY <1>5, ProviderReturns, ReturnsKeeps
<1>6. CASE Resolve BY <1>6, ResolveStep
<1>7. CASE ResolveRaises BY <1>7, ResolveRaisesReturns, ReturnsKeeps
<1>8. CASE Execute BY <1>8, ExecuteStep
<1>9. CASE Answer BY <1>9, AnswerReturns, ReturnsKeeps
<1>10. CASE TimePasses \/ UNCHANGED vars BY <1>10, IdleStep
<1>11. CASE Crash BY <1>11, CrashStep
<1> QED
  BY <1>1, <1>2, <1>3, <1>4, <1>5, <1>6, <1>7, <1>8, <1>9, <1>10, <1>11 DEF Next, Step

LEMMA Invariant == Spec => []IInv
<1> QED
  BY Initially, EveryStepKeeps, PTL DEF Spec

-----------------------------------------------------------------------------
(* Theorems *)

\* The variables of handle_query and the store keep their types.
THEOREM OrchestratorTypes == Spec => []TypeOK
<1>1. IInv => TypeOK
  <2> SUFFICES ASSUME IInv PROVE TypeOK
    OBVIOUS
  <2>1. TypeInv
    BY DEF IInv
  <2>2. decision.code \in DecisionCodes
    BY <2>1 DEF TypeInv, Decisions
  <2>3. \A i \in 1 .. Len(window) : window[i] \in Turns
    BY <2>1 DEF TypeInv
  <2>4. \A i \in 1 .. Len(traces) : traces[i] \in TraceSpace
    BY <2>1 DEF TypeInv
  <2>5. \A i \in 1 .. Len(traces) :
            /\ traces[i].executed \in ActionTypes
            /\ traces[i].ticket \in TicketIds \cup {NoTicket}
            /\ traces[i].error \in {"none", "provider", "runtime"}
    BY <2>4 DEF TraceSpace
  <2> QED
    BY <2>1, <2>2, <2>3, <2>5 DEF TypeOK, TypeInv
<1> QED
  BY <1>1, Invariant, PTL

\* What the policy allowed, the service does not refuse by a rule of its own.
THEOREM AllowedCanBeExecuted == Spec => []AllowedIsExecutable
<1>1. IInv => AllowedIsExecutable
  BY DEF IInv, StoreInv, ExecutedAsAllowed, Expected, AllowedIsExecutable
<1> QED
  BY <1>1, Invariant, PTL

\* The traces, read in order, account for every change of the store.
THEOREM TracesAccount == Spec => []TracesAccountUpToReadBack
<1>1. IInv => TracesAccountUpToReadBack
  BY DEF IInv, StoreInv
<1> QED
  BY <1>1, Invariant, PTL

\* Every query that returned has one trace, at its place.
THEOREM TracesCountQueries == Spec => []OneTracePerQuery
<1>1. IInv => OneTracePerQuery
  BY DEF IInv, Bookkeeping
<1> QED
  BY <1>1, Invariant, PTL

-----------------------------------------------------------------------------
(* A scenario implements SupportDesk *)

\* The store the desk shows, as Desk substitutes it
DeskStore == IF asked = 0 \/ phase = "ready" THEN tickets ELSE Before(Len(traces) + 1)

LEMMA DeskShowsBase == IInv => DeskStore = IF asked = 0 THEN tickets ELSE Base
BY DEF IInv, StoreInv, DeskStore, Base

LEMMA SeedLoads == ASSUME IInv, Seed PROVE [Desk!Next]_(Desk!deskVars)
<1> DEFINE f == Head(toSeed)
<1>1. asked = 0 /\ asked' = 0 /\ UNCHANGED traces
  BY DEF IInv, Bookkeeping, Seed
<1>2. DeskStore = tickets /\ DeskStore' = tickets'
  BY <1>1 DEF DeskStore
<1>3. SeedTicket(f.user, f.id, f.status, f.version, f.created)
  BY DEF Seed
<1>4. CASE tickets' = tickets
  BY <1>1, <1>2, <1>4 DEF Desk!deskVars, DeskStore
<1>5. CASE tickets' # tickets
  <2>1. PICK row, event : ~Exists(f.id) /\ Wrote(f.id, row, event)
    BY <1>3, <1>5 DEF SeedTicket, Transaction, Refuse, Wrote
  <2>2. /\ f.id \in DOMAIN tickets' \ DOMAIN tickets
        /\ tickets' = [i \in DOMAIN tickets \cup {f.id} |->
                           IF i = f.id THEN tickets'[f.id] ELSE tickets[i]]
    BY <2>1 DEF Wrote, Exists
  <2> HIDE DEF f
  <2>3. Desk!Load
    BY <1>1, <1>2, <2>2 DEF Desk!Load, Desk!With, DeskStore
  <2> QED
    BY <2>3 DEF Desk!Next
<1> QED
  BY <1>4, <1>5

LEMMA BeginQueryOpens == ASSUME IInv, BeginQuery PROVE [Desk!Next]_(Desk!deskVars)
<1>1. /\ asked' = asked + 1 /\ asked \in Nat /\ phase = "ready"
      /\ UNCHANGED <<tickets, traces, seeded>>
  BY OrchestratorConstants DEF IInv, TypeInv, BeginQuery, svcVars
<1>2. Base' = Base /\ Base = tickets
  BY <1>1, SameAccounts DEF IInv, StoreInv
<1>3. IInv'
  BY BeginQueryStep
<1>4. DeskStore' = Base' /\ DeskStore = tickets
  BY <1>1, <1>3 DEF DeskStore, IInv, StoreInv, Base
<1>5. DeskStore' = DeskStore
  BY <1>2, <1>4
<1>6. CASE asked = 0
  BY <1>1, <1>5, <1>6 DEF Desk!Open, Desk!Next, DeskStore
<1>7. CASE asked > 0
  BY <1>1, <1>5, <1>7 DEF Desk!deskVars, DeskStore
<1> QED
  BY <1>1, <1>6, <1>7

LEMMA ReturnIsAtomic == ASSUME IInv, Returns PROVE [Desk!Next]_(Desk!deskVars)
<1>1. /\ asked' = asked /\ asked \in Nat /\ asked > 0 /\ traces \in Seq(TraceSpace)
      /\ UNCHANGED <<tickets, seeded>>
  BY OrchestratorConstants
     DEF IInv, TypeInv, Bookkeeping, OneTracePerQuery, Returns, svcVars
<1>2. DeskStore = Base
  BY <1>1, DeskShowsBase
<1>3. PICK tr \in TraceSpace : Answers(tr)
  BY DEF Returns
<1>4. CASE UNCHANGED traces /\ phase' = "dead"
  <2>1. Base' = Base /\ DeskStore' = Base'
    BY <1>1, <1>4, SameAccounts DEF DeskStore, Base
  <2> QED
    BY <1>1, <1>2, <1>4, <2>1 DEF Desk!deskVars, DeskStore
<1>5. CASE traces' = Append(traces, tr) /\ phase' = "ready"
  <2>1. DeskStore' = tickets /\ Len(traces') = Len(traces) + 1
    BY <1>1, <1>5 DEF DeskStore
  <2>2. CASE tickets = Base
    <3>1. Desk!AnswerOnly
      BY <1>1, <1>2, <2>1, <2>2 DEF Desk!AnswerOnly, DeskStore
    <3> QED
      BY <3>1 DEF Desk!Next
  <2>3. CASE \E type, id : WriteOf(Base, tickets, type, id)
    <3>1. PICK id \in DOMAIN tickets :
              /\ tickets = [i \in DOMAIN Base \cup {id} |->
                               IF i = id THEN tickets[id] ELSE Base[i]]
              /\ IF id \in DOMAIN Base
                 THEN Desk!NextRow(Base[id], tickets[id])
                 ELSE Desk!NewRow(tickets[id])
      BY <2>3 DEF WriteOf
    <3>2. /\ id \in DOMAIN DeskStore'
          /\ DeskStore' = [i \in DOMAIN DeskStore \cup {id} |->
                              IF i = id THEN DeskStore'[id] ELSE DeskStore[i]]
          /\ IF id \in DOMAIN DeskStore
             THEN Desk!NextRow(DeskStore[id], DeskStore'[id])
             ELSE Desk!NewRow(DeskStore'[id])
      <4> HIDE DEF Base
      <4> QED
        BY <1>2, <2>1, <3>1
    <3>3. asked > 0 /\ Len(traces') = Len(traces) + 1 /\ (asked' > 0) = (asked > 0)
      BY <1>1, <2>1
    <3>4. Desk!AnswerWithWrite
      BY <3>2, <3>3 DEF Desk!AnswerWithWrite, Desk!With, DeskStore
    <3> QED
      BY <3>4 DEF Desk!Next
  <2>4. tickets = Base \/ \E type, id : WriteOf(Base, tickets, type, id)
    BY DEF IInv, StoreInv, ExecutedAsAllowed, Outcome, Returns
  <2> QED
    BY <2>2, <2>3, <2>4
<1> QED
  BY <1>3, <1>4, <1>5 DEF Answers

\* No other step shows.
LEMMA OtherStepsStutter ==
    ASSUME IInv, IInv', UNCHANGED <<asked, traces, seeded>>, asked = 0 => UNCHANGED tickets
    PROVE  UNCHANGED Desk!deskVars
<1>1. Base' = Base
  BY SameAccounts
<1>2. DeskStore = IF asked = 0 THEN tickets ELSE Base
  BY DeskShowsBase
<1>3. DeskStore' = IF asked' = 0 THEN tickets' ELSE Base'
  BY DEF IInv, StoreInv, DeskStore, Base
<1> QED
  BY <1>1, <1>2, <1>3 DEF Desk!deskVars, DeskStore

\* Seen through its traces, each query is one atomic step of SupportDesk.
THEOREM ImplementsDesk == Spec => DeskSpec
<1>1. Init => Desk!Init
  BY DEF Init, ServiceInit, Desk!Init
<1>2. ASSUME IInv, [Next]_vars
      PROVE  [Desk!Next]_(Desk!deskVars)
  <2>0. IInv'
    BY <1>2, EveryStepKeeps
  <2>1. CASE Seed BY <1>2, <2>1, SeedLoads
  <2>2. CASE BeginQuery BY <1>2, <2>2, BeginQueryOpens
  <2>3. CASE ProviderFails \/ ProposeRaises BY <1>2, <2>3, ProviderReturns, ReturnIsAtomic
  <2>4. CASE ResolveRaises BY <1>2, <2>4, ResolveRaisesReturns, ReturnIsAtomic
  <2>5. CASE Answer BY <1>2, <2>5, AnswerReturns, ReturnIsAtomic
  <2>6. CASE Resolve
    <3>1. CASE Returns BY <1>2, <3>1, ReturnIsAtomic
    <3>2. CASE UNCHANGED <<svcVars, asked, seeded, traces>>
      BY <1>2, <2>0, <3>2, OtherStepsStutter DEF svcVars
    <3> QED BY <1>2, <2>6, <3>1, <3>2, ResolveOutcome
  <2>7. CASE Execute
    <3>1. asked # 0
      BY <1>2, <2>7 DEF IInv, TypeInv, Bookkeeping, OneTracePerQuery, Execute
    <3> QED BY <1>2, <2>0, <2>7, <3>1, OtherStepsStutter DEF Execute
  <2>8. CASE OpenSession \/ (\E p \in Proposals : Propose(p)) \/ Crash
    <3>1. UNCHANGED <<asked, traces, seeded, tickets>>
      BY <2>8 DEF OpenSession, Propose, Crash, svcVars
    <3> QED BY <1>2, <2>0, <3>1, OtherStepsStutter
  <2>9. CASE TimePasses \/ UNCHANGED vars
    <3>1. UNCHANGED <<asked, traces, seeded, tickets>>
      BY <2>9 DEF TimePasses, Tick, orchVars, vars, svcVars
    <3> QED BY <1>2, <2>0, <3>1, OtherStepsStutter
  <2> QED
    BY <1>2, <2>1, <2>2, <2>3, <2>4, <2>5, <2>6, <2>7, <2>8, <2>9 DEF Next, Step
<1>3. IInv /\ [Next]_vars => [Desk!Next]_(Desk!deskVars)
  BY <1>2
<1> QED
  BY <1>1, <1>3, Invariant, PTL DEF Spec, DeskSpec, Desk!Spec

-----------------------------------------------------------------------------
(* The conversation window *)

TurnOf(tr) == Turn(IF tr.error = "provider" THEN "ERROR" ELSE tr.proposed, tr.ticket)

\* The query is answered and remembered, or a runtime error took its turn
Speaks(tr) ==
    /\ Answers(tr)
    /\ \/ UNCHANGED window /\ tr.error = "runtime"
       \/ Remember(TurnOf(tr))

WindowMatches ==
    /\ \A j \in 2 .. Len(window) : window[j - 1].query < window[j].query
    /\ \A j \in 1 .. Len(window) :
         LET t == traces[window[j].query]
         IN  /\ window[j].query \in 1 .. Len(traces)
             /\ window[j].ticket = t.ticket
             /\ window[j].type = (IF t.error = "provider" THEN "ERROR" ELSE t.proposed)
    /\ \A i \in Spoken :
         \/ \E j \in 1 .. Len(window) : window[j].query = i
         \/ Len(window) = MaxTurns /\ i < window[1].query

\* A run that dies may have remembered a turn whose trace it could not return.
WindowInv == phase # "dead" => WindowMatches

LEMMA RuntimeErrorSpeaks ==
    ASSUME NEW kind, NEW d, RuntimeError(kind, d)
    PROVE  \E tr : Speaks(tr)
<1> DEFINE tr == Trace(kind, d, "NONE", NoTicket, "runtime")
<1>1. Answers(tr) /\ UNCHANGED window
  BY RuntimeErrorAnswers
<1>2. tr.error = "runtime"
  BY DEF Trace
<1> HIDE DEF tr
<1> QED
  BY <1>1, <1>2 DEF Speaks

LEMMA ProviderSpeaks ==
    ASSUME ProviderFails \/ ProposeRaises
    PROVE  \E tr : Speaks(tr)
<1>1. CASE ProviderFails
  <2> DEFINE tr == Trace("NONE", NoDecision, "NONE", NoTicket, "provider")
  <2>1. Answers(tr)
    BY <1>1 DEF ProviderFails, Return, Answers
  <2>2. TurnOf(tr) = Turn("ERROR", NoTicket)
    BY DEF TurnOf, Trace
  <2> HIDE DEF tr
  <2> QED
    BY <1>1, <2>1, <2>2 DEF ProviderFails, Speaks
<1>2. CASE ProposeRaises
  <2>1. RuntimeError("NONE", NoDecision)
    BY <1>2 DEF ProposeRaises
  <2> QED
    BY <2>1, RuntimeErrorSpeaks
<1> QED
  BY <1>1, <1>2

LEMMA RememberedSpeaks ==
    ASSUME NEW kind, NEW d, NEW executed, NEW ticket, Remember(Turn(kind, ticket)),
           ReturnOrRetry(Trace(kind, d, executed, ticket, "none"))
    PROVE  \E tr : Speaks(tr)
<1>1. PICK error \in {"none", "runtime"} : Answers(Trace(kind, d, executed, ticket, error))
  BY RetriedAnswers
<1> DEFINE tr == Trace(kind, d, executed, ticket, error)
<1>2. TurnOf(tr) = Turn(kind, ticket)
  BY DEF TurnOf, Trace
<1>3. Answers(tr)
  BY <1>1
<1> HIDE DEF tr
<1> QED
  BY <1>2, <1>3 DEF Speaks

\* The turns that a window keeps when one more is remembered
LEMMA Forgets ==
    ASSUME window \in Seq(Turns), Len(window) <= MaxTurns, NEW turn \in Turns, Remember(turn)
    PROVE  \E cut \in {0, 1} :
               /\ Len(window') = Len(window) + 1 - cut
               /\ \A j \in 1 .. Len(window') :
                      window'[j] = IF j + cut <= Len(window) THEN window[j + cut] ELSE turn
               /\ cut = 1 => Len(window) = MaxTurns
<1> DEFINE all == Append(window, turn)
           cut == IF Len(window) + 1 > MaxTurns THEN 1 ELSE 0
<1>1. PICK n \in Nat : n = Len(window)
  OBVIOUS
<1>2. /\ Len(all) = n + 1
      /\ \A i \in 1 .. n + 1 : all[i] = (IF i <= n THEN window[i] ELSE turn) /\ all[i] \in Turns
      /\ n <= MaxTurns /\ MaxTurns \in Nat \ {0}
  BY <1>1, OrchestratorConstants
<1>3. cut \in {0, 1} /\ (cut = 1 => n = MaxTurns)
  BY <1>1, <1>2
<1>4. window' = SubSeq(all, cut + 1, n + 1)
  <2>1. window' = SubSeq(all, IF Len(all) > MaxTurns THEN Len(all) - MaxTurns + 1 ELSE 1, Len(all))
    BY DEF Remember
  <2>2. (IF n + 1 > MaxTurns THEN n + 1 - MaxTurns + 1 ELSE 1) = cut + 1
    BY <1>1, <1>2
  <2> HIDE DEF all, cut
  <2> QED
    BY <1>2, <2>1, <2>2
<1> HIDE DEF all, cut
<1>5. \A i \in cut + 1 .. n + 1 : all[i] \in Turns
  BY <1>2, <1>3
<1>6. /\ Len(window') = (IF cut + 1 <= n + 1 THEN n + 1 - (cut + 1) + 1 ELSE 0)
      /\ \A i \in 1 .. n + 1 - (cut + 1) + 1 : window'[i] = all[cut + 1 + i - 1]
  BY <1>3, <1>4, <1>5, SubSeqProperties
<1>7. Len(window') = n + 1 - cut
  BY <1>3, <1>6
<1>8. \A j \in 1 .. n + 1 - cut : window'[j] = IF j + cut <= n THEN window[j + cut] ELSE turn
  BY <1>2, <1>3, <1>6
<1> QED
  BY <1>1, <1>3, <1>7, <1>8

LEMMA WindowKeeps ==
    ASSUME IInv, IInv', WindowMatches, phase \in {"asking", "proposed", "executed"},
           UNCHANGED asked, NEW tr, Speaks(tr), traces' = Append(traces, tr), phase' = "ready"
    PROVE  WindowMatches'
<1>1. PICK n \in Nat : n = Len(traces) /\ asked = n + 1
  BY OrchestratorConstants DEF IInv, TypeInv, Bookkeeping, OneTracePerQuery
<1>2. PICK m \in Nat : m = Len(window) /\ m <= MaxTurns
  BY DEF IInv, TypeInv
<1>3. /\ Len(traces') = n + 1
      /\ traces'[n + 1] = tr
      /\ \A i \in 1 .. n : traces'[i] = traces[i]
  BY <1>1 DEF IInv, TypeInv
<1>4. /\ \A j \in 2 .. m : window[j - 1].query < window[j].query
      /\ \A j \in 1 .. m : window[j].query \in 1 .. n
      /\ \A j \in 1 .. m :
           /\ window[j].ticket = traces[window[j].query].ticket
           /\ window[j].type = (IF traces[window[j].query].error = "provider" THEN "ERROR"
                                ELSE traces[window[j].query].proposed)
      /\ \A i \in 1 .. n : traces[i].error # "runtime" =>
           \/ \E j \in 1 .. m : window[j].query = i
           \/ m = MaxTurns /\ i < window[1].query
  BY <1>1, <1>2 DEF WindowMatches, Spoken
<1>5. CASE UNCHANGED window /\ tr.error = "runtime"
  <2>1. \A j \in 1 .. m : window[j].query \in 1 .. n + 1 /\ traces'[window[j].query] = traces[window[j].query]
    BY <1>3, <1>4
  <2>2. \A i \in 1 .. n + 1 : traces'[i].error # "runtime" =>
           \/ \E j \in 1 .. m : window[j].query = i
           \/ m = MaxTurns /\ i < window[1].query
    BY <1>3, <1>4, <1>5
  <2> QED
    BY <1>2, <1>3, <1>4, <1>5, <2>1, <2>2 DEF WindowMatches, Spoken
<1>6. CASE Remember(TurnOf(tr))
  <2> DEFINE turn == TurnOf(tr)
  <2>1. /\ turn.query = n + 1
        /\ turn.ticket = tr.ticket
        /\ turn.type = (IF tr.error = "provider" THEN "ERROR" ELSE tr.proposed)
    BY <1>1 DEF TurnOf, Turn
  <2>2. turn \in Turns
    <3>1. tr \in TraceSpace
      BY <1>3, <1>1 DEF IInv, TypeInv
    <3> QED
      BY <1>1, <3>1 DEF TurnOf, Turn, Turns, TraceSpace
  <2> HIDE DEF turn
  <2>3. PICK cut \in {0, 1} :
               /\ Len(window') = m + 1 - cut
               /\ \A j \in 1 .. m + 1 - cut :
                      window'[j] = IF j + cut <= m THEN window[j + cut] ELSE turn
               /\ cut = 1 => m = MaxTurns
    BY <1>2, <1>6, <2>2, Forgets DEF IInv, TypeInv, turn
  <2>4. MaxTurns \in Nat \ {0}
    BY OrchestratorConstants
  <2>5. \A j \in 2 .. m + 1 - cut : window'[j - 1].query < window'[j].query
    <3> SUFFICES ASSUME NEW j \in 2 .. m + 1 - cut PROVE window'[j - 1].query < window'[j].query
      OBVIOUS
    <3>0. PICK k \in 2 .. m + 1 : k = j + cut /\ k - 1 \in 1 .. m
      BY <1>2, <2>3
    <3>1. window'[j - 1] = window[k - 1]
      <4>1. j - 1 \in 1 .. m + 1 - cut /\ (j - 1) + cut = k - 1
        BY <1>2, <2>3, <3>0
      <4> QED
        BY <2>3, <3>0, <4>1
    <3>2. CASE k <= m
      <4>1. window'[j] = window[k] /\ k \in 2 .. m
        BY <1>2, <2>3, <3>0, <3>2
      <4> QED
        BY <1>4, <3>1, <4>1
    <3>3. CASE ~(k <= m)
      <4>1. window'[j] = turn
        BY <1>2, <2>3, <3>0, <3>3
      <4> QED
        BY <1>1, <1>4, <2>1, <3>0, <3>1, <4>1
    <3> QED
      BY <3>2, <3>3
  <2>6. \A j \in 1 .. m + 1 - cut :
           /\ window'[j].query \in 1 .. n + 1
           /\ window'[j].ticket = traces'[window'[j].query].ticket
           /\ window'[j].type = (IF traces'[window'[j].query].error = "provider" THEN "ERROR"
                                 ELSE traces'[window'[j].query].proposed)
    <3> SUFFICES ASSUME NEW j \in 1 .. m + 1 - cut
                 PROVE  /\ window'[j].query \in 1 .. n + 1
                        /\ window'[j].ticket = traces'[window'[j].query].ticket
                        /\ window'[j].type = (IF traces'[window'[j].query].error = "provider"
                                              THEN "ERROR"
                                              ELSE traces'[window'[j].query].proposed)
      OBVIOUS
    <3>1. CASE j + cut <= m
      <4>1. window'[j] = window[j + cut] /\ j + cut \in 1 .. m
        BY <1>2, <2>3, <3>1
      <4>2. window[j + cut].query \in 1 .. n
        BY <1>4, <4>1
      <4>3. traces'[window[j + cut].query] = traces[window[j + cut].query]
        BY <1>3, <4>2
      <4> QED
        BY <1>1, <1>4, <4>1, <4>2, <4>3
    <3>2. CASE ~(j + cut <= m)
      <4>1. window'[j] = turn
        BY <2>3, <3>2
      <4> QED
        BY <1>1, <1>3, <2>1, <4>1
    <3> QED
      BY <3>1, <3>2
  <2>7. ASSUME NEW i \in 1 .. n + 1, traces'[i].error # "runtime"
        PROVE  \/ \E j \in 1 .. m + 1 - cut : window'[j].query = i
               \/ m + 1 - cut = MaxTurns /\ i < window'[1].query
    <3>1. m + 1 - cut \in 1 .. m + 1 - cut /\ window'[m + 1 - cut] = turn
      BY <1>2, <2>3, <2>4
    <3>2. CASE i = n + 1
      BY <2>1, <3>1, <3>2
    <3>3. CASE i \in 1 .. n
      <4>1. \/ \E j \in 1 .. m : window[j].query = i
            \/ m = MaxTurns /\ i < window[1].query
        BY <1>3, <1>4, <2>7, <3>3
      <4>2. ASSUME NEW j \in 1 .. m, window[j].query = i, j > cut
            PROVE  \E k \in 1 .. m + 1 - cut : window'[k].query = i
        <5>1. j - cut \in 1 .. m + 1 - cut /\ window'[j - cut] = window[j]
          BY <1>2, <2>3, <4>2
        <5> QED
          BY <4>2, <5>1
      <4>3. cut = 1 => m + 1 - cut = MaxTurns /\ window[1].query < window'[1].query
        <5> SUFFICES ASSUME cut = 1 PROVE m + 1 - cut = MaxTurns /\ window[1].query < window'[1].query
          OBVIOUS
        <5>1. m = MaxTurns /\ m >= 1 /\ m + 1 - cut = MaxTurns
          BY <1>2, <2>3, <2>4
        <5>2. CASE m = 1
          <6>1. window'[1] = turn
            BY <2>3, <5>2
          <6> QED
            BY <1>1, <1>4, <2>1, <5>1, <5>2, <6>1
        <5>3. CASE m > 1
          <6>1. window'[1] = window[2]
            BY <1>2, <2>3, <5>3
          <6>2. window[2 - 1].query < window[2].query
            BY <1>2, <1>4, <5>3
          <6> QED
            BY <5>1, <6>1, <6>2
        <5> QED
          BY <5>1, <5>2, <5>3
      <4>4. CASE m = MaxTurns /\ i < window[1].query
        <5>1. cut = 1
          <6>1. Len(window') <= MaxTurns
            BY DEF IInv, TypeInv
          <6> QED
            BY <1>2, <2>3, <2>4, <4>4, <6>1
        <5>2. window[1].query \in Nat /\ window'[1].query \in Nat
          BY <1>1, <1>2, <1>4, <2>3, <2>4, <2>6, <4>4, <5>1
        <5> QED
          BY <4>3, <4>4, <5>1, <5>2
      <4>5. CASE \E j \in 1 .. m : window[j].query = i
        <5>1. PICK j \in 1 .. m : window[j].query = i
          BY <4>5
        <5>2. CASE j > cut
          BY <4>2, <5>1, <5>2
        <5>3. CASE ~(j > cut)
          <6>1. cut = 1 /\ j = 1
            BY <1>2, <2>3, <5>3
          <6> QED
            BY <4>3, <5>1, <6>1
        <5> QED
          BY <5>2, <5>3
      <4> QED
        BY <4>1, <4>4, <4>5
    <3> QED
      BY <1>1, <3>2, <3>3
  <2> QED
    BY <1>3, <2>3, <2>5, <2>6, <2>7 DEF WindowMatches, Spoken
<1> QED
  BY <1>5, <1>6 DEF Speaks

LEMMA SpeakingKeepsWindow ==
    ASSUME IInv, IInv', WindowInv, phase \in {"asking", "proposed", "executed"},
           UNCHANGED asked, \E tr : Speaks(tr)
    PROVE  WindowInv'
<1>1. PICK tr : Speaks(tr)
  OBVIOUS
<1>2. CASE phase' = "dead"
  BY <1>2 DEF WindowInv
<1>3. CASE traces' = Append(traces, tr) /\ phase' = "ready"
  <2>1. WindowMatches
    BY DEF WindowInv
  <2> QED
    BY <1>1, <1>3, <2>1, WindowKeeps DEF WindowInv
<1> QED
  BY <1>1, <1>2, <1>3 DEF Speaks, Answers

LEMMA SilentKeepsWindow ==
    ASSUME WindowInv, UNCHANGED <<traces, window>>, phase' # "dead" => phase # "dead"
    PROVE  WindowInv'
<1>1. WindowMatches' <=> WindowMatches
  BY DEF WindowMatches, Spoken
<1> QED
  BY <1>1 DEF WindowInv

LEMMA EveryStepKeepsWindow ==
    ASSUME IInv, IInv', WindowInv, [Next]_vars
    PROVE  WindowInv'
<1>1. CASE ProviderFails \/ ProposeRaises
  BY <1>1, ProviderSpeaks, SpeakingKeepsWindow DEF ProviderFails, ProposeRaises
<1>2. CASE ResolveRaises
  <2>1. \E tr : Speaks(tr)
    BY <1>2, RuntimeErrorSpeaks DEF ResolveRaises
  <2> QED
    BY <1>2, <2>1, SpeakingKeepsWindow DEF ResolveRaises
<1>3. CASE Resolve
  <2>1. CASE UNCHANGED <<traces, window>> /\ phase' = "allowed"
    BY <1>3, <2>1, SilentKeepsWindow DEF Resolve
  <2>2. CASE \E kind, d : /\ Remember(Turn(kind, NoTicket))
                          /\ ReturnOrRetry(Trace(kind, d, "NONE", NoTicket, "none"))
    <3>1. \E tr : Speaks(tr)
      BY <2>2, RememberedSpeaks
    <3> QED
      BY <1>3, <3>1, SpeakingKeepsWindow DEF Resolve
  <2> QED
    BY <1>3, <2>1, <2>2 DEF Resolve
<1>4. CASE Answer
  <2>1. \E tr : Speaks(tr)
    BY <1>4, RememberedSpeaks, RuntimeErrorSpeaks DEF Answer
  <2> QED
    BY <1>4, <2>1, SpeakingKeepsWindow DEF Answer
<1>5. CASE Seed \/ OpenSession \/ BeginQuery \/ (\E p \in Proposals : Propose(p)) \/ Execute \/ Crash
  <2>1. UNCHANGED <<traces, window>> /\ phase # "dead"
    BY <1>5 DEF Seed, OpenSession, BeginQuery, Propose, Execute, Crash
  <2> QED
    BY <2>1, SilentKeepsWindow
<1>6. CASE TimePasses \/ UNCHANGED vars
  <2>1. UNCHANGED <<traces, window, phase>>
    BY <1>6 DEF TimePasses, vars, orchVars
  <2> QED
    BY <2>1, SilentKeepsWindow
<1> QED
  BY <1>1, <1>2, <1>3, <1>4, <1>5, <1>6 DEF Next, Step

\* The window that the next prompt shows holds the latest remembered turns, none
\* skipped, and tells what the traces tell.
THEOREM WindowIsRecent == Spec => []WindowIsRecentTurns
<1>1. Init => WindowInv
  BY DEF Init, WindowInv, WindowMatches, Spoken
<1>2. IInv /\ IInv' /\ WindowInv /\ [Next]_vars => WindowInv'
  BY EveryStepKeepsWindow
<1>3. WindowInv => WindowIsRecentTurns
  BY DEF WindowInv, WindowMatches, WindowIsRecentTurns
<1> QED
  BY <1>1, <1>2, <1>3, Invariant, PTL DEF Spec
===============================================================================
