----------------------------- MODULE Orchestrator -----------------------------
(***************************************************************************)
(* ConversationOrchestrator.handle_query (orchestrator.py) over            *)
(* TicketService and Policy, for one scenario of a run: the store is       *)
(* seeded, then queries of one trusted user are handled one at a time.     *)
(*                                                                         *)
(*   seeding --OpenSession--> ready --BeginQuery--> asking --Propose-->    *)
(*   proposed --Resolve--> allowed --Execute--> executed --Answer--> ready *)
(*                                                                         *)
(* with the early returns and exception handlers of handle_query leading   *)
(* back to ready, and an exception that escapes it, or a crash, to dead.   *)
(***************************************************************************)
EXTENDS TicketService, Policy

CONSTANTS Persona,        \* the trusted user of the scenario
          Fixtures,       \* the ticket_store lists a scenario may start from
          Proposals,      \* actions the LLM may answer with
          InitialTicket,  \* the symbolic references $INITIAL_TICKET,
          LatestTicket,   \* $LATEST_OWNED_TICKET
          UnknownRef,     \* and any other "$..."
          MaxQueries,     \* bound on the queries of a scenario
          MaxTurns,       \* EphemeralConversationContext.max_turns
          MayCrash        \* may the process die between two steps?

Refs == {InitialTicket, LatestTicket, UnknownRef}

ProposalSpace ==
    [type : ActionTypes, claims : Users \cup {NoUser},
     ticket : TicketIds \cup Refs \cup {NoTicket}, complaint : BOOLEAN,
     to : Statuses \cup {NoStatus}, text : {"plain", "refund", "sla"},
     newId : TicketIds]   \* fields.ticket_id of a CREATE, or the uuid drawn

Fixture == [user : Users, id : TicketIds, status : Statuses, version : Int, created : Nat]

ASSUME OrchestratorConstants ==
    /\ Fixtures \subseteq Seq(Fixture)
    /\ Persona \in Users
    /\ NoUser \notin Users
    /\ Refs \cap TicketIds = {}
    /\ NoTicket \notin TicketIds \cup Refs
    /\ Proposals \subseteq ProposalSpace
    /\ MaxQueries \in Nat
    /\ MaxTurns \in Nat \ {0}
    /\ MayCrash \in BOOLEAN

VARIABLES phase,     \* where handle_query is
          asked,     \* queries begun
          proposal,  \* action the LLM answered with
          action,    \* the same with its ticket reference resolved
          decision,  \* of the policy
          traces,    \* ExecutionTraces returned so far
          window,    \* turns of the conversation context
          toSeed,    \* fixtures not loaded yet
          seeded     \* the store as the fixtures left it

orchVars == <<phase, toSeed, asked, proposal, action, decision, traces, window, seeded>>
vars == <<svcVars, orchVars>>

NoDecision == Decision("NONE", "NO_DECISION")
NoAction == [type |-> "NONE", claims |-> NoUser, ticket |-> NoTicket,
             complaint |-> FALSE, to |-> NoStatus, text |-> "plain", newId |-> 0]

-----------------------------------------------------------------------------
(* Symbolic references *)

Clarified(a) == [a EXCEPT !.type = "CLARIFY", !.ticket = NoTicket]

\* owned[-1] of list_user_tickets
LastListed(u) ==
    CHOOSE id \in Owned(u) : \A o \in Owned(u) \ {id} : ListedBefore(o, id)

ResolveRef(u, a) ==
    IF a.ticket = InitialTicket
    THEN IF \E id \in TicketIds : Owned(u) = {id}
         THEN [a EXCEPT !.ticket = CHOOSE id \in TicketIds : Owned(u) = {id}]
         ELSE Clarified(a)
    ELSE IF a.ticket = LatestTicket
    THEN IF Owned(u) = {}
         THEN Clarified(a)
         ELSE [a EXCEPT !.ticket = LastListed(u)]
    ELSE IF a.ticket = UnknownRef THEN Clarified(a)
    ELSE a

Lookup(u, a) ==
    IF a.type \notin TicketActions \/ a.ticket = NoTicket
    THEN "NOT_REQUESTED"
    ELSE LookupCode(u, a.ticket)

Decide(u, a) ==
    Validate(u, a, Lookup(u, a),
             IF Lookup(u, a) = "FOUND" THEN tickets[a.ticket].status ELSE NoStatus)

-----------------------------------------------------------------------------
(* Traces and the conversation window *)

\* business_state_sha256 is modelled by the table it hashes
Trace(kind, d, executed, ticket, error) ==
    [query |-> asked, proposed |-> kind, decision |-> d, executed |-> executed,
     ticket |-> ticket, error |-> error, final |-> tickets]

\* _finalize reads the store.  Where it fails inside the try block the generic
\* handler records the error and finalizes again; a failure in a handler escapes.
Return(trace) ==
    \/ traces' = Append(traces, trace) /\ phase' = "ready"
    \/ ReadFaults /\ UNCHANGED traces /\ phase' = "dead"

ReturnOrRetry(trace) ==
    \/ Return(trace)
    \/ ReadFaults /\ Return([trace EXCEPT !.error = "runtime"])

\* Mutant: the exception is swallowed
RuntimeErrorSwallowed(kind, d) == phase' = "ready" /\ UNCHANGED <<traces, window>>

\* except Exception: no turn is remembered
RuntimeError(kind, d) ==
    /\ Return(Trace(kind, d, "NONE", NoTicket, "runtime"))
    /\ UNCHANGED window

Turn(type, ticket) == [query |-> asked, type |-> type, ticket |-> ticket]

\* Mutants: the list of turns is not cut, or cut at the wrong end
RememberAll(turn) == window' = Append(window, turn)
RememberFirst(turn) ==
    window' = IF Len(window) = MaxTurns THEN window ELSE Append(window, turn)

\* EphemeralConversationContext.append
Remember(turn) ==
    LET all == Append(window, turn)
    IN  window' = SubSeq(all, IF Len(all) > MaxTurns THEN Len(all) - MaxTurns + 1 ELSE 1,
                         Len(all))

-----------------------------------------------------------------------------
(* The steps of a scenario *)

\* The runner seeds the fixtures; an exception of seed_ticket ends the run.
Seed ==
    LET f == Head(toSeed)
    IN  /\ phase = "seeding"
        /\ toSeed # <<>>
        /\ SeedTicket(f.user, f.id, f.status, f.version, f.created)
        /\ toSeed' = Tail(toSeed)
        /\ phase' = IF reply' = "ok" THEN "seeding" ELSE "dead"
        /\ seeded' = tickets'
        /\ UNCHANGED <<asked, proposal, action, decision, traces, window>>

OpenSession ==
    /\ phase = "seeding"
    /\ toSeed = <<>>
    /\ phase' = "ready"
    /\ UNCHANGED <<svcVars, asked, proposal, action, decision, traces, window, toSeed, seeded>>

\* owned_ticket_ids are listed before the try block
BeginQuery ==
    /\ phase = "ready"
    /\ asked < MaxQueries
    /\ asked' = asked + 1
    /\ phase' \in {"asking"} \cup (IF ReadFaults THEN {"dead"} ELSE {})
    /\ proposal' = NoAction    \* locals of the new call
    /\ action' = NoAction
    /\ decision' = NoDecision
    /\ UNCHANGED <<svcVars, traces, window, toSeed, seeded>>

Propose(p) ==
    /\ phase = "asking"
    /\ phase' = "proposed"
    /\ proposal' = p
    /\ UNCHANGED <<svcVars, asked, action, decision, traces, window, toSeed, seeded>>

\* propose_action raised a ProviderError, or any other exception
ProviderFails ==
    /\ phase = "asking"
    /\ Remember(Turn("ERROR", NoTicket))
    /\ Return(Trace("NONE", NoDecision, "NONE", NoTicket, "provider"))
    /\ UNCHANGED <<svcVars, asked, proposal, action, decision, toSeed, seeded>>

ProposeRaises ==
    /\ phase = "asking"
    /\ RuntimeError("NONE", NoDecision)
    /\ UNCHANGED <<svcVars, asked, proposal, action, decision, toSeed, seeded>>

\* Resolve the reference, look the ticket up, ask the policy; a decision other
\* than ALLOW is answered at once.
Resolve ==
    LET a == ResolveRef(Persona, proposal)
        d == Decide(Persona, a)
    IN  /\ phase = "proposed"
        /\ action' = a
        /\ decision' = d
        /\ \/ /\ d.code = "ALLOW"
              /\ phase' = "allowed"
              /\ UNCHANGED <<traces, window>>
           \/ /\ d.code # "ALLOW"
              /\ Remember(Turn(a.type, NoTicket))
              /\ ReturnOrRetry(Trace(a.type, d, "NONE", NoTicket, "none"))
        /\ UNCHANGED <<svcVars, asked, proposal, toSeed, seeded>>

\* list_user_tickets or lookup_ticket raised
ResolveRaises ==
    LET a == ResolveRef(Persona, proposal)
    IN  /\ phase = "proposed"
        /\ ReadFaults
        /\ \/ proposal.ticket \in Refs /\ RuntimeError("NONE", NoDecision)
           \/ Lookup(Persona, a) # "NOT_REQUESTED" /\ RuntimeError(a.type, NoDecision)
        /\ UNCHANGED <<svcVars, asked, proposal, action, decision, toSeed, seeded>>

\* The one call on the Ticket Service that an allowed action makes
Execute ==
    /\ phase = "allowed"
    /\ \/ action.type = "CREATE_TICKET" /\ CreateTicket(Persona, action.newId, TRUE)
       \/ action.type = "UPDATE_TICKET" /\ action.to # NoStatus
            /\ TransitionTicket(Persona, action.ticket, action.to)
       \/ action.type = "UPDATE_TICKET" /\ action.to = NoStatus
            /\ UpdateTicket(Persona, action.ticket, FALSE)
       \/ action.type = "CLOSE_TICKET" /\ CloseTicket(Persona, action.ticket)
       \/ action.type = "GET_TICKET_STATUS" /\ GetTicket(Persona, action.ticket)
       \/ action.type \in TicketActions /\ ReadFails
    /\ phase' = "executed"
    /\ UNCHANGED <<asked, proposal, action, decision, traces, window, toSeed, seeded>>

\* Mutant: the trace names the reference the LLM wrote
TargetAsProposed == proposal.ticket

Target == IF action.type = "CREATE_TICKET" THEN action.newId ELSE action.ticket

\* Mutant: no handler for the exceptions of the service
AnswerIfOk ==
    /\ phase = "executed"
    /\ reply = "ok"
    /\ Remember(Turn(action.type, Target))
    /\ ReturnOrRetry(Trace(action.type, decision, action.type, Target, "none"))
    /\ UNCHANGED <<svcVars, asked, proposal, action, decision, toSeed, seeded>>

Answer ==
    /\ phase = "executed"
    /\ \/ /\ reply = "ok"
          /\ Remember(Turn(action.type, Target))
          /\ ReturnOrRetry(Trace(action.type, decision, action.type, Target, "none"))
       \/ /\ reply # "ok"
          /\ RuntimeError(action.type, decision)
    /\ UNCHANGED <<svcVars, asked, proposal, action, decision, toSeed, seeded>>

\* The process dies; a run is never resumed (its directory is refused)
Crash ==
    /\ MayCrash
    /\ phase # "dead"
    /\ phase' = "dead"
    /\ UNCHANGED <<svcVars, asked, proposal, action, decision, traces, window, toSeed, seeded>>

TimePasses == Tick /\ phase = "ready" /\ UNCHANGED orchVars

Init ==
    /\ ServiceInit
    /\ phase = "seeding"
    /\ asked = 0
    /\ proposal = NoAction
    /\ action = NoAction
    /\ decision = NoDecision
    /\ traces = <<>>
    /\ window = <<>>
    /\ toSeed \in Fixtures
    /\ seeded = tickets

\* The steps of a process that runs
Step ==
    \/ Seed
    \/ OpenSession
    \/ BeginQuery
    \/ \E p \in Proposals : Propose(p)
    \/ ProviderFails
    \/ ProposeRaises
    \/ Resolve
    \/ ResolveRaises
    \/ Execute
    \/ Answer

Next ==
    \/ Step
    \/ TimePasses
    \/ Crash

Spec == Init /\ [][Next]_vars

\* A live process keeps taking the next statement: the provider call returns
\* or raises (it has a timeout), and sqlite answers or raises.
FairSpec == Spec /\ WF_vars(Step)

-----------------------------------------------------------------------------
(* Properties *)

Phases == {"seeding", "ready", "asking", "proposed", "allowed", "executed", "dead"}

ActionSpace == {NoAction} \cup ProposalSpace
Turns == [query : Nat, type : ActionTypes \cup {"ERROR"}, ticket : TicketIds \cup {NoTicket}]

\* Types of the variables of handle_query, and of the store below it.
TypeOK ==
    /\ ServiceTypeOK
    /\ phase \in Phases
    /\ toSeed \in Seq(Fixture)
    /\ asked \in 0 .. MaxQueries
    /\ proposal \in ActionSpace
    /\ action \in ActionSpace
    /\ decision.code \in DecisionCodes
    /\ Len(window) <= MaxTurns
    /\ \A i \in 1 .. Len(window) : window[i] \in Turns
    /\ \A i \in 1 .. Len(traces) :
         /\ traces[i].executed \in ActionTypes
         /\ traces[i].ticket \in TicketIds \cup {NoTicket}
         /\ traces[i].error \in {"none", "provider", "runtime"}

\* The store a query found, and the tickets it left different
Before(i) == IF i = 1 THEN seeded ELSE traces[i - 1].final
Changed(i) ==
    {id \in DOMAIN traces[i].final :
        id \notin DOMAIN Before(i) \/ Before(i)[id] # traces[i].final[id]}

\* i changed exactly one ticket: its user's own, by one write
WroteOnce(i) ==
    LET id == traces[i].ticket
    IN  /\ Changed(i) = {id}
        /\ traces[i].final[id].owner = Persona
        /\ IF id \in DOMAIN Before(i)
           THEN /\ traces[i].executed # "CREATE_TICKET"
                /\ Before(i)[id].owner = Persona
                /\ traces[i].final[id].version = Before(i)[id].version + 1
           ELSE /\ traces[i].executed = "CREATE_TICKET"
                /\ traces[i].final[id].version = 1

FailedReadBack(i) == traces[i].decision.code = "ALLOW" /\ traces[i].error = "runtime"

\* Read in order, the traces account for the store: a query whose trace says
\* that a writing action was executed wrote once, to the ticket it names, which
\* is its user's own; any other query left every ticket as it found it, denied
\* and failed ones included.  The exception is an allowed action whose read-back
\* failed after the commit; that one, too, touched at most one ticket of its user.
TracesAccountUpToReadBack ==
    \A i \in 1 .. Len(traces) :
        IF traces[i].executed \in WritingActions THEN WroteOnce(i)
        ELSE \/ Changed(i) = {}
             \/ /\ FailedReadBack(i)
                /\ \E id \in TicketIds :
                     Changed(i) = {id} /\ traces[i].final[id].owner = Persona

\* What the policy allows, the service does not refuse by a rule of its own: the
\* ticket found at validation is still there, the user's, open to writes, and in
\* a status the transition leaves.  Only creating under a taken id, or the
\* database, can fail.
AllowedIsExecutable ==
    phase = "executed" =>
        \/ reply \in {"ok", "DatabaseError"}
        \/ reply = "TicketError" /\ (WriteFaults \/ action.type = "CREATE_TICKET")

\* Exactly one trace per query, in order, also when the provider fails: at most
\* the query in progress, or the one the process died in, has none.
OneTracePerQuery ==
    /\ \A i \in 1 .. Len(traces) : traces[i].query = i
    /\ Len(traces) \in {asked - 1, asked}
    /\ phase = "ready" => Len(traces) = asked
    /\ phase \in {"asking", "proposed", "allowed", "executed"} => Len(traces) = asked - 1

\* A turn is remembered unless a runtime error took it (or the run died in it)
Spoken == {i \in 1 .. Len(traces) : traces[i].error # "runtime"}

\* The window holds the latest turns, in order, none skipped but those lost to
\* runtime errors, and tells the action and the ticket that the trace tells.
WindowIsRecentTurns ==
    phase = "ready" =>
        /\ \A j \in 2 .. Len(window) : window[j - 1].query < window[j].query
        /\ \A j \in 1 .. Len(window) :
             LET t == traces[window[j].query]
             IN  /\ window[j].ticket = t.ticket
                 /\ window[j].type = (IF t.error = "provider" THEN "ERROR" ELSE t.proposed)
        /\ \A i \in Spoken :
             \/ \E j \in 1 .. Len(window) : window[j].query = i
             \/ Len(window) = MaxTurns /\ i < window[1].query

\* Every query is answered by a trace, unless the run dies.
QueriesAnswered ==
    \A n \in 1 .. MaxQueries :
        asked = n ~> (Len(traces) >= n \/ phase = "dead")

\* Seen from outside, a query is atomic: SupportDesk, with the store as of the
\* last trace while a query is under way.
Desk == INSTANCE SupportDesk WITH
            store <- IF asked = 0 \/ phase = "ready" THEN tickets
                     ELSE Before(Len(traces) + 1),
            answered <- Len(traces),
            open <- asked > 0

DeskSpec == Desk!Spec
==============================================================================
