------------------------- MODULE TicketServiceProofs -------------------------
(***************************************************************************)
(* Proofs about TicketService.  Every step leaves the two tables alone,    *)
(* inserts a row with its first event, or changes a row with one more      *)
(* event (lemma StepsOfTheService); the theorems follow from that shape.   *)
(***************************************************************************)
EXTENDS TicketService, FiniteSetTheorems, TLAPS

\* A committed transaction
Wrote(id, row, event) ==
    /\ tickets' = [i \in DOMAIN tickets \cup {id} |-> IF i = id THEN row ELSE tickets[i]]
    /\ events' = Append(events, event)

InsertsRow(u, id, row, type) ==
    /\ ~Exists(id)
    /\ row.owner = u
    /\ type = "CREATE" => row.status = "OPEN" /\ row.version = 1
    /\ Wrote(id, row, [ticket |-> id, user |-> u, type |-> type,
                       from |-> NoStatus, to |-> row.status])

ChangesRow(u, id, to, type) ==
    /\ Exists(id)
    /\ tickets[id].owner = u
    /\ tickets[id].status # "CLOSED"
    /\ type = "UPDATE" => to = tickets[id].status
    /\ type = "TRANSITION" => to \in AllowedTargets[tickets[id].status]
    /\ Wrote(id, Bumped(id, to), [ticket |-> id, user |-> u, type |-> type,
                                  from |-> tickets[id].status, to |-> to])

Inserts == \E u \in Users, id \in TicketIds, row \in Row, type \in {"CREATE", "SEED"} :
               InsertsRow(u, id, row, type)

Changes == \E u \in Users, id \in TicketIds, to \in Statuses, type \in {"UPDATE", "TRANSITION"} :
               ChangesRow(u, id, to, type)

Quiet == UNCHANGED <<tickets, events>>

Shape == Quiet \/ Inserts \/ Changes

-----------------------------------------------------------------------------
(* Each call has the shape *)

LEMMA NoErrorMeansOwned ==
    ASSUME NEW u, NEW id, GetError(u, id) = "none"
    PROVE  Exists(id) /\ tickets[id].owner = u
BY DEF GetError, LookupCode

\* A transaction commits or leaves the tables alone.
LEMMA TransactionOutcomes ==
    ASSUME NEW id, NEW row, NEW event, NEW code, Transaction(id, row, event, code)
    PROVE  /\ Wrote(id, row, event) \/ Quiet
           /\ UNCHANGED clock
           /\ reply' \in {"ok", "DatabaseError", code}
BY DEF Transaction, Refuse, Wrote, Quiet

LEMMA SeedTicketShape ==
    ASSUME ServiceTypeOK, NEW u \in Users, NEW id \in TicketIds, NEW status \in Statuses,
           NEW version \in Int, NEW created \in Nat, SeedTicket(u, id, status, version, created)
    PROVE  Shape /\ reply' \in Replies /\ UNCHANGED clock
<1>2. CASE Exists(id)
  BY <1>2 DEF SeedTicket, Refuse, Shape, Quiet, Replies
<1>3. CASE ~Exists(id)
  <2> DEFINE row == [owner |-> u, status |-> status, version |-> version, created |-> created]
             event == [ticket |-> id, user |-> u, type |-> "SEED", from |-> NoStatus, to |-> status]
  <2>1. Transaction(id, row, event, "DatabaseError")
    BY <1>3 DEF SeedTicket
  <2>2. row \in Row /\ row.owner = u /\ row.status = status
    BY DEF Row
  <2>3. Wrote(id, row, event) => InsertsRow(u, id, row, "SEED")
    BY <1>3, <2>2 DEF InsertsRow
  <2>4. Wrote(id, row, event) => Inserts
    BY <2>2, <2>3 DEF Inserts
  <2> QED
    BY <2>1, <2>4, TransactionOutcomes DEF Shape, Replies
<1> QED
  BY <1>2, <1>3

LEMMA SeedShape ==
    ASSUME ServiceTypeOK, NEW u \in Users, NEW id \in TicketIds, SeedCall(u, id)
    PROVE  Shape /\ reply' \in Replies /\ UNCHANGED clock
<1>1. PICK status \in Statuses, version \in SeedVersions, created \in 0 .. MaxTime :
          SeedTicket(u, id, status, version, created)
  BY DEF SeedCall
<1>2. version \in Int /\ created \in Nat
  BY ServiceConstants
<1> QED
  BY <1>1, <1>2, SeedTicketShape

LEMMA CreateShape ==
    ASSUME ServiceTypeOK, NEW u \in Users, NEW id \in TicketIds, CreateCall(u, id)
    PROVE  Shape /\ reply' \in Replies /\ UNCHANGED clock
<1>1. PICK c \in BOOLEAN : CreateTicket(u, id, c)
  BY DEF CreateCall
<1>2. CASE ~c \/ Exists(id)
  BY <1>1, <1>2 DEF CreateTicket, Refuse, Shape, Quiet, Replies
<1>3. CASE ~(~c \/ Exists(id))
  <2> DEFINE row == [owner |-> u, status |-> "OPEN", version |-> 1, created |-> clock]
             event == [ticket |-> id, user |-> u, type |-> "CREATE", from |-> NoStatus, to |-> "OPEN"]
  <2>1. Transaction(id, row, event, "TicketError")
    BY <1>1, <1>3 DEF CreateTicket
  <2>2. row \in Row /\ row.owner = u /\ row.status = "OPEN" /\ row.version = 1
    BY ServiceConstants DEF Row, ServiceTypeOK, Statuses
  <2>3. Wrote(id, row, event) => InsertsRow(u, id, row, "CREATE")
    BY <1>3, <2>2 DEF InsertsRow
  <2>4. Wrote(id, row, event) => Inserts
    BY <2>2, <2>3 DEF Inserts
  <2> QED
    BY <2>1, <2>4, TransactionOutcomes DEF Shape, Replies
<1> QED
  BY <1>2, <1>3

\* The three refusals of get_ticket
LEMMA GetErrorIsReply ==
    ASSUME NEW u, NEW id
    PROVE  GetError(u, id) \in Replies
BY DEF GetError, LookupCode, Replies

LEMMA UpdateShape ==
    ASSUME ServiceTypeOK, NEW u \in Users, NEW id \in TicketIds, UpdateCall(u, id)
    PROVE  Shape /\ reply' \in Replies /\ UNCHANGED clock
<1>1. PICK stale \in BOOLEAN : UpdateTicket(u, id, stale)
  BY DEF UpdateCall
<1>2. CASE GetError(u, id) # "none" \/ tickets[id].status = "CLOSED" \/ stale
  BY <1>1, <1>2, GetErrorIsReply DEF UpdateTicket, Refuse, Shape, Quiet, Replies
<1>3. CASE GetError(u, id) = "none" /\ tickets[id].status # "CLOSED" /\ ~stale
  <2> DEFINE from == tickets[id].status
             event == [ticket |-> id, user |-> u, type |-> "UPDATE", from |-> from, to |-> from]
  <2>1. Transaction(id, Bumped(id, from), event, "DatabaseError")
    BY <1>1, <1>3 DEF UpdateTicket
  <2>2. Exists(id) /\ tickets[id].owner = u
    BY <1>3, NoErrorMeansOwned
  <2>3. from \in Statuses
    BY <2>2 DEF ServiceTypeOK, Row, Exists
  <2>4. Wrote(id, Bumped(id, from), event) => ChangesRow(u, id, from, "UPDATE")
    BY <1>3, <2>2 DEF ChangesRow
  <2>5. Wrote(id, Bumped(id, from), event) => Changes
    BY <2>3, <2>4 DEF Changes
  <2> QED
    BY <2>1, <2>5, TransactionOutcomes DEF Shape, Replies
<1> QED
  BY <1>2, <1>3

LEMMA TransitionShape ==
    ASSUME ServiceTypeOK, NEW u \in Users, NEW id \in TicketIds,
           NEW to \in Statuses, TransitionTicket(u, id, to)
    PROVE  Shape /\ reply' \in Replies /\ UNCHANGED clock
<1>2. CASE \/ GetError(u, id) # "none" \/ tickets[id].status = "CLOSED"
           \/ ~CanTransition(tickets[id].status, to)
  BY <1>2, GetErrorIsReply DEF TransitionTicket, Refuse, Shape, Quiet, Replies
<1>3. CASE /\ GetError(u, id) = "none" /\ tickets[id].status # "CLOSED"
           /\ CanTransition(tickets[id].status, to)
  <2> DEFINE event == [ticket |-> id, user |-> u, type |-> "TRANSITION",
                       from |-> tickets[id].status, to |-> to]
  <2>1. Transaction(id, Bumped(id, to), event, "TicketError")
    BY <1>3 DEF TransitionTicket
  <2>2. Exists(id) /\ tickets[id].owner = u
    BY <1>3, NoErrorMeansOwned
  <2>4. Wrote(id, Bumped(id, to), event) => ChangesRow(u, id, to, "TRANSITION")
    BY <1>3, <2>2 DEF ChangesRow, CanTransition
  <2>5. Wrote(id, Bumped(id, to), event) => Changes
    BY <2>4 DEF Changes
  <2> QED
    BY <2>1, <2>5, TransactionOutcomes DEF Shape, Replies
<1> QED
  BY <1>2, <1>3

LEMMA StepsOfTheService ==
    ASSUME ServiceTypeOK, [ServiceNext]_svcVars
    PROVE  Shape /\ reply' \in Replies /\ clock' \in 0 .. MaxTime
<1> USE DEF ServiceTypeOK
<1>1. ASSUME NEW u \in Users, NEW id \in TicketIds,
             \/ SeedCall(u, id) \/ CreateCall(u, id) \/ UpdateCall(u, id)
             \/ TransitionCall(u, id) \/ CloseTicket(u, id) \/ GetTicket(u, id)
      PROVE  Shape /\ reply' \in Replies /\ clock' \in 0 .. MaxTime
  <2>1. CASE SeedCall(u, id) BY <2>1, SeedShape
  <2>2. CASE CreateCall(u, id) BY <2>2, CreateShape
  <2>3. CASE UpdateCall(u, id) BY <2>3, UpdateShape
  <2>4. CASE TransitionCall(u, id) BY <2>4, TransitionShape DEF TransitionCall
  <2>5. CASE CloseTicket(u, id)
    <3>1. "CLOSED" \in Statuses BY DEF Statuses
    <3> QED BY <2>5, <3>1, TransitionShape DEF CloseTicket, Refuse, Shape, Quiet, Replies
  <2>6. CASE GetTicket(u, id)
    BY <2>6, GetErrorIsReply DEF GetTicket, Refuse, Shape, Quiet, Replies
  <2> QED BY <1>1, <2>1, <2>2, <2>3, <2>4, <2>5, <2>6
<1>2. CASE ReadFails BY <1>2 DEF ReadFails, Refuse, Shape, Quiet, Replies
<1>3. CASE Tick BY <1>3, ServiceConstants DEF Tick, Shape, Quiet
<1>4. CASE UNCHANGED svcVars BY <1>4 DEF svcVars, Shape, Quiet
<1> QED BY <1>1, <1>2, <1>3, <1>4 DEF ServiceNext

-----------------------------------------------------------------------------
(* Type correctness and the action properties *)

LEMMA ShapeKeepsTypes ==
    ASSUME ServiceTypeOK, Shape,
           reply' \in Replies, clock' \in 0 .. MaxTime
    PROVE  ServiceTypeOK'
<1> USE DEF ServiceTypeOK
<1>1. CASE Quiet BY <1>1 DEF Quiet
<1>2. ASSUME NEW id \in TicketIds, NEW row \in Row, NEW event \in Event, Wrote(id, row, event)
      PROVE  ServiceTypeOK'
  <2>1. DOMAIN tickets' = DOMAIN tickets \cup {id} BY <1>2 DEF Wrote
  <2>2. tickets' \in [DOMAIN tickets' -> Row] BY <1>2, <2>1 DEF Wrote
  <2>3. events' \in Seq(Event) BY <1>2 DEF Wrote
  <2> QED BY <2>1, <2>2, <2>3
<1>3. CASE Inserts
  <2>1. PICK u \in Users, id \in TicketIds, row \in Row, type \in {"CREATE", "SEED"} :
            InsertsRow(u, id, row, type)
    BY <1>3 DEF Inserts
  <2> DEFINE event == [ticket |-> id, user |-> u, type |-> type,
                       from |-> NoStatus, to |-> row.status]
  <2>2. event \in Event BY DEF Event, Row
  <2> QED BY <1>2, <2>1, <2>2 DEF InsertsRow
<1>4. CASE Changes
  <2>1. PICK u \in Users, id \in TicketIds, to \in Statuses, type \in {"UPDATE", "TRANSITION"} :
            ChangesRow(u, id, to, type)
    BY <1>4 DEF Changes
  <2> DEFINE event == [ticket |-> id, user |-> u, type |-> type,
                       from |-> tickets[id].status, to |-> to]
  <2>2. tickets[id] \in Row BY <2>1 DEF ChangesRow, Exists
  <2>3. event \in Event BY <2>2 DEF Event, Row
  <2>4. Bumped(id, to) \in Row BY <2>2 DEF Bumped, Row
  <2> QED BY <1>2, <2>1, <2>3, <2>4 DEF ChangesRow
<1> QED BY <1>1, <1>3, <1>4 DEF Shape

\* The tables and the clock keep their types, whatever the calls.
THEOREM ServiceTypes == ServiceSpec => []ServiceTypeOK
<1>1. ServiceInit => ServiceTypeOK
  BY ServiceConstants DEF ServiceInit, ServiceTypeOK, Replies
<1>2. ServiceTypeOK /\ [ServiceNext]_svcVars => ServiceTypeOK'
  BY StepsOfTheService, ShapeKeepsTypes
<1> QED BY <1>1, <1>2, PTL DEF ServiceSpec

\* Closed tickets cannot be mutated, by any sequence of calls.
THEOREM ClosedStaysClosed == ServiceSpec => ClosedIsFinal
<1> DEFINE Kept == \A id \in DOMAIN tickets : tickets[id].status = "CLOSED" =>
                       id \in DOMAIN tickets' /\ tickets'[id] = tickets[id]
<1>1. ASSUME ServiceTypeOK, [ServiceNext]_svcVars
      PROVE  Kept
  <2>1. Shape BY <1>1, StepsOfTheService
  <2>2. CASE Quiet BY <2>2 DEF Quiet
  <2>3. CASE Inserts BY <2>3 DEF Inserts, InsertsRow, Wrote, Exists
  <2>4. CASE Changes BY <2>4 DEF Changes, ChangesRow, Wrote, Exists
  <2> QED BY <2>1, <2>2, <2>3, <2>4 DEF Shape
<1>2. ServiceTypeOK /\ [ServiceNext]_svcVars => [Kept]_svcVars
  BY <1>1
<1> QED BY <1>2, ServiceTypes, PTL DEF ServiceSpec, ClosedIsFinal

\* Owners and creation times are fixed, rows are never deleted, and statuses move
\* along allowed_transitions only.
THEOREM RowsAlwaysEvolveLegally == ServiceSpec => RowsEvolveLegally
<1> DEFINE Legal == \A id \in DOMAIN tickets :
              /\ id \in DOMAIN tickets'
              /\ tickets'[id].owner = tickets[id].owner
              /\ tickets'[id].created = tickets[id].created
              /\ \/ tickets'[id].status = tickets[id].status
                 \/ tickets'[id].status \in AllowedTargets[tickets[id].status]
<1>1. ASSUME ServiceTypeOK, [ServiceNext]_svcVars
      PROVE  Legal
  <2>1. Shape BY <1>1, StepsOfTheService
  <2>2. CASE Quiet BY <2>2 DEF Quiet
  <2>3. CASE Inserts BY <2>3 DEF Inserts, InsertsRow, Wrote, Exists
  <2>4. CASE Changes
    <3>1. PICK u \in Users, id \in TicketIds, to \in Statuses, type \in {"UPDATE", "TRANSITION"} :
              ChangesRow(u, id, to, type)
      BY <2>4 DEF Changes
    <3>2. to = tickets[id].status \/ to \in AllowedTargets[tickets[id].status]
      BY <3>1 DEF ChangesRow
    <3>3. /\ Bumped(id, to).owner = tickets[id].owner
          /\ Bumped(id, to).created = tickets[id].created
          /\ Bumped(id, to).status = to
      BY DEF Bumped
    <3> QED BY <3>1, <3>2, <3>3 DEF ChangesRow, Wrote, Exists
  <2> QED BY <2>1, <2>2, <2>3, <2>4 DEF Shape
<1>2. ServiceTypeOK /\ [ServiceNext]_svcVars => [Legal]_svcVars
  BY <1>1
<1> QED BY <1>2, ServiceTypes, PTL DEF ServiceSpec, RowsEvolveLegally

-----------------------------------------------------------------------------
(* The event table explains the ticket table *)

\* A write that agrees with the row it finds extends the history soundly.
LEMMA HistoryGrows ==
    ASSUME ServiceTypeOK, LogExplainsTable,
           NEW id \in TicketIds, NEW row \in Row, NEW event \in Event,
           Wrote(id, row, event),
           event.ticket = id, event.to = row.status, event.user = row.owner,
           event.from # "CLOSED",
           event.type = "TRANSITION" => event.to \in AllowedTargets[event.from],
           event.type \in {"CREATE", "SEED"} <=> ~Exists(id),
           event.type = "CREATE" => event.to = "OPEN",
           Exists(id) => event.from = tickets[id].status /\ row.owner = tickets[id].owner
    PROVE  LogExplainsTable'
<1> USE DEF ServiceTypeOK
<1>0. PICK n \in Nat : n = Len(events)
  OBVIOUS
<1> USE <1>0
<1>1. /\ Len(events) = n
      /\ Len(events') = n + 1
      /\ events'[n + 1] = event
      /\ \A i \in 1 .. n : events'[i] = events[i] /\ events[i] \in Event
  BY DEF Wrote
<1>2. /\ DOMAIN tickets' = DOMAIN tickets \cup {id}
      /\ tickets'[id] = row
      /\ \A o \in DOMAIN tickets : o # id => tickets'[o] = tickets[o]
  BY DEF Wrote, Exists
<1>3. \A i \in 1 .. n : Exists(events[i].ticket)
  BY DEF LogExplainsTable, HistoryEndsInTable
<1>4. Exists(id) <=> \E i \in 1 .. n : events[i].ticket = id
  BY <1>3 DEF LogExplainsTable, HistoryEndsInTable, Exists
<1>5. HistoryStarts'
  <2>1. \A i \in 1 .. n : IsFirst(i)' <=> IsFirst(i)
    BY <1>1 DEF IsFirst
  <2>2. IsFirst(n + 1)' <=> ~Exists(id)
    BY <1>1, <1>4 DEF IsFirst
  <2> QED BY <1>1, <2>1, <2>2 DEF HistoryStarts, LogExplainsTable
<1>6. HistoryChains'
  <2> SUFFICES ASSUME NEW i \in 1 .. n + 1, NEW j \in 1 .. n + 1, Follows(j, i)'
               PROVE  events'[j].from = events'[i].to
    BY <1>1 DEF HistoryChains
  <2>1. i \in 1 .. n /\ i < j
    BY <1>1 DEF Follows
  <2>2. CASE j \in 1 .. n
    <3>1. \A k \in i + 1 .. j - 1 : k \in 1 .. n /\ events'[k] = events[k]
      BY <1>1, <2>1, <2>2
    <3>2. events'[i] = events[i] /\ events'[j] = events[j]
      BY <1>1, <2>1, <2>2
    <3>3. Follows(j, i) BY <2>1, <3>1, <3>2 DEF Follows
    <3> QED BY <2>1, <2>2, <3>2, <3>3 DEF HistoryChains, LogExplainsTable
  <2>3. CASE j = n + 1
    <3>1. events[i].ticket = id /\ IsLast(i)
      BY <1>1, <2>1, <2>3 DEF Follows, IsLast
    <3>2. events[i].to = tickets[id].status
      BY <2>1, <3>1 DEF HistoryEndsInTable, LogExplainsTable
    <3> QED BY <1>1, <1>3, <2>1, <2>3, <3>1, <3>2
  <2> QED BY <1>1, <2>2, <2>3
<1>7. HistoryEndsInTable'
  <2>1. \A i \in 1 .. n + 1 : events'[i].ticket \in DOMAIN tickets'
    BY <1>1, <1>2, <1>3 DEF Exists
  <2>2. ASSUME NEW i \in 1 .. n + 1, IsLast(i)'
        PROVE  events'[i].to = tickets'[events'[i].ticket].status
    <3>1. CASE i = n + 1 BY <1>1, <1>2, <3>1
    <3>2. CASE i \in 1 .. n
      <4>1. events[i].ticket # id /\ IsLast(i)
        BY <1>1, <2>2, <3>2 DEF IsLast
      <4>2. events[i].to = tickets[events[i].ticket].status
        BY <3>2, <4>1 DEF HistoryEndsInTable, LogExplainsTable
      <4> QED BY <1>1, <1>2, <1>3, <3>2, <4>1, <4>2 DEF Exists
    <3> QED BY <1>1, <3>1, <3>2
  <2>3. \A o \in DOMAIN tickets' : \E i \in 1 .. n + 1 : events'[i].ticket = o
    <3>1. \A o \in DOMAIN tickets : \E i \in 1 .. n : events[i].ticket = o
      BY DEF HistoryEndsInTable, LogExplainsTable
    <3>2. n + 1 \in 1 .. n + 1 /\ \A i \in 1 .. n : i \in 1 .. n + 1
      BY <1>1
    <3> QED BY <1>1, <1>2, <3>1, <3>2 DEF Exists
  <2> QED BY <1>1, <2>1, <2>2, <2>3 DEF HistoryEndsInTable, Exists
<1>8. HistoryIsLegal'
  <2>1. \A i \in 1 .. n : tickets'[events[i].ticket].owner = tickets[events[i].ticket].owner
    BY <1>2, <1>3 DEF Exists
  <2> QED BY <1>1, <1>2, <2>1 DEF HistoryIsLegal, LogExplainsTable
<1> QED BY <1>5, <1>6, <1>7, <1>8 DEF LogExplainsTable

LEMMA ShapeKeepsHistory ==
    ASSUME ServiceTypeOK, LogExplainsTable, Shape
    PROVE  LogExplainsTable'
<1>1. CASE Quiet
  <2> USE <1>1 DEF Quiet, LogExplainsTable
  <2>1. HistoryStarts' BY DEF HistoryStarts, IsFirst
  <2>2. HistoryChains' BY DEF HistoryChains, Follows
  <2>3. HistoryEndsInTable' BY DEF HistoryEndsInTable, IsLast, Exists
  <2>4. HistoryIsLegal' BY DEF HistoryIsLegal
  <2> QED BY <2>1, <2>2, <2>3, <2>4
<1>2. CASE Inserts
  <2>1. PICK u \in Users, id \in TicketIds, row \in Row, type \in {"CREATE", "SEED"} :
            InsertsRow(u, id, row, type)
    BY <1>2 DEF Inserts
  <2> DEFINE event == [ticket |-> id, user |-> u, type |-> type,
                       from |-> NoStatus, to |-> row.status]
  <2>2. event \in Event BY DEF Event, Row
  <2>3. Wrote(id, row, event) /\ ~Exists(id) /\ row.owner = u
        /\ (type = "CREATE" => row.status = "OPEN")
    BY <2>1 DEF InsertsRow
  <2> QED BY <2>2, <2>3, HistoryGrows DEF NoStatus
<1>3. CASE Changes
  <2>1. PICK u \in Users, id \in TicketIds, to \in Statuses, type \in {"UPDATE", "TRANSITION"} :
            ChangesRow(u, id, to, type)
    BY <1>3 DEF Changes
  <2> DEFINE event == [ticket |-> id, user |-> u, type |-> type,
                       from |-> tickets[id].status, to |-> to]
             row == Bumped(id, to)
  <2>2. tickets[id] \in Row BY <2>1 DEF ChangesRow, Exists, ServiceTypeOK
  <2>3. event \in Event BY <2>2 DEF Event, Row
  <2>4. row \in Row /\ row.owner = tickets[id].owner /\ row.status = to
    BY <2>2 DEF Bumped, Row
  <2>5. /\ Wrote(id, row, event) /\ Exists(id) /\ tickets[id].owner = u
        /\ tickets[id].status # "CLOSED"
        /\ (type = "TRANSITION" => to \in AllowedTargets[tickets[id].status])
    BY <2>1 DEF ChangesRow
  <2> HIDE DEF row
  <2> QED BY <2>3, <2>4, <2>5, HistoryGrows
<1> QED BY <1>1, <1>2, <1>3 DEF Shape

\* Whatever calls are made, refused or rolled back, the event table tells how
\* every row came to its status, by legal transitions of its owner.
THEOREM HistoryExplainsTable == ServiceSpec => []LogExplainsTable
<1>1. ServiceInit => LogExplainsTable
  BY DEF ServiceInit, LogExplainsTable, HistoryStarts, HistoryChains, HistoryEndsInTable,
         HistoryIsLegal
<1>2. ServiceTypeOK /\ LogExplainsTable /\ [ServiceNext]_svcVars => LogExplainsTable'
  BY StepsOfTheService, ShapeKeepsHistory
<1> QED BY <1>1, <1>2, ServiceTypes, PTL DEF ServiceSpec

-----------------------------------------------------------------------------
(* The version of a created ticket counts its events *)

\* One more event of one ticket
LEMMA OneMoreEvent ==
    ASSUME events \in Seq(Event), NEW event \in Event, events' = Append(events, event)
    PROVE  /\ \A o : o # event.ticket => EventsOf(o)' = EventsOf(o)
           /\ EventsOf(event.ticket)' = EventsOf(event.ticket) \cup {Len(events) + 1}
           /\ Cardinality(EventsOf(event.ticket))' = Cardinality(EventsOf(event.ticket)) + 1
           /\ Cardinality(EventsOf(event.ticket)) \in Nat
<1>1. PICK n \in Nat : n = Len(events)
  OBVIOUS
<1>2. /\ Len(events') = n + 1 /\ events'[n + 1] = event
      /\ \A i \in 1 .. n : events'[i] = events[i]
  BY <1>1
<1>3. \A o : o # event.ticket => EventsOf(o)' = EventsOf(o)
  BY <1>1, <1>2 DEF EventsOf
<1>4. EventsOf(event.ticket)' = EventsOf(event.ticket) \cup {n + 1}
  BY <1>1, <1>2 DEF EventsOf
<1>5. IsFiniteSet(EventsOf(event.ticket)) /\ Cardinality(EventsOf(event.ticket)) \in Nat
  <2>1. IsFiniteSet(1 .. n)
    BY FS_Interval
  <2>2. EventsOf(event.ticket) \in SUBSET (1 .. n)
    BY <1>1 DEF EventsOf
  <2> QED
    BY <2>1, <2>2, FS_Subset, FS_CardinalityType
<1>6. n + 1 \notin EventsOf(event.ticket)
  BY <1>1 DEF EventsOf
<1> QED
  BY <1>1, <1>3, <1>4, <1>5, <1>6, FS_AddElement

\* A step writes one row with one event more, the first of a new ticket
LEMMA ShapeKeepsCount ==
    ASSUME ServiceTypeOK, LogExplainsTable, VersionCountsEvents, Shape
    PROVE  VersionCountsEvents'
<1> USE DEF ServiceTypeOK
<1>1. CASE Quiet
  BY <1>1 DEF Quiet, VersionCountsEvents, EventsOf
<1>2. ASSUME NEW id \in TicketIds, NEW row \in Row, NEW event \in Event, Wrote(id, row, event),
             event.ticket = id,
             \/ /\ ~Exists(id)
                /\ event.type = "CREATE" => row.version = 1
             \/ /\ Exists(id) /\ event.type # "CREATE"
                /\ row.version = tickets[id].version + 1
      PROVE  VersionCountsEvents'
  <2>1. PICK n \in Nat : n = Len(events)
    OBVIOUS
  <2>2. /\ Len(events') = n + 1 /\ events'[n + 1] = event
        /\ \A i \in 1 .. n : events'[i] = events[i] /\ events[i] \in Event
    BY <1>2, <2>1 DEF Wrote
  <2>3. /\ tickets'[id] = row
        /\ \A o \in DOMAIN tickets : o # id => tickets'[o] = tickets[o]
    BY <1>2 DEF Wrote
  <2>4. \A i \in 1 .. n : Exists(events[i].ticket)
    BY <2>1 DEF LogExplainsTable, HistoryEndsInTable
  <2>5. /\ \A o : o # id => EventsOf(o)' = EventsOf(o)
        /\ Cardinality(EventsOf(id))' = Cardinality(EventsOf(id)) + 1
    BY <1>2, OneMoreEvent DEF Wrote
  <2>6. ASSUME NEW i \in 1 .. n, events[i].type = "CREATE"
        PROVE  tickets[events[i].ticket].version = Cardinality(EventsOf(events[i].ticket))
    BY <2>1, <2>6 DEF VersionCountsEvents
  <2>7. ~Exists(id) => Cardinality(EventsOf(id))' = 1
    <3>1. ~Exists(id) => EventsOf(id) = {}
      BY <2>1, <2>4 DEF EventsOf
    <3>2. Cardinality({}) = 0
      BY FS_EmptySet
    <3>3. ~Exists(id) => Cardinality(EventsOf(id)) = 0
      BY <3>1, <3>2
    <3> QED
      BY <2>5, <3>3
  <2>8. ASSUME NEW i \in 1 .. n + 1, events'[i].type = "CREATE"
        PROVE  tickets'[events'[i].ticket].version = Cardinality(EventsOf(events[i].ticket))'
    <3>1. CASE i = n + 1
      BY <1>2, <2>2, <2>3, <2>7, <2>8, <3>1
    <3>2. CASE i \in 1 .. n /\ events[i].ticket = id
      <4>1. events'[i] = events[i] /\ Exists(id)
        BY <2>2, <2>4, <3>2
      <4>2. tickets'[id].version = tickets[id].version + 1
        BY <1>2, <2>3, <4>1
      <4>3. tickets[id].version = Cardinality(EventsOf(id))
        BY <2>6, <2>8, <3>2, <4>1
      <4> QED
        BY <2>5, <3>2, <4>1, <4>2, <4>3
    <3>3. CASE i \in 1 .. n /\ events[i].ticket # id
      <4>1. events'[i] = events[i] /\ tickets'[events[i].ticket] = tickets[events[i].ticket]
        BY <2>2, <2>3, <2>4, <3>3 DEF Exists
      <4>2. EventsOf(events[i].ticket)' = EventsOf(events'[i].ticket)
        BY <2>5, <3>3, <4>1 DEF EventsOf
      <4> QED
        BY <2>6, <2>8, <3>3, <4>1, <4>2
    <3> QED
      BY <3>1, <3>2, <3>3
  <2> QED
    BY <2>1, <2>2, <2>8 DEF VersionCountsEvents
<1>3. CASE Inserts
  <2>1. PICK u \in Users, id \in TicketIds, row \in Row, type \in {"CREATE", "SEED"} :
            InsertsRow(u, id, row, type)
    BY <1>3 DEF Inserts
  <2> DEFINE event == [ticket |-> id, user |-> u, type |-> type,
                       from |-> NoStatus, to |-> row.status]
  <2>2. event \in Event BY DEF Event, Row
  <2>3. Wrote(id, row, event) /\ ~Exists(id) /\ (type = "CREATE" => row.version = 1)
    BY <2>1 DEF InsertsRow
  <2> QED BY <1>2, <2>2, <2>3
<1>4. CASE Changes
  <2>1. PICK u \in Users, id \in TicketIds, to \in Statuses, type \in {"UPDATE", "TRANSITION"} :
            ChangesRow(u, id, to, type)
    BY <1>4 DEF Changes
  <2> DEFINE event == [ticket |-> id, user |-> u, type |-> type,
                       from |-> tickets[id].status, to |-> to]
             row == Bumped(id, to)
  <2>2. Wrote(id, row, event) /\ Exists(id) BY <2>1 DEF ChangesRow
  <2>3. tickets[id] \in Row BY <2>2 DEF Exists
  <2>4. event \in Event BY <2>3 DEF Event, Row
  <2>5. row \in Row /\ row.version = tickets[id].version + 1
    BY <2>3 DEF Bumped, Row
  <2> HIDE DEF row
  <2> QED BY <1>2, <2>2, <2>4, <2>5
<1> QED BY <1>1, <1>3, <1>4 DEF Shape

\* No write of a created ticket is applied twice, lost, or kept out of the
\* event table: its version is the number of its events.
THEOREM VersionsCountEvents == ServiceSpec => []VersionCountsEvents
<1>1. ServiceInit => VersionCountsEvents
  BY DEF ServiceInit, VersionCountsEvents
<1>2. ServiceTypeOK /\ LogExplainsTable /\ VersionCountsEvents /\ [ServiceNext]_svcVars
        => VersionCountsEvents'
  BY StepsOfTheService, ShapeKeepsCount
<1> QED BY <1>1, <1>2, ServiceTypes, HistoryExplainsTable, PTL DEF ServiceSpec
==============================================================================
