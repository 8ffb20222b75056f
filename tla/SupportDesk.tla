----------------------------- MODULE SupportDesk ------------------------------
(***************************************************************************)
(* What a scenario promises its audit: seen through the traces alone, each *)
(* query of the trusted user is answered by one atomic step that leaves    *)
(* the ticket store alone or makes a single legal write to a ticket of     *)
(* that user.                                                              *)
(***************************************************************************)
EXTENDS TicketLifecycle, Integers

CONSTANT Persona

VARIABLES store,     \* ticket id -> [owner, status, version, created]
          answered,  \* queries answered
          open       \* has the session begun?

deskVars == <<store, answered, open>>

With(id, row) == [i \in DOMAIN store \cup {id} |-> IF i = id THEN row ELSE store[i]]

\* The rows a single write may leave for id
NewRow(row) ==
    row.owner = Persona /\ row.status = "OPEN" /\ row.version = 1

NextRow(old, row) ==
    /\ old.owner = Persona
    /\ old.status # "CLOSED"
    /\ row.owner = Persona
    /\ row.created = old.created
    /\ row.version = old.version + 1
    /\ row.status = old.status \/ row.status \in AllowedTargets[old.status]

Init == store = [i \in {} |-> i] /\ answered = 0 /\ ~open

\* Fixtures put tickets of any user in any state before the session opens
Load ==
    /\ ~open
    /\ \E id \in DOMAIN store' \ DOMAIN store : store' = With(id, store'[id])
    /\ UNCHANGED <<answered, open>>

Open == ~open /\ open' = TRUE /\ UNCHANGED <<store, answered>>

AnswerOnly == open /\ answered' = answered + 1 /\ UNCHANGED <<store, open>>

AnswerWithWrite ==
    /\ open
    /\ answered' = answered + 1
    /\ \E id \in DOMAIN store' :
         /\ store' = With(id, store'[id])
         /\ IF id \in DOMAIN store
            THEN NextRow(store[id], store'[id])
            ELSE NewRow(store'[id])
    /\ UNCHANGED open

Next == Load \/ Open \/ AnswerOnly \/ AnswerWithWrite

Spec == Init /\ [][Next]_deskVars
==============================================================================
