--------------------------- MODULE MCTicketService ---------------------------
(* TicketService called directly, with and without database faults.          *)
EXTENDS TicketService, TLC

CONSTANT MaxEvents   \* bound on the event table

UserSymmetry == Permutations(Users)
MCIds == {1, 2}
MCSeedVersions == {4}

BoundedNext == ServiceNext /\ Len(events') <= MaxEvents
BoundedSpec == ServiceInit /\ [][BoundedNext]_svcVars
==============================================================================
