------------------------------ MODULE MCOutbox ------------------------------
(* A small instance of Outbox: an organization that can be reached, one without *)
(* integrations, and one of whose integrations always refuses.                  *)
EXTENDS Outbox

CONSTANTS w1, w2, d1, d2, slack, email

MCOrgs == {"reachable", "silent", "refusing"}
MCOrgOf == <<"silent", "reachable", "refusing", "reachable">>
MCChannels ==
  [o \in Orgs |-> CASE o = "reachable" -> {slack}
                    [] o = "silent" -> {}
                    [] o = "refusing" -> {slack, email}]
=============================================================================
