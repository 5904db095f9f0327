------------------------------- MODULE RouteBoard ------------------------------
(***************************************************************************)
(* What the users of the three route coordinators see: a board, that is    *)
(* the claims and the routes of its nets, and the outcome of the last      *)
(* request. A request changes the routes of its targets in one step or     *)
(* changes nothing; an exactly checked one leaves no resource overused.    *)
(***************************************************************************)
EXTENDS Occupancy

CONSTANTS Target, Bus, Nets, Unchanging

VARIABLES board, outcome

Boards == [claims : Claims, routes : RouteMaps]

Init == board \in Boards /\ outcome = "none"

\* a request is made; nothing has happened yet
Ask == outcome' = "none" /\ UNCHANGED board

\* the nets a request may reroute, all of them routed afterwards
Reroutes(nets) ==
  /\ board' \in Boards
  /\ nets \subseteq DOMAIN board'.routes
  /\ Without(board'.routes, nets) = Without(board.routes, nets)
  /\ Without(board'.claims, nets) = Without(board.claims, nets)
  /\ Only(board'.claims, nets) = Only(ClaimsOf(board'.routes), nets)

\* replace: atomic, with no promise about overuse
Replace == outcome' = "committed" /\ Reroutes(Nets[Bus])

\* a checked commit
Accept ==
  /\ outcome' = "accepted"
  /\ \E targets \in SUBSET Target : Reroutes(UNION { Nets[t] : t \in targets })
  /\ ZeroOveruse(board'.claims)

\* a refusal, a rollback or an error
Keep == outcome' \in Unchanging /\ UNCHANGED board

(***************************************************************************)
(* A search that writes to both ledgers is reported, but what it wrote to  *)
(* the board stays; the board is not used again.                           *)
(***************************************************************************)
Break == outcome' = "broken" /\ board' \in Boards

Next == Ask \/ Replace \/ Accept \/ Keep \/ Break

Spec == Init /\ [][Next]_<< board, outcome >>

================================================================================
