------------------------------- MODULE Occupancy -------------------------------
(***************************************************************************)
(* kicad/negotiated_resources.py, OccupancyLedger: which routing resources *)
(* every net claims, kept twice (by net and by resource), and the route    *)
(* map the coordinators keep beside it.                                    *)
(*                                                                         *)
(* The code replaces or removes the claims of one net at a time; the loops *)
(* of its callers run over distinct nets without giving up control, so an  *)
(* operator here replaces or removes a set of nets. by_resource drops the  *)
(* key of a resource nobody claims: here its value is the empty set. A     *)
(* ledger's fingerprint covers by_net only, and is modelled by by_net.     *)
(***************************************************************************)
EXTENDS Integers, FiniteSets

CONSTANTS
  Net,       \* nets of the board
  Resource,  \* routing resources, each of capacity one
  Route,     \* detailed routes a net can have
  Occupies   \* [Route -> SUBSET Resource]: what a route claims

ASSUME OccupancyAssumption ==
  /\ IsFiniteSet(Net)
  /\ IsFiniteSet(Resource)
  /\ Occupies \in [Route -> SUBSET Resource]

Claims    == UNION { [S -> SUBSET Resource] : S \in SUBSET Net }
RouteMaps == UNION { [S -> Route] : S \in SUBSET Net }
Ledgers   == [byNet : Claims, byResource : [Resource -> SUBSET Net]]

\* the entries of f on S, f without them, and f overridden by g
Only(f, S)     == [n \in DOMAIN f \cap S |-> f[n]]
Without(f, S)  == [n \in DOMAIN f \ S |-> f[n]]
Override(f, g) ==
  [n \in DOMAIN f \cup DOMAIN g |-> IF n \in DOMAIN g THEN g[n] ELSE f[n]]

ClaimsOf(routes) == [n \in DOMAIN routes |-> Occupies[routes[n]]]

(***************************************************************************)
(* rip_up of every net in S: the index forgets an owner only under the     *)
(* resources its entry in by_net names.                                    *)
(***************************************************************************)
RipUp(ledger, S) ==
  [byNet      |-> Without(ledger.byNet, S),
   byResource |-> [r \in Resource |->
     { n \in ledger.byResource[r] :
         ~(n \in S \cap DOMAIN ledger.byNet /\ r \in ledger.byNet[n]) }]]

\* Faulty variant: the old claims stay in the index.
CommitOnTop(ledger, claims) ==
  [byNet      |-> Override(ledger.byNet, claims),
   byResource |-> [r \in Resource |->
     ledger.byResource[r] \cup { n \in DOMAIN claims : r \in claims[n] }]]

\* commit or restore: the claims replace what their nets claimed before
Commit(ledger, claims) ==
  LET bare == RipUp(ledger, DOMAIN claims)
  IN [byNet      |-> Override(bare.byNet, claims),
      byResource |-> [r \in Resource |->
        bare.byResource[r] \cup { n \in DOMAIN claims : r \in claims[n] }]]

\* _restore_state of the coordinators: everything out, the given claims in
Reload(ledger, claims) == Commit(RipUp(ledger, DOMAIN ledger.byNet), claims)

NewLedger(claims) ==
  [byNet |-> claims,
   byResource |-> [r \in Resource |-> { n \in DOMAIN claims : r \in claims[n] }]]

Overused(ledger) ==
  { r \in Resource : Cardinality(ledger.byResource[r]) > 1 }

OveruseUnits(ledger, r) == Cardinality(ledger.byResource[r]) - 1

\* the units of all the resources: their claims, less one for each
TotalUnits(ledger, resources) ==
  Cardinality({ p \in resources \X Net : p[2] \in ledger.byResource[p[1]] })
    - Cardinality(resources)

\* the largest number of units: how many numbers some resource reaches
LargestUnits(ledger) ==
  Cardinality({ k \in 1 .. Cardinality(Net) :
                  \E r \in Resource : OveruseUnits(ledger, r) >= k })

\* _objective of a complete pass
Objective(ledger) ==
  << TotalUnits(ledger, Overused(ledger)), Cardinality(Overused(ledger)),
     LargestUnits(ledger) >>

Smaller(a, b) ==
  \E i \in 1 .. 3 : a[i] < b[i] /\ \A j \in 1 .. i - 1 : a[j] = b[j]

(***************************************************************************)
(* What a user of the ledger relies on: the two indexes say the same, and  *)
(* no resource is claimed twice (stated on the claims, not on the index).  *)
(***************************************************************************)
Indexed(ledger) ==
  \A r \in Resource :
    ledger.byResource[r] =
      { n \in DOMAIN ledger.byNet : r \in ledger.byNet[n] }

ZeroOveruse(claims) ==
  \A m, n \in DOMAIN claims : m # n => claims[m] \cap claims[n] = {}

================================================================================
