--------------------------- MODULE MCBusTransaction ----------------------------
(***************************************************************************)
(* A bus of two nets and one ordinary net over three resources. A route    *)
(* claims one resource. At most three passes, one of them without progress *)
(* (which ends the run); one unit of work in all.                          *)
(***************************************************************************)
EXTENDS BusTransaction

CONSTANTS m1, m2, f, r1, r2, r3, a, b, c, bus, single

MCNet      == {m1, m2, f}
MCResource == {a, b, c}
MCRoute    == {r1, r2, r3}
MCOccupies == [r \in MCRoute |-> CASE r = r1 -> {a} [] r = r2 -> {b} [] r = r3 -> {c}]
MCTarget   == {bus, single}
MCNets     == [t \in MCTarget |-> IF t = bus THEN {m1, m2} ELSE {f}]
MCRank     == [t \in MCTarget |-> IF t = bus THEN 1 ELSE 2]
MCStray    == { << m1, r1 >>, << f, r1 >> }
MCStanding == {{b, c}}

================================================================================
