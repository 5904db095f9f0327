------------------------------ MODULE MCBoardJob ------------------------------
(* Jobs for TLC: two build operations without time, or one and a verification
   with clocks. *)
EXTENDS BoardJob, TLC

CONSTANTS u1, u2, i1, i2, i3, d1, d2

MCDesign == (i1 :> d1) @@ (i2 :> d1) @@ (i3 :> d2)

InputSymmetry == Permutations({i1, i3})

Wall    == [exec |-> 6, reserve |-> 2, eval |-> 0]
Clocks  == [exec |-> 2, reserve |-> 1, eval |-> 1]

MCWall   == {Wall}
MCClocks == {Clocks}

\* An attempt passes or fails; with clocks it fails or is cut short.
MCResults  == {<< "passed", NoSignature >>, << "failed", "error" >>}
MCTimeouts == {<< "failed", "error" >>, << "stopped", "error" >>}

Ask(builds, retry, resolution, retrospective, auth, action, allowance) ==
  [builds |-> builds, retry |-> retry, resolution |-> resolution,
   retrospective |-> retrospective, auth |-> auth, action |-> action, allowance |-> allowance]

\* Another edit; recoveries that may retry the edit or the routing that failed.
MCWallRequests ==
  { Ask({"edit"}, {}, FALSE, FALSE, u1, "local_edit", Wall),
    Ask({"routing"}, {"routing"}, TRUE, FALSE, u1, "local_edit", Wall),
    Ask({"edit"}, {"edit"}, TRUE, FALSE, u2, "local_edit", Wall) }

\* The retry of a routing; its scope gets a first edit by a local correction.
MCRoutingRequests == { Ask({"routing"}, {"routing"}, TRUE, FALSE, u1, "local_edit", Wall) }

\* The retry of a routing, and a verification, after a review in time or a missed one.
MCClocksRequests ==
  { Ask({"routing"}, {"routing"}, TRUE, FALSE, u1, "local_edit", Clocks),
    Ask({}, {}, TRUE, TRUE, u2, "local_edit", Clocks) }
===============================================================================
