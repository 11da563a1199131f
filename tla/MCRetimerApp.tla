----------------------------- MODULE MCRetimerApp -----------------------------
(***************************************************************************)
(* RetimerApp for TLC.  When the application starts, retimer 0 has its      *)
(* objects, but its inventory object is new to the mapper; retimer 1 has    *)
(* nothing but its inventory object.                                        *)
(***************************************************************************)
EXTENDS RetimerApp, TLC

CONSTANTS a, b

MCIds == {a, b}

MCInit ==
    /\ sw = (0 :> [dev |-> a, ven |-> a] @@ 1 :> Absent)
    /\ fw = {0}
    /\ known = {<<"switch", 0>>, <<"software", 0>>, <<"asset", 1>>}
    /\ Init
MCSpec == MCInit /\ [][Next]_vars
MCFairSpec == MCSpec /\ Fairness

===============================================================================
