--------------------------- MODULE MCMemoryRender ---------------------------
(***************************************************************************)
(* Model checking of MemoryRender: users and videos are model values that  *)
(* occur only in quantifiers and as indices, so videos are symmetric where *)
(* only safety is checked.  For safety one of two parts is chosen at the   *)
(* start: one video under every fault, or two videos with a broker that    *)
(* does not fail for a shorter time, with the quota at its limit.          *)
(***************************************************************************)
EXTENDS MemoryRender, TLC

CONSTANT PairTime   \* bound: the last instant of the clock with two videos

VARIABLE part   \* the part that runs

SafetyInit == Init /\ part \in {"faults", "pair"}

SafetyNext ==
    /\ UNCHANGED part
    /\ \/ /\ part = "faults" /\ Next
          /\ \E only \in Videos : \A v \in Videos \ {only} : row'[v].status = "absent"
          /\ \A v \in Videos : row'[v].owner = Captain
       \/ /\ part = "pair"
          /\ \/ Request \/ Work \/ Sweep \/ Tick
             \/ \E j \in jobs : Publish(j)
             \/ \E m \in Messages : Claim(m) \/ Ignore(m)
          /\ clock' <= PairTime

SafetySpec == SafetyInit /\ [][SafetyNext]_<<part, vars>>

Symmetry == Permutations(Videos)
=============================================================================
