------------------------------ MODULE MCEmission ------------------------------
(* Instances of EmissionSources for TLC.                                     *)
EXTENDS EmissionSources, TLC

CONSTANTS gun, halo   \* containers

\* Two inventories with an emission step of 2 and a flat-top beside the first.
ThreeCapacity == (gun :> 2) @@ (halo :> 2)
ThreeFeeds    == <<gun, halo, gun>>
ThreeT0       == <<0, 2, 0>>
TwoPulses     == <<<<4, 0, 4, 4>>, <<3, -1, 1, 9>>>>
TwoRequested  == <<0, 3>>
EqualSteps    == <<2, 2>>
Third         == {3}
ThirdWindow   == 3 :> 2
ThirdTotal    == 3 :> 3

\* The same inventories alone, the first with the finer emission step.
PairCapacity  == (gun :> 4) @@ (halo :> 4)
PairFeeds     == <<gun, halo>>
PairT0        == <<0, 2>>
UnequalSteps  == <<4, 1>>
NoProfile     == {}
NoFunction    == [s \in {} |-> 0]
=============================================================================
