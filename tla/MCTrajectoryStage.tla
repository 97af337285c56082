------------------------- MODULE MCTrajectoryStage -------------------------
EXTENDS TrajectoryStage
CONSTANTS m1, m2

\* Two masses far apart, a phi that another run rounds differently, a class of
\* each kind of look-up
MCStartup ==
    <<[cls |-> "tolerance", key |-> -8], [cls |-> "phi_value", key |-> 20],
      [cls |-> "alpha_regularization", key |-> 0],
      [cls |-> "inflaton_mass", key |-> 20], [cls |-> "inflaton_mass", key |-> 40],
      [cls |-> "QuadraticPotential", key |-> 4], [cls |-> "QuadraticPotential", key |-> 5],
      [cls |-> "MasslessDecoupledDiffusion", key |-> "any"]>>
MCPotential == (m1 :> 6) @@ (m2 :> 7)
MCNEnd == (m1 :> 20) @@ (m2 :> 40)
MCSolvers == <<"RK45", "LSODA">>
MCDropRequests == {{}, {"inflaton-trajectory"}, DOMAIN DropGroups}
=============================================================================
