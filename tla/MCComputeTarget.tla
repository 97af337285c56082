-------------------------- MODULE MCComputeTarget --------------------------
\* Grid points whose N_total lies between two multiples of the step (25), on one
\* whose float is larger (20, up), and past the end of inflation (35)
EXTENDS ComputeTarget

Point(dNstar, up) == [N_init |-> 30, N_final |-> 20, delta_Nstar |-> dNstar, up |-> up]
MCTasks == {Point(15, 0), Point(10, 1), Point(25, 0)}
MCShapes == {<<4, 3, 5, 3, 3>>, <<3, 3, -11, 2, 1>>}
MCLevels == {0, 1}
=============================================================================
