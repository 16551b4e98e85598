------------------------------ MODULE MC_Demos ------------------------------
(***************************************************************************)
(* TLC instances of Demos: the sessions of the menu's user.                *)
(***************************************************************************)
EXTENDS Demos

\* Demos after one another, one that ends in a deadlock first.
MCSessions == {<<"philosophers">>,
               <<"deadlock", "readers_writers">>,
               <<"deadlock", "run", "deadlock_avoid">>,
               <<"create", "mutex", "semaphore">>,
               <<"create", "run", "condition", "producer_consumer">>}

\* A thread is created before the philosophers, or they dine twice.
LateSessions == {<<"create", "philosophers">>, <<"philosophers", "philosophers">>}
=============================================================================
