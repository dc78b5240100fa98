-------------------------- MODULE MCDockerSandbox --------------------------
(* Model checking of DockerSandbox: two executions at once, as many        *)
(* containers as are needed for one to expire, one to leak and one to die, *)
(* a timeout longer than the period of the timer, and one not a multiple.  *)
EXTENDS DockerSandbox, TLC

Symmetry == Permutations(Containers) \union Permutations(Execs)
=============================================================================
