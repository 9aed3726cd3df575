---- MODULE MCPtrQueue ----
\* The library is loaded with any environment; the queue of the first thread
\* is explored with the capacity of an environment that sets nothing.
EXTENDS PtrQueue, Env

MCInit == EnvInit /\ Init

MCNext ==
  /\ environ = Unset /\ g_forkscan_ptrs_per_thread = Capacity
  /\ Next
  /\ UNCHANGED envVars

MCSpec == MCInit /\ [][MCNext]_<<vars, envVars>>
====
