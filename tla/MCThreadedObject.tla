-------------------------- MODULE MCThreadedObject --------------------------
(* ThreadedObject with two client threads beside the worker, three tasks.  *)
EXTENDS ThreadedObject

CONSTANTS c1, c2, t1, t2, t3

MCClients == {c1, c2}
MCTasks == {t1, t2, t3}
=============================================================================
