------------------------------ MODULE Requests ------------------------------
(***************************************************************************)
(* The request threads of one server process (api/main.py).  A handler is  *)
(* a plain function that FastAPI runs in a thread of its own; the modules  *)
(* that extend this one say what the handlers of a component do.           *)
(***************************************************************************)
EXTENDS Integers, Sequences, FiniteSets

CONSTANT Thread

ASSUME ThreadsAssumption == IsFiniteSet(Thread)

VARIABLES
    handler, \* handler[t]: what thread t was asked to do, a record with its kind
    at,      \* at[t]: how far the handler is
    now      \* the clock of the server and of the database

Kind(t) == handler[t].kind
At(t, point) == at[t] = point
GoTo(t, point) == at' = [at EXCEPT ![t] = point]
Finish(t) == GoTo(t, "done")
=============================================================================
