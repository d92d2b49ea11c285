------------------------------ MODULE Requests ------------------------------
(***************************************************************************)
(* How the backend runs its handlers, for the modules about single parts   *)
(* of it.  A handler is an async function: between two awaits it runs      *)
(* alone, at every await any other may run.  A call is a record with the   *)
(* operation, the place the handler has reached and what it has read.      *)
(***************************************************************************)
EXTENDS Naturals

CONSTANTS
    Handlers,           \* calls that may run at the same time
    Null,
    Workloads,          \* sets of operations; a behaviour makes calls of one set
    MaxCalls            \* bound on the calls of a behaviour

VARIABLES
    handler,            \* the call each handler is running
    calls,              \* how many have been made
    workload            \* the operations this behaviour calls

requests == <<handler, calls, workload>>

ASSUME CallsAssumption == MaxCalls \in Nat

\* A table with the row v under the id x.
With(table, x, v) == [y \in DOMAIN table \cup {x} |-> IF y = x THEN v ELSE table[y]]

Idle == [op |-> "none", pc |-> "idle"]

RequestsInit ==
    /\ handler = [h \in Handlers |-> Idle]
    /\ calls = 0
    /\ workload \in Workloads

Busy == {h \in Handlers : handler[h] # Idle}

At(h, op, pc) == handler[h].op = op /\ handler[h].pc = pc

AtAny(h, ops, pc) == handler[h].op \in ops /\ handler[h].pc = pc

\* Somebody asks for op.
Asked(op) ==
    /\ op \in workload
    /\ calls < MaxCalls /\ calls' = calls + 1
    /\ UNCHANGED workload

\* A call begins, with what it has read before its first write.
Begin(h, call) ==
    /\ h \notin Busy
    /\ Asked(call.op)
    /\ handler' = [handler EXCEPT ![h] = call]

Goto(h, call) ==
    /\ handler' = [handler EXCEPT ![h] = call]
    /\ UNCHANGED <<calls, workload>>

\* The handler returns or throws.
Return(h) == Goto(h, Idle)

\* A call that reads and writes with nothing in between that matters to others.
AtOnce(op) == Asked(op) /\ UNCHANGED handler
=============================================================================
