------------------------------ MODULE ExecuteOnce ------------------------------
(***************************************************************************)
(* What the effect recorder promises its clients, without processes,       *)
(* crashes, connections or a journal file: each attempt has one durable    *)
(* status that only moves forward, its effect begins once and only after   *)
(* the start is durable, and what a client is told is the durable status.  *)
(***************************************************************************)
EXTENDS Naturals

CONSTANTS
    Attempts,
    Reconciles      \* may clients ask for a reconciliation?

VARIABLES
    status,     \* the durable status of each attempt
    begun,      \* how often the effect of each attempt has begun
    answered    \* the definitive evidence each attempt's clients have seen

vars == <<status, begun, answered>>

Final == {"Present", "Absent"}

Init ==
    /\ status = [a \in Attempts |-> "none"]
    /\ begun = [a \in Attempts |-> 0]
    /\ answered = [a \in Attempts |-> {}]

Accept(a) ==
    /\ status[a] = "none"
    /\ status' = [status EXCEPT ![a] = "Accepted"]
    /\ UNCHANGED <<begun, answered>>

Start(a) ==
    /\ status[a] = "Accepted"
    /\ status' = [status EXCEPT ![a] = "InvocationStarted"]
    /\ UNCHANGED <<begun, answered>>

\* The provider's write begins; a reconciliation may already have been recorded.
Begin(a) ==
    /\ begun[a] = 0
    /\ \/ status[a] = "InvocationStarted"
       \/ Reconciles /\ status[a] \in Final \cup {"Unknown"}
    /\ begun' = [begun EXCEPT ![a] = 1]
    /\ UNCHANGED <<status, answered>>

\* The outcome of the execution, or what a reconciliation found.  Only a
\* reconciliation resolves an attempt that did not start or is unknown, and only
\* a reconciliation may call absent what has begun.  The client of this request
\* may be told at once.
Resolve(a) ==
    /\ \/ status[a] = "InvocationStarted"
       \/ Reconciles /\ status[a] \in {"Accepted", "Unknown"}
    /\ \E kind \in Final \cup {"Unknown"} :
         /\ kind = "Absent" => begun[a] = 0 \/ Reconciles
         /\ status' = [status EXCEPT ![a] = kind]
         /\ answered' \in {answered, [answered EXCEPT ![a] = @ \cup ({kind} \cap Final)]}
    /\ UNCHANGED begun

Reply(a) ==
    /\ status[a] \in Final
    /\ answered' = [answered EXCEPT ![a] = @ \cup {status[a]}]
    /\ UNCHANGED <<status, begun>>

Next == \E a \in Attempts : Accept(a) \/ Start(a) \/ Begin(a) \/ Resolve(a) \/ Reply(a)

Spec == Init /\ [][Next]_vars

=============================================================================
