-------------------------------- MODULE Rpc --------------------------------
(***************************************************************************)
(* What the transport promises to the Raft nodes: a call is executed at    *)
(* most once, by a handler that gets what was sent, and the caller gets    *)
(* the handler's reply or an error.  After an error the call may have      *)
(* been executed, and may yet be.                                          *)
(***************************************************************************)
EXTENDS Sequences

CONSTANTS
    Conn,       \* the calls; each has a connection of its own
    Request,    \* what can be sent
    Reply(_),   \* the replies that a handler may give to a request
    None,       \* nothing yet
    Failed      \* the error that Send* returns

VARIABLES
    asked,      \* the request of a call
    handled,    \* its executions: request and reply
    result      \* what Send* returned

rpcVars == <<asked, handled, result>>

Invoke(c, r) ==
    /\ asked[c] = None
    /\ asked' = [asked EXCEPT ![c] = r]
    /\ UNCHANGED <<handled, result>>

Execute(c) ==
    /\ asked[c] # None /\ handled[c] = <<>>
    /\ \E reply \in Reply(asked[c]) :
          handled' = [handled EXCEPT ![c] = <<[request |-> asked[c], reply |-> reply]>>]
    /\ UNCHANGED <<asked, result>>

Answer(c) ==
    /\ handled[c] # <<>> /\ result[c] = None
    /\ result' = [result EXCEPT ![c] = handled[c][1].reply]
    /\ UNCHANGED <<asked, handled>>

Fail(c) ==
    /\ asked[c] # None /\ result[c] = None
    /\ result' = [result EXCEPT ![c] = Failed]
    /\ UNCHANGED <<asked, handled>>

RpcInit ==
    /\ asked = [c \in Conn |-> None]
    /\ handled = [c \in Conn |-> <<>>]
    /\ result = [c \in Conn |-> None]

RpcNext ==
    \E c \in Conn :
        (\E r \in Request : Invoke(c, r)) \/ Execute(c) \/ Answer(c) \/ Fail(c)

RpcSpec == RpcInit /\ [][RpcNext]_rpcVars

=============================================================================
