--------------------------- MODULE WireProperties ---------------------------
(***************************************************************************)
(* What the transport and the encodings guarantee.                         *)
(***************************************************************************)
EXTENDS Wire

CONSTANTS
    Character,  \* what keys and values are made of, "=" and " " included
    MaxText     \* bound: the length of a key or a value

ASSUME TextAssumption == MaxText \in Nat

Text == UNION {[1 .. n -> Character] : n \in 0 .. MaxText}

\* Every end is at one of its places, and what a handler is given and what a
\* caller gets are requests and replies, whatever bytes made them up.
WireTypeOK ==
    /\ asked \in [Conn -> Request \cup {None}]
    /\ link \in [Conn -> {"none", "open", "broken", "silent"}]
    /\ pc \in [Conn -> [End -> {"idle", "write", "read", "closed"}]]
    /\ \A c \in Conn :
          /\ \A p \in DOMAIN handled[c] : /\ handled[c][p].request \in Request
                                          /\ handled[c][p].reply \in Reply(asked[c])
          /\ result[c] \in {None, Failed} \/ result[c] \in Reply(asked[c])

\* A call is executed at most once, with the arguments that were sent, and
\* returns the reply of that execution or an error, wherever in the two
\* frames the connection breaks (writeMessage, readMessage, handleConnection,
\* the encoders and decoders of rpc.go, wal.go and snapshot.go).
Promised == INSTANCE Rpc

ImplementsRpc == Promised!RpcSpec

\* Send* returns and the goroutine of the connection ends, unless the
\* connection goes silent: there is no deadline for a read or a write
\* (transport.go:85, 111, 140, 171).
CallsEnd ==
    \A c \in Conn :
        asked[c] # None ~>
            \/ result[c] # None /\ pc[c]["server"] = "closed"
            \/ link[c] = "silent"

\* Apply can take "set key=value" apart again.
Plain(key, value) ==
    /\ \A p \in DOMAIN key : key[p] \notin {" ", "="}
    /\ \A p \in DOMAIN value : value[p] # " "

\* A pair that HandleSet has put into a command, and that has travelled to a
\* follower in an AppendEntries, sets exactly that key to that value there if
\* the key has neither space nor "=" and the value no space, and otherwise
\* never does (httpapi.go:50, StateMachine.Apply).
SetIsApplied ==
    \A c \in Conn : \A h \in Range(handled[c]) :
        asked[c].type = MsgAppendEntriesArgs =>
            \A p \in DOMAIN asked[c].args.Entries : \A key, value \in Text :
                asked[c].args.Entries[p].Data = FormatSet(key, value) =>
                    (Apply(<<>>, h.request.args.Entries[p].Data) = [k \in {key} |-> value])
                        <=> Plain(key, value)

=============================================================================
