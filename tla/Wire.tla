-------------------------------- MODULE Wire --------------------------------
(***************************************************************************)
(* transport/transport.go: one TCP connection per call.  The client dials, *)
(* writes a frame in three writes and waits for a frame; the goroutine of  *)
(* the connection on the other side reads a frame, decodes it, runs the    *)
(* handler of the Raft node and writes the frame of the reply.             *)
(*                                                                         *)
(* A connection may break, with an error at both ends, or go silent: the   *)
(* other machine or the network is gone and no packet says so.  In both    *)
(* cases any part of what is on the way may still arrive.                  *)
(***************************************************************************)
EXTENDS Encoding

CONSTANTS
    Conn,        \* the calls; each has a connection of its own
    Request,     \* what the Raft nodes send
    ReplyTerm,   \* the terms of replies
    None,        \* nothing yet
    Failed       \* the error that Send* returns

VARIABLES
    asked,    \* the request of a call
    handled,  \* the executions of its handler: request and reply
    result,   \* what Send* returned
    link,     \* the state of the connection
    pc,       \* where client and server are
    toWrite,  \* the parts of the frame that an end has yet to write
    inbound,  \* the cells that an end has not read yet
    got       \* the parts of the frame that an end has read

callVars == <<asked, handled, result>>
vars == <<callVars, link, pc, toWrite, inbound, got>>

End == {"client", "server"}
Other(e) == IF e = "client" THEN "server" ELSE "client"

-----------------------------------------------------------------------------
(* Requests and replies.                                                   *)

MsgRequestVoteArgs == 1
MsgRequestVoteReply == 2
MsgAppendEntriesArgs == 3
MsgAppendEntriesReply == 4
MsgInstallSnapshotArgs == 5
MsgInstallSnapshotReply == 6

\* The arguments as rpc.go declares them; where it has the encoded snapshot,
\* a request still has the snapshot itself.
IsVote(r) ==
    r \in [type : {MsgRequestVoteArgs},
          args : [Term : Nat, CandidateID : Nat, LastLogIndex : Nat, LastLogTerm : Nat]]

IsAppend(r) ==
    r \in [type : {MsgAppendEntriesArgs},
          args : [Term : Nat, LeaderID : Nat, PrevLogIndex : Nat, PrevLogTerm : Nat,
                  Entries : Seq([Term : Nat, Index : Nat, Data : Seq(STRING)]),
                  LeaderCommit : Nat]]

IsInstall(r) ==
    LET keys == DOMAIN r.args.Snapshot.data
    IN  /\ r \in [type : {MsgInstallSnapshotArgs},
                 args : [Term : Nat, LeaderID : Nat,
                         Snapshot : [index : Nat, term : Nat, data : [keys -> Seq(STRING)]]]]
        /\ keys \subseteq Seq(STRING) /\ IsFiniteSet(keys)

ASSUME WireAssumption ==
    /\ Failed # None /\ None \notin Request
    /\ \A r \in Request : IsVote(r) \/ IsAppend(r) \/ IsInstall(r)

\* The frames a request may become: a snapshot is encoded in any map order.
EncodeRequest(r) ==
    IF r.type = MsgRequestVoteArgs THEN {EncodeStruct(RequestVoteArgs, r.args)}
    ELSE IF r.type = MsgAppendEntriesArgs THEN {EncodeAppendEntriesArgs(r.args)}
    ELSE LET s == r.args.Snapshot
         IN  {EncodeInstallSnapshotArgs(
                 [Term |-> r.args.Term, LeaderID |-> r.args.LeaderID,
                  LastIncludedIndex |-> s.index, LastIncludedTerm |-> s.term,
                  Data |-> EncodeSnapshot(s, order)]) :
              order \in SetToSeqs(DOMAIN s.data)}

\* handleConnection decodes by type; HandleInstallSnapshot decodes Data.
DecodeRequest(type, payload) ==
    LET args == IF type = MsgRequestVoteArgs THEN DecodeStruct(RequestVoteArgs, payload)
                ELSE IF type = MsgAppendEntriesArgs THEN DecodeAppendEntriesArgs(payload)
                ELSE IF type = MsgInstallSnapshotArgs THEN DecodeInstallSnapshotArgs(payload)
                ELSE Malformed
        snapshot == DecodeSnapshot(args.value.Data)
    IN  IF ~args.ok THEN Malformed
        ELSE IF type # MsgInstallSnapshotArgs
             THEN Decoded([type |-> type, args |-> args.value])
        ELSE IF ~snapshot.ok THEN Malformed
        ELSE Decoded([type |-> type,
                      args |-> [Term |-> args.value.Term,
                                LeaderID |-> args.value.LeaderID,
                                Snapshot |-> snapshot.value]])

ReplyType(type) == type + 1

ReplyFields(type) ==
    IF type = MsgRequestVoteReply THEN RequestVoteReply
    ELSE IF type = MsgAppendEntriesReply THEN AppendEntriesReply
    ELSE InstallSnapshotReply

\* What the handlers of the Raft node may return.
Reply(r) ==
    IF r.type = MsgRequestVoteArgs
    THEN [Term : ReplyTerm, VoteGranted : BOOLEAN]
    ELSE IF r.type = MsgAppendEntriesArgs
    THEN [Term : ReplyTerm, Success : BOOLEAN, ConflictTerm : {0},
          ConflictIndex : ReplyTerm \cup {0}]
    ELSE [Term : ReplyTerm]

-----------------------------------------------------------------------------
(* writeMessage and readMessage.                                           *)

\* Slip: the length also counts the type.
FrameTooLong(type, payload) == <<<<type>>, <<Len(payload) + 1>>, payload>>

\* The three writes of a frame: [type][length][payload].
Frame(type, payload) == <<<<type>>, <<Len(payload)>>, payload>>

\* How many cells the next io.ReadFull waits for.
Needed(parts) == IF Len(parts) < 2 THEN 1 ELSE parts[2][1]

\* Nothing more will arrive at e, and e can tell.
AtEnd(c, e) == link[c] = "broken" \/ pc[c][Other(e)] = "closed"

\* The writes still reach the other end.
Connected(c, e) == link[c] = "open" /\ pc[c][Other(e)] # "closed"

\* The server's goroutine just ends; Send* returns an error.
GiveUp(c, e) ==
    /\ pc' = [pc EXCEPT ![c][e] = "closed"]
    /\ result' = IF e = "client" THEN [result EXCEPT ![c] = Failed] ELSE result

\* After its frame the client waits for the reply; the server is done.
WritePart(c, e) ==
    /\ pc[c][e] = "write"
    /\ inbound' = IF Connected(c, e)
                  THEN [inbound EXCEPT ![c][Other(e)] = @ \o Head(toWrite[c][e])]
                  ELSE inbound
    /\ toWrite' = [toWrite EXCEPT ![c][e] = Tail(@)]
    /\ pc' = [pc EXCEPT ![c][e] = IF Len(toWrite[c][e]) > 1 THEN @
                                  ELSE IF e = "client" THEN "read" ELSE "closed"]
    /\ UNCHANGED <<callVars, link, got>>

\* A write on a connection that is broken, or closed by the other end.
WriteFails(c, e) ==
    /\ pc[c][e] = "write"
    /\ AtEnd(c, e)
    /\ GiveUp(c, e)
    /\ UNCHANGED <<asked, handled, link, toWrite, inbound, got>>

ReadPart(c, e) ==
    LET n == Needed(got[c][e])
    IN  /\ pc[c][e] = "read" /\ Len(got[c][e]) < 3
        /\ Len(inbound[c][e]) >= n
        /\ got' = [got EXCEPT ![c][e] = Append(@, SubSeq(inbound[c][e], 1, n))]
        /\ inbound' = [inbound EXCEPT ![c][e] = SubSeq(@, n + 1, Len(@))]
        /\ UNCHANGED <<callVars, link, pc, toWrite>>

\* ReadFull comes to the end of the stream too early.
ReadFails(c, e) ==
    /\ pc[c][e] = "read" /\ Len(got[c][e]) < 3
    /\ Len(inbound[c][e]) < Needed(got[c][e])
    /\ AtEnd(c, e)
    /\ GiveUp(c, e)
    /\ UNCHANGED <<asked, handled, link, toWrite, inbound, got>>

-----------------------------------------------------------------------------
(* The client: SendRequestVote, SendAppendEntries, SendInstallSnapshot.    *)

Dial(c, r) ==
    /\ asked[c] = None
    /\ asked' = [asked EXCEPT ![c] = r]
    /\ link' = [link EXCEPT ![c] = "open"]
    /\ \E payload \in EncodeRequest(r) :
          toWrite' = [toWrite EXCEPT ![c]["client"] = Frame(r.type, payload)]
    /\ pc' = [pc EXCEPT ![c]["client"] = "write"]
    /\ UNCHANGED <<handled, result, inbound, got>>

\* The peer refuses, or does not answer within 200 ms: the client gives up
\* on a connection that the listener may have accepted.
DialFails(c) ==
    /\ pc[c]["client"] = "write" /\ Len(toWrite[c]["client"]) = 3
    /\ GiveUp(c, "client")
    /\ UNCHANGED <<asked, handled, link, toWrite, inbound, got>>

\* The type of the reply is checked, then it is decoded.
Return(c) ==
    LET parts == got[c]["client"]
        type == parts[1][1]
        reply == DecodeStruct(ReplyFields(type), parts[3])
    IN  /\ pc[c]["client"] = "read" /\ Len(parts) = 3
        /\ result' = [result EXCEPT ![c] =
                         IF type = ReplyType(asked[c].type) /\ reply.ok
                         THEN reply.value ELSE Failed]
        /\ pc' = [pc EXCEPT ![c]["client"] = "closed"]
        /\ UNCHANGED <<asked, handled, link, toWrite, inbound, got>>

-----------------------------------------------------------------------------
(* The server: StartServer and handleConnection.                           *)

Accept(c) ==
    /\ link[c] # "none" /\ pc[c]["server"] = "idle"
    /\ pc' = [pc EXCEPT ![c]["server"] = "read"]
    /\ UNCHANGED <<callVars, link, toWrite, inbound, got>>

\* The frame is complete: decode, run the handler, prepare its reply.  An
\* unknown type or malformed arguments end the connection.
Handle(c) ==
    LET type == got[c]["server"][1][1]
        request == DecodeRequest(type, got[c]["server"][3])
        replyFields == ReplyFields(ReplyType(type))
    IN  /\ pc[c]["server"] = "read" /\ Len(got[c]["server"]) = 3
        /\ IF ~request.ok
           THEN /\ pc' = [pc EXCEPT ![c]["server"] = "closed"]
                /\ UNCHANGED <<handled, toWrite>>
           ELSE /\ \E reply \in Reply(request.value) :
                      /\ handled' = [handled EXCEPT ![c] =
                             Append(@, [request |-> request.value, reply |-> reply])]
                      /\ toWrite' = [toWrite EXCEPT ![c]["server"] =
                             Frame(ReplyType(type), EncodeStruct(replyFields, reply))]
                /\ pc' = [pc EXCEPT ![c]["server"] = "write"]
        /\ UNCHANGED <<asked, result, link, inbound, got>>

-----------------------------------------------------------------------------
(* The network and the processes.                                          *)

\* What is on the way arrives up to some point.
Disrupt(c, how) ==
    /\ link[c] = "open"
    /\ link' = [link EXCEPT ![c] = how]
    /\ \E m \in 0 .. Len(inbound[c]["client"]), n \in 0 .. Len(inbound[c]["server"]) :
          inbound' = [inbound EXCEPT ![c] =
                         [client |-> SubSeq(@["client"], 1, m),
                          server |-> SubSeq(@["server"], 1, n)]]
    /\ UNCHANGED <<callVars, toWrite, got>>

Break(c) == Disrupt(c, "broken") /\ UNCHANGED pc

GoSilent(c) == Disrupt(c, "silent") /\ UNCHANGED pc

\* The process of the server dies.
ServerDies(c) ==
    /\ Disrupt(c, "broken")
    /\ pc' = [pc EXCEPT ![c]["server"] = "closed"]

-----------------------------------------------------------------------------
Init ==
    /\ asked = [c \in Conn |-> None]
    /\ handled = [c \in Conn |-> <<>>]
    /\ result = [c \in Conn |-> None]
    /\ link = [c \in Conn |-> "none"]
    /\ pc = [c \in Conn |-> [e \in End |-> "idle"]]
    /\ toWrite = [c \in Conn |-> [e \in End |-> <<>>]]
    /\ inbound = [c \in Conn |-> [e \in End |-> <<>>]]
    /\ got = [c \in Conn |-> [e \in End |-> <<>>]]

Transfer(c, e) ==
    WritePart(c, e) \/ WriteFails(c, e) \/ ReadPart(c, e) \/ ReadFails(c, e)

Client(c) == Transfer(c, "client") \/ Return(c)

Server(c) == Accept(c) \/ Transfer(c, "server") \/ Handle(c)

Network(c) == Break(c) \/ GoSilent(c) \/ ServerDies(c)

Next ==
    \E c \in Conn : \/ \E r \in Request : Dial(c, r)
                    \/ DialFails(c) \/ Client(c) \/ Server(c) \/ Network(c)

\* Goroutines that can run do run; the network owes nothing.
Fairness == \A c \in Conn : WF_vars(Client(c)) /\ WF_vars(Server(c))

Spec == Init /\ [][Next]_vars /\ Fairness

=============================================================================
