------------------------------ MODULE HttpApi ------------------------------
(***************************************************************************)
(* The service that clients see: the Raft nodes together with the HTTP     *)
(* handlers of httpapi/httpapi.go, as cmd/server/main.go wires them.       *)
(* HandleSet takes r.mu twice, for IsLeader and then for LeaderID or       *)
(* Propose, and anything may happen in between.  Lines typed at a node's   *)
(* standard input are Propose of Raft.                                     *)
(*                                                                         *)
(* Crashes and lost calls are bounded, so that faults end: what must       *)
(* happen eventually is asked of the time after them.                      *)
(***************************************************************************)
EXTENDS Raft

CONSTANTS
    Client,   \* the requests; each is made at most once
    Mortal,   \* the nodes whose process may be killed
    MaxLost   \* bound: calls lost on the way

ASSUME HttpAssumption == Mortal \subseteq Server /\ MaxLost \in Nat

VARIABLES
    request,   \* where a request is and what was answered
    lost       \* how many calls have been lost

httpVars == <<request, lost>>
allVars == <<vars, httpVars>>

-----------------------------------------------------------------------------
(* Requests.                                                               *)

\* at: not made yet; LeaderID or Propose is next; answered; or lost with the
\* process that was to answer it.
Pending == {"LeaderID", "Propose"}

SetRequest ==
    [at : {"new", "proposed", "refused", "lost"}]
      \cup [at : Pending, to : Server, inc : Nat, command : Command]
      \cup [at : {"redirected"}, to : Server, leaderID : Server \cup {Nil}]

\* A client sends /set to a node, which asks IsLeader.
IsLeader(c, i, command) ==
    /\ request[c].at = "new"
    /\ alive[i]
    /\ request' = [request EXCEPT ![c] =
          [at |-> IF state[i] = Leader THEN "Propose" ELSE "LeaderID",
           to |-> i, inc |-> incarnation[i], command |-> command]]
    /\ UNCHANGED <<vars, lost>>

\* The process that got the request still runs.
Served(c) ==
    /\ request[c].at \in Pending
    /\ alive[request[c].to]
    /\ incarnation[request[c].to] = request[c].inc

\* Slip: the answer names the term, a uint64 as well.
LeaderTerm(c) ==
    LET i == request[c].to
    IN  /\ Served(c) /\ request[c].at = "LeaderID"
        /\ request' = [request EXCEPT ![c] =
                          [at |-> "redirected", to |-> i, leaderID |-> currentTerm[i]]]
        /\ UNCHANGED <<vars, lost>>

\* 421: not the leader; try node leaderID.
LeaderID(c) ==
    LET i == request[c].to
    IN  /\ Served(c) /\ request[c].at = "LeaderID"
        /\ request' = [request EXCEPT ![c] =
                          [at |-> "redirected", to |-> i, leaderID |-> leaderID[i]]]
        /\ UNCHANGED <<vars, lost>>

\* 200: proposed at an index.
ProposeAccepted(c) ==
    /\ Served(c) /\ request[c].at = "Propose"
    /\ Propose(request[c].to, request[c].command)
    /\ request' = [request EXCEPT ![c] = [at |-> "proposed"]]
    /\ UNCHANGED lost

\* Slip: the handler waits until its node leads again.
ProposeWaits(c) ==
    Served(c) /\ request[c].at = "Propose" /\ UNCHANGED allVars

\* 500: leadership was lost since IsLeader.
ProposeRefused(c) ==
    /\ Served(c) /\ request[c].at = "Propose"
    /\ state[request[c].to] # Leader
    /\ request' = [request EXCEPT ![c] = [at |-> "refused"]]
    /\ UNCHANGED <<vars, lost>>

\* The process is gone and the connection with it.
Reset(c) ==
    /\ request[c].at \in Pending /\ ~Served(c)
    /\ request' = [request EXCEPT ![c] = [at |-> "lost"]]
    /\ UNCHANGED <<vars, lost>>

HandleSet(c) == LeaderID(c) \/ ProposeAccepted(c) \/ ProposeRefused(c) \/ Reset(c)

-----------------------------------------------------------------------------
(* The nodes around them.                                                  *)

\* A call fails.
CallLost(c) ==
    /\ InTime(c) /\ Lose(c)
    /\ lost < MaxLost
    /\ lost' = lost + 1
    /\ UNCHANGED request

\* So does one whose goroutine has left it too late to go on.
CallTooLate(c) == ~InTime(c) /\ Lose(c)

Nodes ==
    \/ Election \/ Replication \/ SnapshotTransfer
    \/ \E i \in Mortal : Crash(i)
    \/ \E i \in Server : Start(i)
    \/ \E c \in UnderWay : CallTooLate(c)

-----------------------------------------------------------------------------
HttpInit ==
    /\ Init
    /\ request = [c \in Client |-> [at |-> "new"]]
    /\ lost = 0

Http ==
    \E c \in Client : \/ \E i \in Server, command \in Command : IsLeader(c, i, command)
                      \/ HandleSet(c)

HttpNext ==
    \/ Http
    \/ \E c \in UnderWay : CallLost(c)
    \/ Nodes /\ UNCHANGED httpVars

\* The next step of a replication call: of its goroutine, or of the handler
\* on the other side.
CallGoesOn ==
    /\ \/ SnapshotTransfer
       \/ \E c \in UnderWay :
             \/ SendAppendEntries(c)
             \/ AppendStale(c) \/ AppendMismatch(c) \/ AppendTruncateFails(c)
             \/ AppendGap(c) \/ AppendAccept(c)
             \/ AppendReplyStepDown(c) \/ AppendSucceeded(c) \/ AppendFailed(c)
             \/ CallTooLate(c)
    /\ UNCHANGED httpVars

\* Handlers and goroutines that can run do run, tickers tick, and a process
\* that died is started again.
Fairness ==
    /\ \A c \in Client : WF_allVars(HandleSet(c))
    /\ \A i \in Server :
          /\ WF_allVars(Start(i) /\ UNCHANGED httpVars)
          /\ WF_allVars(HeartBeat(i) /\ UNCHANGED httpVars)
          /\ WF_allVars((\E g \in loops[i] : HeartBeatExit(i, g)) /\ UNCHANGED httpVars)
    /\ WF_allVars(CallGoesOn)

HttpSpec == HttpInit /\ [][HttpNext]_allVars /\ Fairness

=============================================================================
