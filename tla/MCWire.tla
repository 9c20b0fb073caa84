------------------------------- MODULE MCWire -------------------------------
(***************************************************************************)
(* The transport for TLC.                                                  *)
(***************************************************************************)
EXTENDS WireProperties

Votes == {[type |-> MsgRequestVoteArgs,
           args |-> [Term |-> 4, CandidateID |-> 3, LastLogIndex |-> 2, LastLogTerm |-> 1]]}

AppendOf(entries) ==
    [type |-> MsgAppendEntriesArgs,
     args |-> [Term |-> 5, LeaderID |-> 2, PrevLogIndex |-> 7, PrevLogTerm |-> 4,
               Entries |-> entries, LeaderCommit |-> 6]]

Record(index, text) == [Term |-> 5, Index |-> index, Data |-> text]

Noop == <<"no-op">>

\* No entry, every pair a client may send, and two entries of unlike length.
Appends ==
    {AppendOf(<<>>)}
      \cup {AppendOf(<<Record(8, FormatSet(key, value))>>) : key, value \in Text}
      \cup {AppendOf(<<Record(8, Noop), Record(9, FormatSet(<<"a">>, <<"=">>))>>),
            AppendOf(<<Record(8, FormatSet(<<>>, <<"a", "a">>)), Record(9, Noop)>>)}

\* Maps of no, one and two keys.
Maps ==
    {<<>>, <<"a">> :> <<"=", "a">>,
     (<<"a">> :> <<>>) @@ (<<"a", "a">> :> <<" ">>)}

Snapshots ==
    {[type |-> MsgInstallSnapshotArgs,
      args |-> [Term |-> 5, LeaderID |-> 2,
                Snapshot |-> [index |-> 7, term |-> 4, data |-> m]]] : m \in Maps}

MCRequest == Votes \cup Appends \cup Snapshots

=============================================================================
