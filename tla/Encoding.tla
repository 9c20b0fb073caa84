------------------------------ MODULE Encoding ------------------------------
(***************************************************************************)
(* What jin-kv makes of its data on the wire and in its files: commands as *)
(* text (httpapi, StateMachine.Apply), log entries (wal/wal.go), snapshots *)
(* (raft/snapshot.go) and the arguments and replies of the three RPCs      *)
(* (rpc/rpc.go).                                                           *)
(*                                                                         *)
(* Bytes are sequences of cells.  A cell is a number, a flag or a          *)
(* character, and a length counts cells.  A decoder returns the record     *)
(* and "ok", or ok = FALSE where the code returns an error.                *)
(***************************************************************************)
EXTENDS Integers, FiniteSets, SequencesExt

Malformed == [ok |-> FALSE]
Decoded(value) == [ok |-> TRUE, value |-> value]

-----------------------------------------------------------------------------
(* Commands.  The word "set" is one character.                             *)

FormatSet(key, value) == <<"set", " ">> \o key \o <<"=">> \o value

\* strings.Fields: where the words of a text begin and end.
Words(text) ==
    {w \in (1 .. Len(text)) \X (1 .. Len(text)) :
        /\ w[1] <= w[2]
        /\ \A p \in w[1] .. w[2] : text[p] # " "
        /\ w[1] = 1 \/ text[w[1] - 1] = " "
        /\ w[2] = Len(text) \/ text[w[2] + 1] = " "}

Put(data, key, value) ==
    [k \in DOMAIN data \cup {key} |-> IF k = key THEN value ELSE data[k]]

\* Slip: a value that contains "=" is malformed.
ApplySplitAll(data, text) ==
    LET equals == {p \in DOMAIN text : text[p] = "="}
    IN  IF Cardinality(Words(text)) = 2 /\ Cardinality(equals) = 1
        THEN LET p == CHOOSE q \in equals : TRUE
             IN  Put(data, SubSeq(text, 3, p - 1), SubSeq(text, p + 1, Len(text)))
        ELSE data

\* StateMachine.Apply: two words, the first "set", the second split at its
\* first "="; everything else is ignored.
Apply(data, text) ==
    LET words == Words(text)
        first == CHOOSE w \in words : \A u \in words : w[1] <= u[1]
        second == CHOOSE w \in words : w # first
        equals == {p \in second[1] .. second[2] : text[p] = "="}
        split == CHOOSE p \in equals : \A q \in equals : p <= q
    IN  IF /\ Cardinality(words) = 2
           /\ SubSeq(text, first[1], first[2]) = <<"set">>
           /\ equals # {}
        THEN Put(data, SubSeq(text, second[1], split - 1),
                       SubSeq(text, split + 1, second[2]))
        ELSE data

-----------------------------------------------------------------------------
(* wal.encode and wal.decode.                                              *)

encode(entry) == <<entry.Term, entry.Index, Len(entry.Data)>> \o entry.Data

decode(buf) ==
    IF Len(buf) < 3 \/ Len(buf) < 3 + buf[3] THEN Malformed
    ELSE Decoded([Term |-> buf[1], Index |-> buf[2],
                  Data |-> SubSeq(buf, 4, 3 + buf[3])])

-----------------------------------------------------------------------------
(* Snapshots.                                                              *)

\* order is the order in which range visits the map.
EncodeSnapshot(s, order) ==
    <<s.index, s.term, Len(order)>> \o
    FlattenSeq([p \in DOMAIN order |->
        <<Len(order[p])>> \o order[p]
          \o <<Len(s.data[order[p]])>> \o s.data[order[p]]])

\* The strings that follow position p, each behind its length: end[m] is
\* where the m-th ends, beyond the data if it is not all there.
Ends(data, p, count) ==
    LET end[m \in 0 .. count] ==
            IF m = 0 THEN p
            ELSE IF end[m - 1] < Len(data)
                 THEN end[m - 1] + 1 + data[end[m - 1] + 1]
            ELSE Len(data) + 1
    IN  end

DecodeSnapshot(data) ==
    IF Len(data) < 3 THEN Malformed
    ELSE LET end == Ends(data, 3, 2 * data[3])
             string(m) == SubSeq(data, end[m - 1] + 2, end[m])
             keys == {string(2 * m - 1) : m \in 1 .. data[3]}
             last(k) == CHOOSE m \in 1 .. data[3] :
                            /\ string(2 * m - 1) = k
                            /\ \A l \in m + 1 .. data[3] : string(2 * l - 1) # k
         IN  IF end[2 * data[3]] > Len(data) THEN Malformed
             ELSE Decoded([index |-> data[1], term |-> data[2],
                           data |-> [k \in keys |-> string(2 * last(k))]])

-----------------------------------------------------------------------------
(* Structs of fixed size: binary.Write and binary.Read go through the      *)
(* fields in the order of their declaration.                               *)

RequestVoteArgs == <<"Term", "CandidateID", "LastLogIndex", "LastLogTerm">>
RequestVoteReply == <<"Term", "VoteGranted">>
AppendEntriesReply == <<"Term", "Success", "ConflictTerm", "ConflictIndex">>
InstallSnapshotReply == <<"Term">>

EncodeStruct(fields, r) == [p \in DOMAIN fields |-> r[fields[p]]]

DecodeStruct(fields, data) ==
    IF Len(data) < Len(fields) THEN Malformed
    ELSE Decoded([f \in Range(fields) |->
                     data[CHOOSE p \in DOMAIN fields : fields[p] = f]])

-----------------------------------------------------------------------------
(* AppendEntriesArgs and InstallSnapshotArgs.                              *)

EncodeAppendEntriesArgs(args) ==
    <<args.Term, args.LeaderID, args.PrevLogIndex, args.PrevLogTerm,
      args.LeaderCommit, Len(args.Entries)>> \o
    FlattenSeq([p \in DOMAIN args.Entries |->
        <<Len(encode(args.Entries[p]))>> \o encode(args.Entries[p])])

\* reader.Read fills as much of the buffer of an entry as there is; only when
\* nothing is left does it return an error.
DecodeEntries(data, count) ==
    LET end == Ends(data, 6, count)
        buffer(m) == [p \in 1 .. end[m] - end[m - 1] - 1 |->
                         IF end[m - 1] + 1 + p \in DOMAIN data
                         THEN data[end[m - 1] + 1 + p] ELSE 0]
        entry(m) == decode(buffer(m))
    IN  IF \E m \in 1 .. count : end[m - 1] + 2 > Len(data) \/ ~entry(m).ok
        THEN Malformed
        ELSE Decoded([m \in 1 .. count |-> entry(m).value])

\* Slip: LeaderCommit is read where the struct declares it.
DecodeInStructOrder(data) ==
    LET entries == DecodeEntries(data, data[6])
    IN  Decoded([Term |-> data[1], LeaderID |-> data[2], PrevLogIndex |-> data[3],
                 PrevLogTerm |-> data[5], LeaderCommit |-> data[4],
                 Entries |-> entries.value])

DecodeAppendEntriesArgs(data) ==
    IF Len(data) < 6 THEN Malformed
    ELSE LET entries == DecodeEntries(data, data[6])
         IN  IF ~entries.ok THEN Malformed
             ELSE Decoded([Term |-> data[1], LeaderID |-> data[2],
                           PrevLogIndex |-> data[3], PrevLogTerm |-> data[4],
                           LeaderCommit |-> data[5], Entries |-> entries.value])

EncodeInstallSnapshotArgs(args) ==
    <<args.Term, args.LeaderID, args.LastIncludedIndex, args.LastIncludedTerm,
      Len(args.Data)>> \o args.Data

DecodeInstallSnapshotArgs(data) ==
    IF Len(data) < 5 \/ Len(data) < 5 + data[5] THEN Malformed
    ELSE Decoded([Term |-> data[1], LeaderID |-> data[2],
                  LastIncludedIndex |-> data[3], LastIncludedTerm |-> data[4],
                  Data |-> SubSeq(data, 6, 5 + data[5])])

=============================================================================
