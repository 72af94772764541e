---------------------------- MODULE StreamProofs ----------------------------
(* Theorems about Stream, for every set of URIs, payloads and every bound. *)
EXTENDS Stream, SequenceTheorems, TLAPS

-----------------------------------------------------------------------------
(* Lemmas about the operators.                                             *)

\* Extracting a payload yields a sequence of readings.
LEMMA ExtractType ==
  ASSUME NEW p \in Payload, NEW n \in Nat, NEW have \in Nat
  PROVE  Extract(p, n, have) \in Seq(Reading)
<1>1. p.kept \in Seq(Nat) /\ Len(p.kept) \in Nat
  BY DEF Payload
<1>2. ASSUME NEW k \in 1..Len(p.kept)
      PROVE  [msg |-> n, val |-> p.kept[k],
              time |-> IF p.kind = "list" THEN have + k ELSE 1] \in Reading
  BY <1>1 DEF Reading
<1>3. QED
  BY <1>1, <1>2 DEF Extract

\* The committer wrote all of its copy, so it trims all of it.
LEMMA TrimmedIsEmpty ==
  ASSUME NEW S, NEW q \in Seq(S)
  PROVE  Trimmed(q, q) = <<>>
BY SubSeqEmpty DEF Trimmed

\* A prefix of a sequence is a sequence of its elements.
LEMMA PrefixType ==
  ASSUME NEW S, NEW q \in Seq(S), NEW n \in 0..Len(q)
  PROVE  /\ SubSeq(q, 1, n) \in Seq(S)
         /\ Range(SubSeq(q, 1, n)) \subseteq Range(q)
<1>1. \A i \in 1..n : q[i] \in S
  OBVIOUS
<1>2. /\ SubSeq(q, 1, n) \in Seq(S)
      /\ Len(SubSeq(q, 1, n)) = n
      /\ \A i \in 1..n : SubSeq(q, 1, n)[i] = q[i]
  BY <1>1, SubSeqProperties, Z3
<1>3. Range(q) = {q[i] : i \in 1..Len(q)}
  BY RangeEquality
<1>4. Range(SubSeq(q, 1, n)) = {SubSeq(q, 1, n)[i] : i \in 1..n}
  BY <1>2, RangeEquality
<1>5. QED
  BY <1>2, <1>3, <1>4

-----------------------------------------------------------------------------
(* Type correctness.                                                       *)

LEMMA InitTypeOK == Init => TypeOK
<1> SUFFICES ASSUME Init PROVE TypeOK
  OBVIOUS
<1>1. ChannelOK
  BY BoundAssumption, EmptySeq DEF Init, ChannelOK
<1>2. ReaderOK /\ MapOK /\ CommitterOK /\ StoreOK /\ BoundsOK
  BY EmptySeq DEF Init, ReaderOK, MapOK, CommitterOK, StoreOK, BoundsOK
<1>3. QED
  BY <1>1, <1>2 DEF TypeOK

\* While the reader works on a message, that is a message of the channel.
LEMMA MsgType ==
  ASSUME ChannelOK, ReaderOK
  PROVE  /\ \A n \in 1..Len(sent) : sent[n].uri \in URIs /\ sent[n].load \in Payloads
         /\ rpc # "recv" => Msg.uri \in URIs /\ Msg.load \in Payloads /\ taken \in Nat
<1>1. ASSUME NEW n \in 1..Len(sent) PROVE sent[n] \in Message
  BY ElementOfSeq DEF ChannelOK
<1>2. rpc # "recv" => taken \in 1..Len(sent)
  BY LenProperties DEF ChannelOK, ReaderOK
<1>3. QED
  BY <1>1, <1>2 DEF Message, Msg

\* Every step of the environment keeps the types.
LEMMA DeliverTypeOK ==
  ASSUME TypeOK, NEW u \in URIs, NEW p \in Payloads, Deliver(u, p)
  PROVE  TypeOK'
<1> USE DEF TypeOK
<1>1. sent' = Append(sent, [uri |-> u, load |-> p]) /\ Len(sent) - taken < BufferCap
  BY DEF Deliver, HasRoom
<1>2. UNCHANGED <<taken, seen, ts, rpc, rts, cpc, cts, docs, exists, db, saved, failures, restarts>>
  BY DEF Deliver, readerVars, committerVars, storeVars
<1>3. ChannelOK'
  <2>1. [uri |-> u, load |-> p] \in Message
    BY DEF Message
  <2>2. sent' \in Seq(Message) /\ Len(sent') = Len(sent) + 1
    BY <1>1, <2>1, AppendProperties DEF ChannelOK
  <2>3. Len(sent) \in Nat /\ taken \in 0..Len(sent) /\ BufferCap \in Nat
    BY LenProperties, BoundAssumption DEF ChannelOK
  <2>4. taken' \in 0..Len(sent') /\ Len(sent') - taken' <= BufferCap
    BY <1>1, <1>2, <2>2, <2>3
  <2>5. QED
    BY <2>2, <2>4 DEF ChannelOK
<1>4. ReaderOK' /\ MapOK' /\ CommitterOK' /\ StoreOK' /\ BoundsOK'
  BY <1>2 DEF ReaderOK, MapOK, CommitterOK, StoreOK, BoundsOK
<1>5. QED
  BY <1>3, <1>4

\* Every step of the reader keeps the types.
LEMMA ReaderTypeOK ==
  ASSUME TypeOK, Reader
  PROVE  TypeOK'
<1> USE DEF TypeOK
<1>m. /\ \A n \in 1..Len(sent) : sent[n].uri \in URIs /\ sent[n].load \in Payloads
      /\ rpc # "recv" => Msg.uri \in URIs /\ Msg.load \in Payloads /\ taken \in Nat
  BY MsgType
<1>1. CASE Receive
  <2>1. taken' = taken + 1 /\ taken < Len(sent) /\ sent' = sent /\ rts' = rts
    BY <1>1 DEF Receive
  <2>2. Len(sent) \in Nat /\ taken \in 0..Len(sent) /\ BufferCap \in Nat
    BY LenProperties, BoundAssumption DEF ChannelOK
  <2>3. taken' \in 0..Len(sent) /\ taken' > 0 /\ Len(sent) - taken' <= BufferCap
    BY <2>1, <2>2 DEF ChannelOK
  <2>4. ChannelOK'
    BY <2>1, <2>3 DEF ChannelOK
  <2>5. ReaderOK'
    BY <1>1, <2>1, <2>3 DEF Receive, ReaderOK
  <2>6. sent[taken + 1].uri \in URIs
    BY <2>1, <2>2, <1>m
  <2>7. MapOK'
    <3>1. seen' \in SUBSET URIs /\ saved' = saved
      BY <1>1, <2>6 DEF Receive, MapOK
    <3>2. ts' = ts \/ ts' = [ts EXCEPT ![sent[taken + 1].uri] = <<>>]
      BY <1>1 DEF Receive
    <3>3. ts' \in [URIs -> Seq(Reading)]
      BY <2>6, <3>2, EmptySeq DEF MapOK
    <3>4. QED
      BY <3>1, <3>3 DEF MapOK
  <2>8. CommitterOK' /\ StoreOK' /\ BoundsOK'
    BY <1>1 DEF Receive, CommitterOK, StoreOK, BoundsOK, committerVars, storeVars
  <2>9. QED
    BY <2>4, <2>5, <2>7, <2>8
<1>2. CASE InitializeURI
  <2>1. ChannelOK' /\ ReaderOK' /\ MapOK' /\ CommitterOK' /\ BoundsOK'
    BY <1>2 DEF InitializeURI, ChannelOK, ReaderOK, MapOK, CommitterOK, BoundsOK, committerVars
  <2>2. StoreOK'
    BY <1>2, <1>m DEF InitializeURI, StoreOK
  <2>3. QED
    BY <2>1, <2>2
<1>3. CASE StreamExists
  <2>1. ChannelOK' /\ ReaderOK' /\ MapOK' /\ StoreOK' /\ BoundsOK'
    BY <1>3 DEF StreamExists, StartCommitter, ChannelOK, ReaderOK, MapOK, StoreOK, BoundsOK, storeVars
  <2>2. CommitterOK'
    BY <1>3, <1>m DEF StreamExists, StartCommitter, CommitterOK
  <2>3. QED
    BY <2>1, <2>2
<1>4. CASE RegisterStream
  <2>1. ChannelOK' /\ ReaderOK' /\ MapOK' /\ BoundsOK'
    BY <1>4 DEF RegisterStream, RegisterFails, StartCommitter, ChannelOK, ReaderOK, MapOK, BoundsOK
  <2>2. CommitterOK'
    BY <1>4, <1>m DEF RegisterStream, RegisterFails, StartCommitter, CommitterOK
  <2>3. StoreOK'
    BY <1>4, <1>m, UuidAssumption DEF RegisterStream, StoreOK
  <2>4. QED
    BY <2>1, <2>2, <2>3
<1>5. CASE Load
  <2>1. Msg.load \in Payload /\ ts[Msg.uri] \in Seq(Reading) /\ taken \in Nat
    BY <1>5, <1>m, PayloadAssumption DEF Load, MapOK
  <2>2. Extended(ts[Msg.uri], Extract(Msg.load, taken, Len(ts[Msg.uri]))) \in Seq(Reading)
    <3>1. Len(ts[Msg.uri]) \in Nat
      BY <2>1, LenProperties
    <3>2. Extract(Msg.load, taken, Len(ts[Msg.uri])) \in Seq(Reading)
      BY <2>1, <3>1, ExtractType
    <3>3. QED
      BY <2>1, <3>2, ConcatProperties DEF Extended
  <2>3. ReaderOK'
    BY <1>5, <2>2 DEF Load, ReaderOK
  <2>4. ChannelOK' /\ MapOK' /\ CommitterOK' /\ StoreOK' /\ BoundsOK'
    BY <1>5 DEF Load, ChannelOK, MapOK, CommitterOK, StoreOK, BoundsOK, committerVars, storeVars
  <2>5. QED
    BY <2>3, <2>4
<1>6. CASE Store
  <2>1. Range(rts) \subseteq Reading
    BY RangeOfSeq DEF ReaderOK
  <2>2. MapOK'
    BY <1>6, <1>m, <2>1 DEF Store, MapOK, ReaderOK
  <2>3. ReaderOK'
    BY <1>6, EmptySeq DEF Store, ReaderOK
  <2>4. ChannelOK' /\ CommitterOK' /\ StoreOK' /\ BoundsOK'
    BY <1>6 DEF Store, ChannelOK, CommitterOK, StoreOK, BoundsOK, committerVars, storeVars
  <2>5. QED
    BY <2>2, <2>3, <2>4
<1>7. CASE Recover
  BY <1>7 DEF Recover, ChannelOK, ReaderOK, MapOK, CommitterOK, StoreOK, BoundsOK,
              committerVars, storeVars
<1>8. QED
  BY <1>1, <1>2, <1>3, <1>4, <1>5, <1>6, <1>7 DEF Reader

\* Every step of a committer keeps the types.
LEMMA CommitterTypeOK ==
  ASSUME TypeOK, NEW u \in URIs, Committer(u)
  PROVE  TypeOK'
<1> USE DEF TypeOK
<1>1. CASE Snapshot(u)
  <2>1. CommitterOK'
    BY <1>1 DEF Snapshot, CommitterOK, MapOK
  <2>2. ChannelOK' /\ ReaderOK' /\ MapOK' /\ StoreOK' /\ BoundsOK'
    BY <1>1 DEF Snapshot, ChannelOK, ReaderOK, MapOK, StoreOK, BoundsOK, readerVars, storeVars
  <2>3. QED
    BY <2>1, <2>2
<1>2. CASE AddReadings(u)
  <2>1. db[u] \o cts[u] \in Seq(Reading)
    BY ConcatProperties DEF StoreOK, CommitterOK
  <2>2. StoreOK' /\ CommitterOK'
    BY <1>2, <2>1 DEF AddReadings, StoreOK, CommitterOK
  <2>3. ChannelOK' /\ ReaderOK' /\ MapOK' /\ BoundsOK'
    BY <1>2 DEF AddReadings, ChannelOK, ReaderOK, MapOK, BoundsOK, readerVars
  <2>4. QED
    BY <2>2, <2>3
<1>3. CASE AddReadingsFails(u)
  <2>1. PICK n \in 0..Len(cts[u]) : db' = [db EXCEPT ![u] = @ \o SubSeq(cts[u], 1, n)]
    BY <1>3 DEF AddReadingsFails
  <2>2. SubSeq(cts[u], 1, n) \in Seq(Reading) /\ db[u] \in Seq(Reading)
    BY <2>1, PrefixType DEF CommitterOK, StoreOK
  <2>3. db[u] \o SubSeq(cts[u], 1, n) \in Seq(Reading)
    BY <2>2, ConcatProperties
  <2>4. StoreOK'
    BY <1>3, <2>1, <2>3 DEF AddReadingsFails, StoreOK
  <2>5. CommitterOK' /\ BoundsOK'
    BY <1>3, EmptySeq DEF AddReadingsFails, Retry, CommitterOK, BoundsOK
  <2>6. ChannelOK' /\ ReaderOK' /\ MapOK'
    BY <1>3 DEF AddReadingsFails, ChannelOK, ReaderOK, MapOK, readerVars
  <2>7. QED
    BY <2>4, <2>5, <2>6
<1>4. CASE Trim(u)
  <2>1. Trimmed(cts[u], cts[u]) = <<>>
    BY TrimmedIsEmpty DEF CommitterOK
  <2>2. MapOK' /\ CommitterOK'
    BY <1>4, <2>1, EmptySeq DEF Trim, MapOK, CommitterOK, readerVars
  <2>3. ChannelOK' /\ ReaderOK' /\ StoreOK' /\ BoundsOK'
    BY <1>4 DEF Trim, ChannelOK, ReaderOK, StoreOK, BoundsOK, readerVars, storeVars
  <2>4. QED
    BY <2>2, <2>3
<1>5. QED
  BY <1>1, <1>2, <1>3, <1>4 DEF Committer

\* A restart keeps the types.
LEMMA RestartTypeOK ==
  ASSUME TypeOK, Restart
  PROVE  TypeOK'
<1> USE DEF TypeOK
<1>1. ChannelOK'
  <2>1. Len(sent) \in Nat /\ sent' = sent /\ taken' = Len(sent)
    BY LenProperties DEF ChannelOK, Restart
  <2>2. QED
    BY <2>1, BoundAssumption DEF ChannelOK
<1>2. ReaderOK' /\ MapOK' /\ CommitterOK' /\ BoundsOK'
  BY EmptySeq DEF Restart, ReaderOK, MapOK, CommitterOK, BoundsOK
<1>3. StoreOK'
  BY DEF Restart, StoreOK, storeVars
<1>4. QED
  BY <1>1, <1>2, <1>3

LEMMA NextTypeOK == TypeOK /\ [Next]_vars => TypeOK'
<1> SUFFICES ASSUME TypeOK, [Next]_vars PROVE TypeOK'
  OBVIOUS
<1>1. CASE UNCHANGED vars
  BY <1>1 DEF TypeOK, vars, ChannelOK, ReaderOK, MapOK, CommitterOK, StoreOK, BoundsOK
<1>2. QED
  BY <1>1, DeliverTypeOK, ReaderTypeOK, CommitterTypeOK, RestartTypeOK DEF Next

\* Every variable of Stream always has its type, and the buffer channel never
\* holds more than its capacity.
THEOREM TypeCorrect == Spec => []TypeOK
BY InitTypeOK, NextTypeOK, PTL DEF Spec

-----------------------------------------------------------------------------
(* Committers run only for initialised streams.                            *)

\* A delivery does not change the message the reader works on.
LEMMA MsgStays ==
  ASSUME TypeOK, NEW u \in URIs, NEW p \in Payloads, Deliver(u, p)
  PROVE  rpc # "recv" => Msg' = Msg
<1>1. rpc # "recv" => taken \in 1..Len(sent)
  BY LenProperties DEF TypeOK, ChannelOK, ReaderOK
<1>2. [uri |-> u, load |-> p] \in Message
  BY DEF Message
<1>3. \A i \in 1..Len(sent) : sent'[i] = sent[i]
  BY <1>2, AppendProperties DEF Deliver, TypeOK, ChannelOK
<1>4. QED
  BY <1>1, <1>3 DEF Msg, Deliver, readerVars

\* A batch that is appended to an empty series is not empty only if it was
\* written by a running committer, and a running committer has its stream.
LEMMA CommitterStep ==
  ASSUME TypeOK, InitProgress, CommitterHasStream, [Next]_vars
  PROVE  InitProgress' /\ CommitterHasStream'
<1> USE DEF InitProgress, CommitterHasStream
<1>m. rpc # "recv" => Msg.uri \in URIs
  BY MsgType DEF TypeOK
<1>1. ASSUME NEW u \in URIs, NEW p \in Payloads, Deliver(u, p)
      PROVE  InitProgress' /\ CommitterHasStream'
  BY <1>1, MsgStays DEF Deliver, readerVars, committerVars, storeVars
<1>2. CASE Receive
  <2>1. rpc' = "meta" => Msg'.uri \in seen'
    BY <1>2 DEF Receive, Msg
  <2>2. seen \subseteq seen' /\ UNCHANGED <<cpc, docs, exists, db>>
    BY <1>2 DEF Receive, committerVars, storeVars
  <2>3. rpc' \in {"recv", "load", "meta"}
    BY <1>2 DEF Receive
  <2>4. QED
    BY <2>1, <2>2, <2>3
<1>3. CASE InitializeURI
  BY <1>3 DEF InitializeURI, committerVars, Msg
<1>4. CASE StreamExists
  BY <1>4, <1>m DEF StreamExists, StartCommitter, storeVars, Msg, TypeOK, CommitterOK
<1>5. CASE RegisterStream
  BY <1>5, <1>m DEF RegisterStream, RegisterFails, StartCommitter, Msg, TypeOK, CommitterOK
<1>6. CASE Load
  BY <1>6 DEF Load, committerVars, storeVars
<1>7. CASE Store
  BY <1>7 DEF Store, committerVars, storeVars
<1>8. CASE Recover
  BY <1>8 DEF Recover, committerVars, storeVars
<1>9. ASSUME NEW u \in URIs, Snapshot(u)
      PROVE  InitProgress' /\ CommitterHasStream'
  BY <1>9 DEF Snapshot, readerVars, storeVars, Msg, TypeOK, CommitterOK
<1>10. ASSUME NEW u \in URIs, AddReadings(u)
       PROVE  InitProgress' /\ CommitterHasStream'
  BY <1>10 DEF AddReadings, readerVars, Msg, TypeOK, CommitterOK, StoreOK
<1>11. ASSUME NEW u \in URIs, AddReadingsFails(u)
       PROVE  InitProgress' /\ CommitterHasStream'
  <2>1. PICK n \in 0..Len(cts[u]) : db' = [db EXCEPT ![u] = @ \o SubSeq(cts[u], 1, n)]
    BY <1>11 DEF AddReadingsFails
  <2>2. \A v \in URIs : v # u => db'[v] = db[v]
    BY <2>1 DEF TypeOK, StoreOK
  <2>3. QED
    BY <1>11, <2>2 DEF AddReadingsFails, Retry, readerVars, Msg, TypeOK, CommitterOK
<1>12. ASSUME NEW u \in URIs, Trim(u)
       PROVE  InitProgress' /\ CommitterHasStream'
  BY <1>12 DEF Trim, readerVars, storeVars, Msg, TypeOK, CommitterOK
<1>13. CASE Restart
  BY <1>13 DEF Restart, storeVars
<1>14. CASE UNCHANGED vars
  BY <1>14 DEF vars, Msg
<1>15. QED
  BY <1>1, <1>2, <1>3, <1>4, <1>5, <1>6, <1>7, <1>8, <1>9, <1>10, <1>11, <1>12,
     <1>13, <1>14 DEF Next, Reader, Committer

\* A committer runs only for a URI whose documents and stream are in place, and
\* nothing is written to a stream that was not registered (stream.go:91).
THEOREM CommitterSafe == Spec => []CommitterHasStream
<1>1. Init => InitProgress /\ CommitterHasStream
  BY DEF Init, InitProgress, CommitterHasStream
<1>2. TypeOK /\ InitProgress /\ CommitterHasStream /\ [Next]_vars
      => InitProgress' /\ CommitterHasStream'
  BY CommitterStep
<1>3. QED
  BY <1>1, <1>2, TypeCorrect, PTL DEF Spec

-----------------------------------------------------------------------------
(* Nothing is trimmed that was not written.                                *)

LEMMA RangeOfEmpty == Range(<<>>) = {}
BY DEF Range

LEMMA TrimStep ==
  ASSUME TypeOK, TrimOnlyWritten, [Next]_vars
  PROVE  TrimOnlyWritten'
<1> USE DEF TrimOnlyWritten
<1>m. rpc # "recv" => Msg.uri \in URIs
  BY MsgType DEF TypeOK
<1>t. /\ ts \in [URIs -> Seq(Reading)] /\ saved \in [URIs -> SUBSET Reading]
      /\ cpc \in [URIs -> {"off", "sleep", "write", "trim"}]
      /\ cts \in [URIs -> Seq(Reading)] /\ db \in [URIs -> Seq(Reading)]
      /\ rts \in Seq(Reading)
  BY DEF TypeOK, MapOK, CommitterOK, StoreOK, ReaderOK
<1>1. ASSUME UNCHANGED <<ts, saved, cpc, cts, db>> PROVE TrimOnlyWritten'
  BY <1>1
<1>2. CASE Receive
  <2>1. UNCHANGED <<saved, cpc, cts, db>>
    BY <1>2 DEF Receive, committerVars, storeVars
  <2>2. ts' = ts \/ ts' = [ts EXCEPT ![sent[taken + 1].uri] = <<>>]
    BY <1>2 DEF Receive
  <2>3. \A u \in URIs : Range(ts'[u]) \subseteq Range(ts[u])
    BY <1>t, <2>2, RangeOfEmpty
  <2>4. QED
    BY <2>1, <2>3
<1>3. ASSUME StreamExists \/ RegisterStream PROVE TrimOnlyWritten'
  <2>1. UNCHANGED <<ts, saved, cts, db>>
    BY <1>3 DEF StreamExists, RegisterStream, storeVars
  <2>2. cpc' = cpc \/ cpc' = [cpc EXCEPT ![Msg.uri] = "sleep"]
    BY <1>3 DEF StreamExists, RegisterStream, RegisterFails, StartCommitter
  <2>3. \A u \in URIs : cpc'[u] = "trim" => cpc[u] = "trim"
    BY <1>t, <2>2
  <2>4. QED
    BY <2>1, <2>3
<1>4. CASE Store
  <2>1. UNCHANGED <<cpc, cts, db>>
    BY <1>4 DEF Store, committerVars, storeVars
  <2>2. Range(rts) \subseteq Reading /\ Msg.uri \in URIs
    BY <1>4, <1>m, <1>t, RangeOfSeq DEF Store
  <2>3. /\ ts' = [ts EXCEPT ![Msg.uri] = rts]
        /\ saved' = [saved EXCEPT ![Msg.uri] = @ \cup Range(rts)]
    BY <1>4 DEF Store
  <2>4. \A u \in URIs : saved'[u] = IF u = Msg.uri THEN saved[u] \cup Range(rts) ELSE saved[u]
    BY <1>t, <2>2, <2>3
  <2>5. \A u \in URIs : Range(ts'[u]) \subseteq Range(ts[u]) \cup saved'[u]
    BY <1>t, <2>2, <2>3, <2>4
  <2>6. QED
    BY <2>1, <2>4, <2>5
<1>5. ASSUME NEW u \in URIs, Snapshot(u) PROVE TrimOnlyWritten'
  BY <1>5, <1>t DEF Snapshot, readerVars, storeVars
<1>6. ASSUME NEW u \in URIs, AddReadings(u) PROVE TrimOnlyWritten'
  <2>1. UNCHANGED <<ts, saved, cts>>
    BY <1>6 DEF AddReadings
  <2>2. Range(db'[u]) = Range(db[u]) \cup Range(cts[u])
    BY <1>6, <1>t, RangeConcatenation DEF AddReadings
  <2>3. \A v \in URIs \ {u} : db'[v] = db[v] /\ cpc'[v] = cpc[v]
    BY <1>6, <1>t DEF AddReadings
  <2>4. QED
    BY <2>1, <2>2, <2>3
<1>7. ASSUME NEW u \in URIs, AddReadingsFails(u) PROVE TrimOnlyWritten'
  <2>1. PICK b \in Seq(Reading) : Range(b) \subseteq Range(cts[u]) /\ db' = [db EXCEPT ![u] = @ \o b]
    <3>1. PICK n \in 0..Len(cts[u]) : db' = [db EXCEPT ![u] = @ \o SubSeq(cts[u], 1, n)]
      BY <1>7 DEF AddReadingsFails
    <3>2. SubSeq(cts[u], 1, n) \in Seq(Reading) /\ Range(SubSeq(cts[u], 1, n)) \subseteq Range(cts[u])
      BY <1>t, PrefixType
    <3>3. QED
      BY <3>1, <3>2
  <2>2. db'[u] = db[u] \o b
    BY <1>t, <2>1
  <2>3. Range(db'[u]) = Range(db[u]) \cup Range(b)
    BY <1>t, <2>2, RangeConcatenation
  <2>0. /\ UNCHANGED <<ts, saved>>
        /\ cpc' = [cpc EXCEPT ![u] = "sleep"]
        /\ cts' = [cts EXCEPT ![u] = <<>>]
    BY <1>7 DEF AddReadingsFails, Retry
  <2>4. cpc'[u] = "sleep" /\ cts'[u] = <<>>
    BY <1>t, <2>0
  <2>5. \A v \in URIs \ {u} : db'[v] = db[v] /\ cpc'[v] = cpc[v] /\ cts'[v] = cts[v]
    BY <1>t, <2>1, <2>0
  <2>6. QED
    BY <2>0, <2>1, <2>3, <2>4, <2>5, RangeOfEmpty
<1>8. ASSUME NEW u \in URIs, Trim(u) PROVE TrimOnlyWritten'
  <2>1. ts' = [ts EXCEPT ![u] = <<>>]
    BY <1>8, <1>t, TrimmedIsEmpty DEF Trim
  <2>2. UNCHANGED <<saved, db>> /\ cpc'[u] = "sleep" /\ cts'[u] = <<>> /\ ts'[u] = <<>>
    BY <1>8, <1>t, <2>1 DEF Trim, storeVars
  <2>3. \A v \in URIs \ {u} : ts'[v] = ts[v] /\ cpc'[v] = cpc[v] /\ cts'[v] = cts[v]
    BY <1>8, <1>t, <2>1 DEF Trim
  <2>4. QED
    BY <2>2, <2>3, RangeOfEmpty
<1>9. CASE Restart
  <2>1. UNCHANGED <<saved, db>>
    BY <1>9 DEF Restart, storeVars
  <2>2. \A v \in URIs : ts'[v] = <<>> /\ cpc'[v] = "off" /\ cts'[v] = <<>>
    BY <1>9 DEF Restart
  <2>3. QED
    BY <2>1, <2>2, RangeOfEmpty
<1>10. QED
  <2>1. ASSUME NEW u \in URIs, NEW p \in Payloads, Deliver(u, p) PROVE TrimOnlyWritten'
    BY <1>1, <2>1 DEF Deliver, committerVars, storeVars
  <2>2. ASSUME InitializeURI \/ Load \/ Recover \/ UNCHANGED vars PROVE TrimOnlyWritten'
    BY <1>1, <2>2 DEF InitializeURI, Load, Recover, vars, committerVars, storeVars
  <2>3. QED
    BY <1>2, <1>3, <1>4, <1>5, <1>6, <1>7, <1>8, <1>9, <2>1, <2>2 DEF Next, Reader, Committer

\* The committer cuts off the map only readings the timeseries store has taken;
\* the store holds nothing but readings saved for the URI (stream.go:92-102).
THEOREM TrimSafe == Spec => []TrimOnlyWritten
<1>1. Init => TrimOnlyWritten
  BY RangeOfEmpty DEF Init, TrimOnlyWritten
<1>2. TypeOK /\ TrimOnlyWritten /\ [Next]_vars => TrimOnlyWritten'
  BY TrimStep
<1>3. QED
  BY <1>1, <1>2, TypeCorrect, PTL DEF Spec

-----------------------------------------------------------------------------
(* Lemmas about the order of readings.                                     *)

LEMMA ConcatSorted ==
  ASSUME NEW p \in Seq(Reading), NEW q \in Seq(Reading), Sorted(p), Sorted(q),
         \A r \in Range(p), s \in Range(q) : Before(r, s)
  PROVE  Sorted(p \o q)
<1>1. /\ p \o q \in Seq(Reading)
      /\ Len(p \o q) = Len(p) + Len(q)
      /\ \A i \in 1..Len(p) + Len(q) : (p \o q)[i] = IF i <= Len(p) THEN p[i] ELSE q[i - Len(p)]
  BY ConcatProperties
<1>2. DOMAIN (p \o q) = 1..Len(p) + Len(q) /\ DOMAIN p = 1..Len(p) /\ DOMAIN q = 1..Len(q)
  BY <1>1, LenProperties
<1>3. Len(p) \in Nat /\ Len(q) \in Nat
  BY LenProperties
<1>4. Range(p) = {p[i] : i \in 1..Len(p)} /\ Range(q) = {q[i] : i \in 1..Len(q)}
  BY RangeEquality
<1>5. SUFFICES ASSUME NEW i \in 1..Len(p) + Len(q), NEW j \in 1..Len(p) + Len(q), i < j
               PROVE  Before((p \o q)[i], (p \o q)[j])
  BY <1>2 DEF Sorted
<1>6. CASE j <= Len(p)
  <2>1. Before(p[i], p[j])
    BY <1>2, <1>3, <1>5, <1>6 DEF Sorted
  <2>2. QED
    BY <1>1, <1>3, <1>5, <1>6, <2>1
<1>7. CASE Len(p) < i
  <2>1. Before(q[i - Len(p)], q[j - Len(p)])
    BY <1>2, <1>3, <1>5, <1>7 DEF Sorted
  <2>2. QED
    BY <1>1, <1>3, <1>5, <1>7, <2>1
<1>8. CASE i <= Len(p) /\ Len(p) < j
  <2>1. i \in 1..Len(p) /\ j - Len(p) \in 1..Len(q)
    BY <1>3, <1>5, <1>8
  <2>2. Before(p[i], q[j - Len(p)])
    BY <1>4, <2>1
  <2>3. QED
    BY <1>1, <1>3, <1>5, <1>8, <2>2
<1>9. QED
  BY <1>3, <1>5, <1>6, <1>7, <1>8

\* Extracted readings are in order and carry the number of their message.
LEMMA ExtractSorted ==
  ASSUME NEW p \in Payloads, NEW n \in Nat, NEW have \in Nat
  PROVE  /\ Sorted(Extract(p, n, have))
         /\ \A r \in Range(Extract(p, n, have)) : r.msg = n
<1>1. p.kept \in Seq(Nat) /\ Increasing(p.kept)
  BY PayloadAssumption DEF Payload
<1>2. Len(p.kept) \in Nat /\ DOMAIN p.kept = 1..Len(p.kept)
  BY <1>1, LenProperties
<1>3. \A k \in 1..Len(p.kept) : /\ Extract(p, n, have)[k].msg = n
                                /\ Extract(p, n, have)[k].val = p.kept[k]
  BY <1>2 DEF Extract
<1>4. DOMAIN Extract(p, n, have) = 1..Len(p.kept)
  BY DEF Extract
<1>5. Sorted(Extract(p, n, have))
  BY <1>1, <1>2, <1>3, <1>4 DEF Sorted, Increasing, Before
<1>6. QED
  BY <1>3, <1>4, <1>5 DEF Range

\* The front of the front of a series is a front of it.
LEMMA InitialTransitive ==
  ASSUME NEW X, NEW Y, NEW Z, Initial(X, Y), Initial(Y, Z)
  PROVE  Initial(X, Z)
BY DEF Initial

\* A prefix of a sorted series is sorted and a front of it.
LEMMA PrefixInitial ==
  ASSUME NEW q \in Seq(Reading), NEW n \in 0..Len(q), Sorted(q)
  PROVE  /\ Sorted(SubSeq(q, 1, n))
         /\ Initial(Range(SubSeq(q, 1, n)), Range(q))
<1>1. \A i \in 1..n : q[i] \in Reading
  OBVIOUS
<1>2. /\ SubSeq(q, 1, n) \in Seq(Reading)
      /\ Len(SubSeq(q, 1, n)) = n
      /\ \A i \in 1..n : SubSeq(q, 1, n)[i] = q[i]
  BY <1>1, SubSeqProperties, Z3
<1>3. /\ Range(q) = {q[i] : i \in 1..Len(q)}
      /\ Range(SubSeq(q, 1, n)) = {q[i] : i \in 1..n}
  <2>1. Range(q) = {q[i] : i \in 1..Len(q)}
    BY RangeEquality
  <2>2. Range(SubSeq(q, 1, n)) = {SubSeq(q, 1, n)[i] : i \in 1..n}
    BY <1>2, RangeEquality
  <2>3. QED
    BY <1>2, <2>1, <2>2
<1>4. DOMAIN q = 1..Len(q) /\ DOMAIN SubSeq(q, 1, n) = 1..n /\ Len(q) \in Nat
  BY <1>2, LenProperties
<1>5. Sorted(SubSeq(q, 1, n))
  BY <1>2, <1>4 DEF Sorted
<1>6. ASSUME NEW a \in Range(SubSeq(q, 1, n)), NEW b \in Range(q) \ Range(SubSeq(q, 1, n))
      PROVE  Before(a, b)
  <2>1. PICK i \in 1..n : a = q[i]
    BY <1>3, <1>6
  <2>2. PICK j \in 1..Len(q) : b = q[j] /\ n < j
    BY <1>3, <1>4, <1>6
  <2>3. QED
    BY <1>4, <2>1, <2>2 DEF Sorted
<1>7. QED
  BY <1>3, <1>4, <1>5, <1>6 DEF Initial

\* After a batch, what was in order behind the store still is, if the batch is
\* a front of it.
LEMMA InOrderGrows ==
  ASSUME NEW d \in Seq(Reading), NEW b \in Seq(Reading), NEW q \in Seq(Reading),
         InOrder(d, q), Initial(Range(b), Range(q))
  PROVE  InOrder(d \o b, q)
<1>1. Range(d \o b) = Range(d) \cup Range(b)
  BY RangeConcatenation
<1>2. QED
  BY <1>1 DEF InOrder, Initial

LEMMA InOrderEmpty ==
  ASSUME NEW d
  PROVE  InOrder(d, <<>>) /\ Sorted(<<>>) /\ (\A B : Initial({}, B))
BY RangeOfEmpty DEF InOrder, Sorted, Initial

-----------------------------------------------------------------------------
(* The copies of a timeseries agree, and the store is filled in order.     *)

\* What is saved is not newer than the messages the reader is done with.
LEMMA SavedStep ==
  ASSUME TypeOK, SavedIsOld, CopiesAgree, [Next]_vars
  PROVE  SavedIsOld'
<1>1. /\ taken \in Nat /\ Len(sent) \in Nat /\ taken <= Len(sent)
      /\ saved \in [URIs -> SUBSET Reading]
      /\ \A r \in Reading : r.msg \in Nat
  BY LenProperties DEF TypeOK, ChannelOK, MapOK, Reading
<1>2. CASE Store
  <2>1. /\ saved' = [saved EXCEPT ![Msg.uri] = @ \cup Range(rts)]
        /\ rpc' = "recv" /\ taken' = taken /\ rpc = "store"
    BY <1>2 DEF Store
  <2>2. Msg.uri \in URIs
    BY <2>1, MsgType DEF TypeOK
  <2>3. \A r \in Range(rts) : r.msg <= taken /\ r.msg \in Nat
    BY <1>1, <2>1, RangeOfSeq DEF CopiesAgree, TypeOK, ReaderOK
  <2>4. ASSUME NEW u \in URIs, NEW r \in saved'[u] PROVE r.msg < taken + 1
    <3>1. r \in saved[u] \/ r \in Range(rts)
      BY <1>1, <2>1, <2>2, <2>4
    <3>2. r \in saved[u] => r.msg < taken /\ r.msg \in Nat
      BY <1>1, <2>1 DEF SavedIsOld
    <3>3. QED
      BY <1>1, <2>3, <3>1, <3>2
  <2>5. QED
    BY <2>1, <2>4 DEF SavedIsOld
<1>3. ASSUME saved' = saved, NEW old \in Nat, NEW new \in Nat, old <= new,
             old = IF rpc = "recv" THEN taken + 1 ELSE taken,
             new = IF rpc' = "recv" THEN taken' + 1 ELSE taken'
      PROVE  SavedIsOld'
  <2>1. ASSUME NEW u \in URIs, NEW r \in saved[u] PROVE r.msg < new
    <3>1. r.msg < old
      BY <1>3 DEF SavedIsOld
    <3>2. r.msg \in Nat
      BY <1>1
    <3>3. QED
      BY <1>3, <3>1, <3>2
  <2>2. QED
    BY <1>3, <2>1 DEF SavedIsOld
<1>4. CASE Receive
  <2>1. saved' = saved /\ rpc = "recv" /\ taken' = taken + 1
    BY <1>4 DEF Receive
  <2>2. QED
    BY <1>1, <1>3, <2>1
<1>5. CASE Restart
  <2>1. saved' = saved /\ rpc' = "recv" /\ taken' = Len(sent)
    BY <1>5 DEF Restart
  <2>2. QED
    BY <1>1, <1>3, <2>1
<1>6. ASSUME UNCHANGED <<saved, taken>>, rpc = "recv" => rpc' = "recv" PROVE SavedIsOld'
  BY <1>1, <1>3, <1>6
<1>7. ASSUME InitializeURI \/ StreamExists \/ RegisterStream \/ Load \/ Recover PROVE SavedIsOld'
  BY <1>6, <1>7 DEF InitializeURI, StreamExists, RegisterStream, Load, Recover
<1>8. ASSUME NEW u \in URIs, NEW p \in Payloads, Deliver(u, p) PROVE SavedIsOld'
  BY <1>6, <1>8 DEF Deliver, readerVars
<1>9. ASSUME NEW u \in URIs, Committer(u) PROVE SavedIsOld'
  BY <1>6, <1>9 DEF Committer, Snapshot, AddReadings, AddReadingsFails, Trim, readerVars
<1>10. CASE UNCHANGED vars
  BY <1>6, <1>10 DEF vars
<1>11. QED
  BY <1>2, <1>4, <1>5, <1>7, <1>8, <1>9, <1>10 DEF Next, Reader

\* The steps of the reader keep the copies in agreement.
LEMMA CopiesReader ==
  ASSUME TypeOK, CommitterHasStream, TrimOnlyWritten, SavedIsOld, CopiesAgree, Reader
  PROVE  CopiesAgree'
<1>t. /\ ts \in [URIs -> Seq(Reading)] /\ cpc \in [URIs -> {"off", "sleep", "write", "trim"}]
      /\ cts \in [URIs -> Seq(Reading)] /\ db \in [URIs -> Seq(Reading)]
      /\ rts \in Seq(Reading) /\ taken \in Nat
  BY LenProperties DEF TypeOK, ChannelOK, MapOK, CommitterOK, StoreOK, ReaderOK
<1>m. rpc # "recv" => Msg.uri \in URIs /\ Msg.load \in Payloads
  BY MsgType DEF TypeOK
<1>1. ASSUME rpc' # "store", UNCHANGED <<ts, db, cts>>,
             \A u \in URIs : cpc'[u] \in {"write", "trim"} => cpc[u] \in {"write", "trim"}
      PROVE  CopiesAgree'
  BY <1>1 DEF CopiesAgree
<1>2. CASE Receive
  <2>1. UNCHANGED <<cpc, cts, db>> /\ rpc' # "store"
    BY <1>2 DEF Receive, committerVars, storeVars
  <2>2. CASE ts' = ts
    BY <1>1, <2>1, <2>2
  <2>3. CASE ts' = [ts EXCEPT ![sent[taken + 1].uri] = <<>>] /\ sent[taken + 1].uri \notin seen
    <3>1. PICK m : m = sent[taken + 1].uri
      OBVIOUS
    <3>2. \A u \in URIs : ts'[u] = IF u = m THEN <<>> ELSE ts[u]
      BY <1>t, <2>3, <3>1
    <3>3. \A u \in URIs : cpc[u] \in {"write", "trim"} => u # m
      BY <2>3, <3>1 DEF CommitterHasStream
    <3>4. QED
      BY <2>1, <3>2, <3>3, InOrderEmpty DEF CopiesAgree
  <2>4. QED
    BY <1>2, <2>2, <2>3 DEF Receive
<1>3. CASE InitializeURI
  BY <1>1, <1>3 DEF InitializeURI, committerVars
<1>4. ASSUME StreamExists \/ RegisterStream PROVE CopiesAgree'
  <2>1. UNCHANGED <<ts, db, cts>> /\ rpc' # "store"
    BY <1>4 DEF StreamExists, RegisterStream, RegisterFails, StartCommitter, storeVars
  <2>2. cpc' = cpc \/ cpc' = [cpc EXCEPT ![Msg.uri] = "sleep"]
    BY <1>4 DEF StreamExists, RegisterStream, RegisterFails, StartCommitter
  <2>3. QED
    BY <1>1, <1>t, <2>1, <2>2
<1>5. CASE Load
  <2>1. UNCHANGED <<sent, taken, ts, db, cts, cpc>> /\ rpc = "load"
    BY <1>5 DEF Load, committerVars, storeVars
  <2>2. CASE rpc' # "store"
    BY <1>1, <2>1, <2>2
  <2>3. CASE rpc' = "store"
    <3>1. PICK m \in URIs : m = Msg.uri
      BY <1>m, <2>1
    <3>2. PICK x : x = Extract(Msg.load, taken, Len(ts[m]))
      OBVIOUS
    <3>3. rts' = ts[m] \o x
      BY <1>5, <2>3, <3>1, <3>2 DEF Load, Extended
    <3>4. x \in Seq(Reading) /\ Sorted(x) /\ \A r \in Range(x) : r.msg = taken
      <4>1. Msg.load \in Payloads /\ Msg.load \in Payload /\ Len(ts[m]) \in Nat
        BY <1>m, <1>t, <2>1, PayloadAssumption, LenProperties
      <4>2. QED
        BY <1>t, <3>2, <4>1, ExtractType, ExtractSorted
    <3>5. \A r \in Range(ts[m]) \cup Range(db[m]) : r.msg < taken
      BY <2>1 DEF TrimOnlyWritten, SavedIsOld
    <3>6. Range(rts') = Range(ts[m]) \cup Range(x)
      BY <1>t, <3>3, <3>4, RangeConcatenation
    <3>7. Sorted(rts')
      <4>1. \A r \in Range(ts[m]), s \in Range(x) : Before(r, s)
        BY <3>4, <3>5 DEF Before
      <4>2. QED
        BY <1>t, <3>3, <3>4, <4>1, ConcatSorted DEF CopiesAgree
    <3>8. InOrder(db[m], rts')
      BY <3>4, <3>5, <3>6 DEF CopiesAgree, InOrder, Before
    <3>9. Initial(Range(ts[m]), Range(rts'))
      BY <3>4, <3>5, <3>6 DEF Initial, Before
    <3>10. \A r \in Range(rts') : r.msg <= taken
      <4>1. \A r \in Range(ts[m]) : r.msg \in Nat
        <5>1. Range(ts[m]) \subseteq Reading
          BY <1>t, RangeOfSeq
        <5>2. \A r \in Reading : r.msg \in Nat
          BY DEF Reading
        <5>3. QED
          BY <5>1, <5>2
      <4>2. QED
        BY <1>t, <3>4, <3>5, <3>6, <4>1
    <3>11. Msg' = Msg
      BY <2>1 DEF Msg
    <3>12. QED
      BY <2>1, <3>1, <3>7, <3>8, <3>9, <3>10, <3>11 DEF CopiesAgree
  <2>4. QED
    BY <2>2, <2>3
<1>6. CASE Store
  <2>1. UNCHANGED <<cpc, cts, db>> /\ rpc = "store" /\ rpc' = "recv"
    BY <1>6 DEF Store, committerVars, storeVars
  <2>2. PICK m \in URIs : m = Msg.uri
    BY <1>m, <2>1
  <2>3. \A u \in URIs : ts'[u] = IF u = m THEN rts ELSE ts[u]
    BY <1>6, <1>t, <2>2 DEF Store
  <2>4. Sorted(rts) /\ InOrder(db[m], rts) /\ Initial(Range(ts[m]), Range(rts))
    BY <2>1, <2>2 DEF CopiesAgree
  <2>5. cpc[m] \in {"write", "trim"} => Initial(Range(cts[m]), Range(rts))
    BY <2>4, InitialTransitive DEF CopiesAgree
  <2>6. QED
    BY <2>1, <2>3, <2>4, <2>5 DEF CopiesAgree
<1>7. CASE Recover
  BY <1>1, <1>7 DEF Recover, committerVars, storeVars
<1>8. QED
  BY <1>2, <1>3, <1>4, <1>5, <1>6, <1>7 DEF Reader

\* The steps of a committer keep the copies in agreement.
LEMMA CopiesCommitter ==
  ASSUME TypeOK, CopiesAgree, NEW u \in URIs, Committer(u)
  PROVE  CopiesAgree'
<1>t. /\ ts \in [URIs -> Seq(Reading)] /\ cpc \in [URIs -> {"off", "sleep", "write", "trim"}]
      /\ cts \in [URIs -> Seq(Reading)] /\ db \in [URIs -> Seq(Reading)]
      /\ rts \in Seq(Reading)
  BY DEF TypeOK, MapOK, CommitterOK, StoreOK, ReaderOK
<1>r. UNCHANGED <<rpc, rts, taken>> /\ Msg' = Msg /\ (rpc = "store" => Msg.uri \in URIs)
  BY MsgType DEF Committer, Snapshot, AddReadings, AddReadingsFails, Trim, readerVars, Msg, TypeOK
<1>1. CASE Snapshot(u)
  <2>1. /\ UNCHANGED <<ts, db>>
        /\ cts' = [cts EXCEPT ![u] = ts[u]] /\ cpc' = [cpc EXCEPT ![u] = "write"]
    BY <1>1 DEF Snapshot, storeVars
  <2>2. Initial(Range(ts[u]), Range(ts[u]))
    BY DEF Initial
  <2>3. QED
    BY <1>t, <1>r, <2>1, <2>2 DEF CopiesAgree
\* A batch that is a front of the committer's copy goes to the store.
<1>2. ASSUME NEW b \in Seq(Reading), db' = [db EXCEPT ![u] = @ \o b], UNCHANGED ts,
             cpc[u] = "write", Initial(Range(b), Range(cts[u])),
             \A v \in URIs : cpc'[v] \in {"write", "trim"} =>
                             cpc[v] \in {"write", "trim"} /\ cts'[v] = cts[v]
      PROVE  CopiesAgree'
  <2>1. \A v \in URIs : db'[v] = IF v = u THEN db[u] \o b ELSE db[v]
    BY <1>t, <1>2
  <2>2. Initial(Range(b), Range(ts[u]))
    BY <1>2, InitialTransitive DEF CopiesAgree
  <2>3. InOrder(db[u] \o b, ts[u])
    BY <1>t, <1>2, <2>2, InOrderGrows DEF CopiesAgree
  <2>4. ASSUME rpc = "store", Msg.uri = u PROVE InOrder(db[u] \o b, rts)
    <3>1. Initial(Range(b), Range(rts))
      BY <2>2, <2>4, InitialTransitive DEF CopiesAgree
    <3>2. QED
      BY <1>t, <1>2, <2>4, <3>1, InOrderGrows DEF CopiesAgree
  <2>5. QED
    BY <1>2, <1>r, <2>1, <2>3, <2>4 DEF CopiesAgree
<1>3. CASE AddReadings(u)
  <2>1. /\ db' = [db EXCEPT ![u] = @ \o cts[u]] /\ UNCHANGED <<ts, cts>> /\ cpc[u] = "write"
        /\ cpc' = [cpc EXCEPT ![u] = "trim"]
    BY <1>3 DEF AddReadings
  <2>2. Initial(Range(cts[u]), Range(cts[u])) /\ cts[u] \in Seq(Reading)
    BY <1>t DEF Initial
  <2>3. \A v \in URIs : cpc'[v] \in {"write", "trim"} =>
                         cpc[v] \in {"write", "trim"} /\ cts'[v] = cts[v]
    BY <1>t, <2>1
  <2>4. QED
    BY <1>2, <2>1, <2>2, <2>3
<1>4. CASE AddReadingsFails(u)
  <2>1. PICK b \in Seq(Reading) : Initial(Range(b), Range(cts[u])) /\ db' = [db EXCEPT ![u] = @ \o b]
    <3>1. PICK n \in 0..Len(cts[u]) : db' = [db EXCEPT ![u] = @ \o SubSeq(cts[u], 1, n)]
      BY <1>4 DEF AddReadingsFails
    <3>2. cts[u] \in Seq(Reading) /\ Sorted(cts[u])
      BY <1>4, <1>t DEF AddReadingsFails, CopiesAgree
    <3>3. SubSeq(cts[u], 1, n) \in Seq(Reading) /\ Initial(Range(SubSeq(cts[u], 1, n)), Range(cts[u]))
      BY <3>2, PrefixType, PrefixInitial
    <3>4. QED
      BY <3>1, <3>3
  <2>2. /\ UNCHANGED ts /\ cpc[u] = "write"
        /\ cpc' = [cpc EXCEPT ![u] = "sleep"] /\ cts' = [cts EXCEPT ![u] = <<>>]
    BY <1>4 DEF AddReadingsFails, Retry
  <2>3. \A v \in URIs : cpc'[v] \in {"write", "trim"} =>
                         cpc[v] \in {"write", "trim"} /\ cts'[v] = cts[v]
    BY <1>t, <2>2
  <2>4. QED
    BY <1>2, <2>1, <2>2, <2>3
<1>5. CASE Trim(u)
  <2>1. ts' = [ts EXCEPT ![u] = <<>>]
    BY <1>5, <1>t, TrimmedIsEmpty DEF Trim
  <2>2. UNCHANGED db /\ cpc' = [cpc EXCEPT ![u] = "sleep"] /\ cts' = [cts EXCEPT ![u] = <<>>]
    BY <1>5 DEF Trim, storeVars
  <2>3. \A v \in URIs : /\ ts'[v] = IF v = u THEN <<>> ELSE ts[v]
                        /\ cpc'[v] = IF v = u THEN "sleep" ELSE cpc[v]
                        /\ cts'[v] = IF v = u THEN <<>> ELSE cts[v]
    BY <1>t, <2>1, <2>2
  <2>4. ASSUME NEW v \in URIs
        PROVE  /\ Sorted(ts'[v]) /\ InOrder(db'[v], ts'[v])
               /\ cpc'[v] \in {"write", "trim"} =>
                    Sorted(cts'[v]) /\ Initial(Range(cts'[v]), Range(ts'[v]))
    <3>1. CASE v = u
      BY <2>3, <3>1, InOrderEmpty
    <3>2. CASE v # u
      BY <2>2, <2>3, <3>2 DEF CopiesAgree
    <3>3. QED
      BY <3>1, <3>2
  <2>5. ASSUME rpc = "store"
        PROVE  /\ Sorted(rts) /\ InOrder(db'[Msg.uri], rts)
               /\ Initial(Range(ts'[Msg.uri]), Range(rts))
               /\ \A r \in Range(rts) : r.msg <= taken
    <3>1. PICK m \in URIs : m = Msg.uri
      BY <1>r, <2>5
    <3>2. CASE m = u
      BY <2>2, <2>3, <2>5, <3>1, <3>2, InOrderEmpty, RangeOfEmpty DEF CopiesAgree
    <3>3. CASE m # u
      BY <2>2, <2>3, <2>5, <3>1, <3>3 DEF CopiesAgree
    <3>4. QED
      BY <3>2, <3>3
  <2>6. QED
    BY <1>r, <2>4, <2>5 DEF CopiesAgree
<1>6. QED
  BY <1>1, <1>3, <1>4, <1>5 DEF Committer

\* Every step keeps the copies in agreement.
LEMMA CopiesStep ==
  ASSUME TypeOK, CommitterHasStream, TrimOnlyWritten, SavedIsOld, CopiesAgree, [Next]_vars
  PROVE  CopiesAgree'
<1>1. ASSUME NEW u \in URIs, NEW p \in Payloads, Deliver(u, p) PROVE CopiesAgree'
  <2>1. UNCHANGED <<taken, rpc, rts, ts, cpc, cts, db>>
    BY <1>1 DEF Deliver, readerVars, committerVars, storeVars
  <2>2. rpc = "store" => Msg' = Msg
    BY <1>1, MsgStays
  <2>3. QED
    BY <2>1, <2>2 DEF CopiesAgree
<1>2. CASE Restart
  <2>1. /\ UNCHANGED db /\ rpc' = "recv"
        /\ \A v \in URIs : ts'[v] = <<>> /\ cpc'[v] = "off"
    BY <1>2 DEF Restart, storeVars
  <2>2. QED
    BY <2>1, InOrderEmpty DEF CopiesAgree
<1>3. CASE UNCHANGED vars
  BY <1>3 DEF vars, CopiesAgree, Msg
<1>4. QED
  BY <1>1, <1>2, <1>3, CopiesReader, CopiesCommitter DEF Next

\* The invariant that carries the refinement.
LEMMA CopiesAlwaysAgree == Spec => [](TypeOK /\ TrimOnlyWritten /\ SavedIsOld /\ CopiesAgree)
<1>1. Init => SavedIsOld /\ CopiesAgree
  BY InOrderEmpty DEF Init, SavedIsOld, CopiesAgree
<1>2. TypeOK /\ CommitterHasStream /\ TrimOnlyWritten /\ SavedIsOld /\ CopiesAgree /\ [Next]_vars
      => SavedIsOld' /\ CopiesAgree'
  BY SavedStep, CopiesStep
<1>3. QED
  BY <1>1, <1>2, TypeCorrect, CommitterSafe, TrimSafe, PTL DEF Spec

-----------------------------------------------------------------------------
(* Nothing is lost but by a trim.                                           *)

LEMMA CollectingStep ==
  ASSUME TypeOK, CommitterHasStream, Collecting, [Next]_vars
  PROVE  Collecting'
<1> USE DEF Collecting
<1>t. /\ ts \in [URIs -> Seq(Reading)] /\ cpc \in [URIs -> {"off", "sleep", "write", "trim"}]
      /\ cts \in [URIs -> Seq(Reading)] /\ (rpc # "recv" => Msg.uri \in URIs)
  BY MsgType DEF TypeOK, MapOK, CommitterOK
<1>1. ASSUME NEW u \in URIs, NEW p \in Payloads, Deliver(u, p) PROVE Collecting'
  BY <1>1, MsgStays DEF Deliver, readerVars, committerVars
<1>2. CASE Receive
  <2>1. UNCHANGED <<cpc, cts>> /\ taken' = taken + 1 /\ sent' = sent
    BY <1>2 DEF Receive, committerVars
  <2>2. Msg' = sent[taken + 1] /\ taken < Len(sent)
    BY <1>2, <2>1 DEF Msg, Receive
  <2>3. CASE UNCHANGED <<seen, ts>>
    <3>1. rpc' = "recv" \/ (rpc' = "load" /\ Msg'.uri \in seen)
      BY <1>2, <2>2, <2>3 DEF Receive
    <3>2. QED
      BY <2>1, <2>3, <3>1
  <2>4. CASE rpc' = "meta" /\ Msg'.uri \notin seen /\ seen' = seen \cup {Msg'.uri}
             /\ ts' = [ts EXCEPT ![Msg'.uri] = <<>>]
    <3>1. PICK m \in URIs : m = Msg'.uri
      BY <2>2, MsgType, LenProperties DEF TypeOK, ChannelOK
    <3>2. cpc[m] = "off"
      BY <2>4, <3>1, <1>t DEF CommitterHasStream
    <3>3. \A v \in URIs : ts'[v] = IF v = m THEN <<>> ELSE ts[v]
      BY <1>t, <2>4, <3>1
    <3>4. QED
      BY <2>1, <2>4, <3>1, <3>2, <3>3
  <2>5. QED
    BY <1>2, <2>2, <2>3, <2>4 DEF Receive
<1>3. CASE InitializeURI
  BY <1>3 DEF InitializeURI, committerVars, Msg
<1>4. ASSUME StreamExists \/ RegisterStream PROVE Collecting'
  <2>1. UNCHANGED <<sent, taken, seen, ts, cts>> /\ rpc \in {"exists", "register"}
    BY <1>4 DEF StreamExists, RegisterStream
  <2>2. \/ rpc' \in {"recv", "register"} /\ cpc' = cpc
        \/ rpc' = "load" /\ cpc' = [cpc EXCEPT ![Msg.uri] = "sleep"]
    BY <1>4 DEF StreamExists, RegisterStream, RegisterFails, StartCommitter
  <2>3. PICK m \in URIs : m = Msg.uri /\ m \in seen /\ cpc[m] = "off" /\ Msg'.uri = m
    BY <1>t, <2>1 DEF Msg
  <2>4. cts[m] = <<>>
    BY <2>3
  <2>5. \A v \in URIs : cpc'[v] = cpc[v] \/ v = m
    BY <1>t, <2>2, <2>3
  <2>6. QED
    BY <2>1, <2>2, <2>3, <2>4, <2>5
<1>5. ASSUME Load \/ Recover PROVE Collecting'
  <2>1. UNCHANGED <<sent, taken, seen, ts, cpc, cts>> /\ rpc # "recv" /\ rpc' \in {"recv", "store", "panicked"}
    BY <1>5 DEF Load, Recover, committerVars
  <2>2. QED
    BY <2>1 DEF Msg
<1>6. CASE Store
  <2>1. UNCHANGED <<seen, cpc, cts>> /\ rpc' = "recv" /\ rpc = "store"
    BY <1>6 DEF Store, committerVars
  <2>2. \A v \in URIs : v # Msg.uri => ts'[v] = ts[v]
    BY <1>6, <1>t DEF Store
  <2>3. QED
    BY <2>1, <2>2
<1>7. ASSUME NEW u \in URIs, Committer(u) PROVE Collecting'
  <2>1. UNCHANGED <<rpc, seen>> /\ Msg' = Msg
    BY <1>7 DEF Committer, Snapshot, AddReadings, AddReadingsFails, Trim, readerVars, Msg
  <2>2. cpc[u] # "off" /\ cpc'[u] # "off"
    BY <1>7, <1>t DEF Committer, Snapshot, AddReadings, AddReadingsFails, Retry, Trim
  <2>3. \A v \in URIs \ {u} : ts'[v] = ts[v] /\ cpc'[v] = cpc[v] /\ cts'[v] = cts[v]
    BY <1>7, <1>t DEF Committer, Snapshot, AddReadings, AddReadingsFails, Retry, Trim
  <2>4. ts'[u] = ts[u] \/ ts'[u] = <<>>
    <3>1. CASE Trim(u)
      BY <1>t, <3>1, TrimmedIsEmpty DEF Trim
    <3>2. CASE Snapshot(u) \/ AddReadings(u) \/ AddReadingsFails(u)
      BY <3>2 DEF Snapshot, AddReadings, AddReadingsFails
    <3>3. QED
      BY <1>7, <3>1, <3>2 DEF Committer
  <2>5. cpc'[u] = "sleep" => cts'[u] = <<>>
    BY <1>7, <1>t DEF Committer, Snapshot, AddReadings, AddReadingsFails, Retry, Trim
  <2>6. cpc'[u] \in {"sleep", "write", "trim"}
    BY <1>7, <1>t DEF Committer, Snapshot, AddReadings, AddReadingsFails, Retry, Trim
  <2>7. rpc \in {"meta", "exists", "register"} => Msg.uri # u
    BY <2>2
  <2>8. QED
    BY <1>t, <2>1, <2>3, <2>4, <2>5, <2>6, <2>7
<1>8. CASE Restart
  <2>1. /\ rpc' = "recv" /\ seen' = {}
        /\ \A v \in URIs : ts'[v] = <<>> /\ cpc'[v] = "off" /\ cts'[v] = <<>>
    BY <1>8 DEF Restart
  <2>2. QED
    BY <2>1
<1>9. CASE UNCHANGED vars
  BY <1>9 DEF vars, Msg
<1>10. QED
  BY <1>1, <1>2, <1>3, <1>4, <1>5, <1>6, <1>7, <1>8, <1>9 DEF Next, Reader

\* What of a URI's readings is given up by a step: nothing, or, by its own trim or a
\* restart, what nobody has promised to keep.
LEMMA NothingElseLost ==
  ASSUME TypeOK, CommitterHasStream, TrimOnlyWritten, CopiesAgree, Collecting, [Next]_vars, NEW v \in URIs
  PROVE  \/ Held(v) \subseteq Held(v)'
         \/ restarts' # restarts
         \/ Trim(v) /\ (Held(v) \ Held(v)') \cap Range(cts[v]) = {}
<1>t. /\ ts \in [URIs -> Seq(Reading)] /\ cpc \in [URIs -> {"off", "sleep", "write", "trim"}]
      /\ cts \in [URIs -> Seq(Reading)] /\ db \in [URIs -> Seq(Reading)]
      /\ (rpc # "recv" => Msg.uri \in URIs)
  BY MsgType DEF TypeOK, MapOK, CommitterOK, StoreOK
<1>1. ASSUME Range(db[v]) \subseteq Range(db'[v]), Range(ts[v]) \subseteq Range(ts'[v]), Range(cts[v]) \subseteq Held(v)'
      PROVE  Held(v) \subseteq Held(v)'
  BY <1>1 DEF Held
<1>2. ASSUME NEW u \in URIs, NEW p \in Payloads, Deliver(u, p) PROVE Held(v) \subseteq Held(v)'
  BY <1>2 DEF Deliver, committerVars, storeVars, Held
<1>3. CASE Receive
  <2>1. UNCHANGED <<db, cts>>
    BY <1>3 DEF Receive, storeVars, committerVars
  <2>2. PICK m : m = sent[taken + 1].uri
    OBVIOUS
  <2>3. ts' = ts \/ (m \notin seen /\ ts' = [ts EXCEPT ![m] = <<>>])
    BY <1>3, <2>2 DEF Receive
  <2>4. ts'[v] = ts[v] \/ ts[v] = <<>>
    BY <1>t, <2>3 DEF Collecting
  <2>5. Range(ts[v]) \subseteq Range(ts'[v])
    BY <2>4, RangeOfEmpty
  <2>6. QED
    BY <2>1, <2>5 DEF Held
<1>4. CASE InitializeURI \/ StreamExists \/ RegisterStream \/ Load \/ Recover \/ UNCHANGED vars
  <2>1. UNCHANGED <<db, ts, cts>>
    BY <1>4 DEF InitializeURI, StreamExists, RegisterStream, Load, Recover, vars, storeVars, committerVars
  <2>2. QED
    BY <2>1 DEF Held
<1>5. CASE Store
  <2>1. UNCHANGED <<db, cts>> /\ rpc = "store"
    BY <1>5 DEF Store, storeVars, committerVars
  <2>2. PICK m \in URIs : m = Msg.uri
    BY <1>t, <2>1
  <2>3. ts' = [ts EXCEPT ![m] = rts] /\ Range(ts[m]) \subseteq Range(rts)
    BY <1>5, <2>1, <2>2 DEF Store, CopiesAgree, Initial
  <2>4. ts'[v] = IF v = m THEN rts ELSE ts[v]
    BY <1>t, <2>3
  <2>5. Range(ts[v]) \subseteq Range(ts'[v])
    BY <2>3, <2>4
  <2>6. QED
    BY <2>1, <2>5 DEF Held
<1>6. ASSUME NEW u \in URIs, Snapshot(u) PROVE Held(v) \subseteq Held(v)'
  <2>1. UNCHANGED <<db, ts>> /\ cts' = [cts EXCEPT ![u] = ts[u]] /\ cpc[u] = "sleep"
    BY <1>6 DEF Snapshot, storeVars
  <2>2. cts'[v] = cts[v] \/ cts[v] = <<>>
    BY <1>t, <2>1 DEF Collecting
  <2>3. Range(cts[v]) \subseteq Range(cts'[v])
    BY <2>2, RangeOfEmpty
  <2>4. QED
    BY <2>1, <2>3 DEF Held
<1>7. ASSUME NEW u \in URIs, NEW b \in Seq(Reading), db' = [db EXCEPT ![u] = @ \o b]
      PROVE  Range(db[v]) \subseteq Range(db'[v])
  <2>1. PICK d \in Seq(Reading) : d = db[v]
    BY <1>t
  <2>2. Range(d \o b) = Range(d) \cup Range(b)
    BY <2>1, RangeConcatenation
  <2>3. db'[v] = d \/ db'[v] = d \o b
    BY <1>t, <1>7, <2>1
  <2>4. QED
    BY <2>1, <2>2, <2>3
<1>8. ASSUME NEW u \in URIs, AddReadings(u) PROVE Held(v) \subseteq Held(v)'
  <2>1. UNCHANGED <<ts, cts>> /\ db' = [db EXCEPT ![u] = @ \o cts[u]] /\ cts[u] \in Seq(Reading)
    BY <1>8, <1>t DEF AddReadings
  <2>2. Range(db[v]) \subseteq Range(db'[v])
    BY <1>7, <2>1
  <2>3. QED
    BY <2>1, <2>2 DEF Held
<1>9. ASSUME NEW u \in URIs, AddReadingsFails(u) PROVE Held(v) \subseteq Held(v)'
  <2>1. PICK n \in 0..Len(cts[u]) : db' = [db EXCEPT ![u] = @ \o SubSeq(cts[u], 1, n)]
    BY <1>9 DEF AddReadingsFails
  <2>2. SubSeq(cts[u], 1, n) \in Seq(Reading)
    BY <1>t, PrefixType
  <2>3. Range(db[v]) \subseteq Range(db'[v])
    BY <1>7, <2>1, <2>2
  <2>4. UNCHANGED ts /\ cts' = [cts EXCEPT ![u] = <<>>] /\ cpc[u] = "write"
    BY <1>9 DEF AddReadingsFails, Retry
  <2>5. cts'[v] = cts[v] \/ Range(cts[v]) \subseteq Range(ts[v])
    BY <1>t, <2>4 DEF CopiesAgree, Initial
  <2>6. QED
    BY <2>3, <2>4, <2>5 DEF Held
<1>10. ASSUME NEW u \in URIs, Trim(u), u # v PROVE Held(v) \subseteq Held(v)'
  <2>1. UNCHANGED db /\ ts'[v] = ts[v] /\ cts'[v] = cts[v]
    BY <1>10, <1>t DEF Trim, storeVars
  <2>2. QED
    BY <2>1 DEF Held
<1>11. ASSUME Trim(v) PROVE (Held(v) \ Held(v)') \cap Range(cts[v]) = {}
  <2>1. UNCHANGED db /\ Range(cts[v]) \subseteq Range(db[v])
    BY <1>11 DEF Trim, storeVars, TrimOnlyWritten
  <2>2. QED
    BY <2>1 DEF Held
<1>12. CASE Restart
  BY <1>12 DEF Restart, TypeOK, BoundsOK
<1>13. QED
  BY <1>2, <1>3, <1>4, <1>5, <1>6, <1>8, <1>9, <1>10, <1>11, <1>12 DEF Next, Reader, Committer

\* stream.go:92-102, for every interleaving, failure and restart: a reading that was
\* saved and is not in the store is lost only when a trim overwrites the map, and
\* then it is one the committer has not copied.
THEOREM OnlyTrimLoses == Spec => LostOnlyByTrim
<1>1. Init => Collecting
  BY DEF Init, Collecting
<1>2. TypeOK /\ CommitterHasStream /\ Collecting /\ [Next]_vars => Collecting'
  BY CollectingStep
<1>3. TypeOK /\ CommitterHasStream /\ TrimOnlyWritten /\ CopiesAgree /\ Collecting /\ [Next]_vars
      => [\A u \in URIs :
            LET lost == Held(u) \ Held(u)'
            IN  \/ lost = {}
                \/ restarts' # restarts
                \/ Trim(u) /\ lost \cap Range(cts[u]) = {}]_vars
  <2> SUFFICES ASSUME TypeOK, CommitterHasStream, TrimOnlyWritten, CopiesAgree, Collecting, [Next]_vars, NEW u \in URIs
               PROVE  \/ Held(u) \ Held(u)' = {}
                      \/ restarts' # restarts
                      \/ Trim(u) /\ (Held(u) \ Held(u)') \cap Range(cts[u]) = {}
    OBVIOUS
  <2>1. QED
    BY NothingElseLost
<1>4. QED
  BY <1>1, <1>2, <1>3, CommitterSafe, CopiesAlwaysAgree, PTL DEF Spec, LostOnlyByTrim

-----------------------------------------------------------------------------
(* Refinement.                                                             *)

\* Appending a batch to the store is an Insert of the abstract archive.
LEMMA InsertStep ==
  ASSUME TypeOK, TrimOnlyWritten, CopiesAgree, NEW u \in URIs, cpc[u] = "write",
         NEW b \in Seq(Reading), Sorted(b), Range(b) \subseteq Range(cts[u]),
         db' = [db EXCEPT ![u] = @ \o b], UNCHANGED saved
  PROVE  A!Insert(u)
<1>1. db \in [URIs -> Seq(Reading)]
  BY DEF TypeOK, StoreOK
<1>2. PICK d \in Seq(Reading) : d = db[u]
  BY <1>1
<1>3. db'[u] = d \o b /\ \A v \in URIs \ {u} : db'[v] = db[v]
  BY <1>1, <1>2
<1>4. SubSeq(d \o b, Len(d) + 1, Len(d \o b)) = b
  <2>1. /\ d \o b \in Seq(Reading) /\ Len(d \o b) = Len(d) + Len(b)
        /\ \A i \in 1..Len(d) + Len(b) : (d \o b)[i] = IF i <= Len(d) THEN d[i] ELSE b[i - Len(d)]
        /\ Len(d) \in Nat /\ Len(b) \in Nat
    BY ConcatProperties, LenProperties
  <2>2. PICK s \in Seq(Reading) : s = d \o b
    BY <2>1
  <2>3. PICK m \in Int : m = Len(d) + 1
    BY <2>1
  <2>4. PICK n \in Int : n = Len(d) + Len(b)
    BY <2>1
  <2>5. \A i \in m..n : s[i] \in Reading
    BY <2>1, <2>2, <2>3, <2>4
  <2>6. /\ SubSeq(s, m, n) \in Seq(Reading)
        /\ Len(SubSeq(s, m, n)) = IF m <= n THEN n - m + 1 ELSE 0
        /\ \A i \in 1..n - m + 1 : SubSeq(s, m, n)[i] = s[m + i - 1]
    BY <2>5, SubSeqProperties
  <2>7. PICK q \in Seq(Reading) : q = SubSeq(s, m, n)
    BY <2>6
  <2>8. Len(q) = Len(b) /\ \A i \in 1..Len(b) : q[i] = s[Len(d) + i]
    <3>1. n - m + 1 = Len(b) /\ (m <= n \/ Len(b) = 0)
      BY <2>1, <2>3, <2>4
    <3>2. Len(q) = Len(b)
      BY <2>6, <2>7, <3>1
    <3>3. \A i \in 1..Len(b) : q[i] = s[m + i - 1]
      BY <2>6, <2>7, <3>1
    <3>4. \A i \in 1..Len(b) : m + i - 1 = Len(d) + i
      BY <2>1, <2>3
    <3>5. QED
      BY <3>2, <3>3, <3>4
  <2>9. \A i \in 1..Len(b) : q[i] = b[i]
    BY <2>1, <2>2, <2>8
  <2>10. q = b
    BY <2>8, <2>9, SeqEqual
  <2>11. QED
    BY <2>1, <2>2, <2>3, <2>4, <2>7, <2>10
<1>5. Range(b) \subseteq saved[u]
  BY DEF TrimOnlyWritten
<1>6. InOrder(d, b)
  <2>1. Range(cts[u]) \subseteq Range(ts[u]) /\ InOrder(db[u], ts[u])
    BY DEF CopiesAgree, Initial
  <2>2. QED
    BY <1>2, <2>1 DEF InOrder
<1>7. QED
  <2>1. PICK e : e = db'[u]
    OBVIOUS
  <2>2. PICK s : s = SubSeq(e, Len(d) + 1, Len(e))
    OBVIOUS
  <2>3. s = b /\ e = d \o s
    BY <1>3, <1>4, <2>1, <2>2
  <2>4. A!Sorted(s)
    BY <2>3 DEF A!Sorted, A!Before, Sorted, Before
  <2>5. A!InOrder(d, s)
    BY <1>6, <2>3 DEF A!InOrder, A!Before, A!Range, InOrder, Before, Range
  <2>6. A!Range(s) \subseteq saved[u]
    BY <1>5, <2>3 DEF A!Range, Range
  <2>7. QED
    BY <1>2, <1>3, <2>1, <2>2, <2>3, <2>4, <2>5, <2>6 DEF A!Insert

\* Every step of the stream is a step of the abstract archive or a stutter.
LEMMA RefinementStep ==
  ASSUME TypeOK, TrimOnlyWritten, CopiesAgree, [Next]_vars
  PROVE  [A!Next]_A!vars
<1>t. /\ cts \in [URIs -> Seq(Reading)] /\ saved \in [URIs -> SUBSET Reading]
      /\ (rpc # "recv" => Msg.uri \in URIs)
  BY MsgType DEF TypeOK, CommitterOK, MapOK
<1>1. CASE UNCHANGED <<saved, db>>
  BY <1>1 DEF A!vars
<1>2. CASE Store
  <2>1. PICK m \in URIs : m = Msg.uri
    BY <1>2, <1>t DEF Store
  <2>2. saved' = [saved EXCEPT ![m] = @ \cup Range(rts)] /\ UNCHANGED db
    BY <1>2, <2>1 DEF Store, storeVars
  <2>3. A!Accept(m)
    BY <1>t, <2>2 DEF A!Accept
  <2>4. QED
    BY <2>3 DEF A!Next
<1>3. ASSUME NEW u \in URIs, AddReadings(u) PROVE A!Next
  <2>1. /\ db' = [db EXCEPT ![u] = @ \o cts[u]] /\ UNCHANGED saved /\ cpc[u] = "write"
        /\ cts[u] \in Seq(Reading) /\ Sorted(cts[u])
    BY <1>3, <1>t DEF AddReadings, CopiesAgree
  <2>2. A!Insert(u)
    BY <2>1, InsertStep
  <2>3. QED
    BY <2>2 DEF A!Next
<1>4. ASSUME NEW u \in URIs, AddReadingsFails(u) PROVE A!Next
  <2>1. cts[u] \in Seq(Reading) /\ Sorted(cts[u]) /\ UNCHANGED saved /\ cpc[u] = "write"
    BY <1>4, <1>t DEF AddReadingsFails, CopiesAgree
  <2>2. PICK b \in Seq(Reading) : /\ Sorted(b) /\ Range(b) \subseteq Range(cts[u])
                                 /\ db' = [db EXCEPT ![u] = @ \o b]
    <3>1. PICK n \in 0..Len(cts[u]) : db' = [db EXCEPT ![u] = @ \o SubSeq(cts[u], 1, n)]
      BY <1>4 DEF AddReadingsFails
    <3>2. /\ SubSeq(cts[u], 1, n) \in Seq(Reading) /\ Sorted(SubSeq(cts[u], 1, n))
          /\ Range(SubSeq(cts[u], 1, n)) \subseteq Range(cts[u])
      BY <2>1, PrefixType, PrefixInitial
    <3>3. QED
      BY <3>1, <3>2
  <2>3. A!Insert(u)
    BY <2>1, <2>2, InsertStep
  <2>4. QED
    BY <2>3 DEF A!Next
<1>5. ASSUME NEW u \in URIs, Snapshot(u) \/ Trim(u) PROVE UNCHANGED <<saved, db>>
  BY <1>5 DEF Snapshot, Trim, storeVars
<1>6. ASSUME Receive \/ InitializeURI \/ StreamExists \/ RegisterStream \/ Load \/ Recover
             \/ Restart \/ UNCHANGED vars
      PROVE  UNCHANGED <<saved, db>>
  BY <1>6 DEF Receive, InitializeURI, StreamExists, RegisterStream, Load, Recover, Restart,
              vars, storeVars
<1>7. ASSUME NEW u \in URIs, NEW p \in Payloads, Deliver(u, p) PROVE UNCHANGED <<saved, db>>
  BY <1>7 DEF Deliver, storeVars
<1>8. QED
  BY <1>1, <1>2, <1>3, <1>4, <1>5, <1>6, <1>7 DEF Next, Reader, Committer

\* The stream implements the abstract archive: for every interleaving of reader
\* and committers, failing writes and restarts, the store of each URI grows by
\* ordered batches of saved readings, and what enters it late is a repeat.
THEOREM Refinement == Spec => ImplementsArchive
<1>1. Init => A!Init
  BY DEF Init, A!Init
<1>2. TypeOK /\ TrimOnlyWritten /\ CopiesAgree /\ [Next]_vars => [A!Next]_A!vars
  BY RefinementStep
<1>3. QED
  BY <1>1, <1>2, CopiesAlwaysAgree, PTL DEF Spec, ImplementsArchive, A!Spec
=============================================================================
