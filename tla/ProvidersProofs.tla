-------------------------- MODULE ProvidersProofs ---------------------------
(* The safety properties of streams and bids, proved for any providers,    *)
(* calls and ads, any length of the channels and any number of chunks.     *)
EXTENDS Providers, TLAPS

\* Steps of the two parts of the module, which have no variable in common.
CallStep(c) ==
    \/ \E p \in Providers : CallStream(c, p)
    \/ Respond(c) \/ Refuse(c) \/ ReadChunk(c) \/ StreamStep(c)
    \/ ReaderStep(c) \/ Leave(c) \/ Cancel(c)
AdStep(a) == DrawUp(a) \/ Answer(a) \/ QueryStep(a) \/ TakeReply(a) \/ BidTimeout(a)

Phases == {"none", "requesting", "failed", "scanning", "sending", "finishing", "closed"}
CallTypes ==
    /\ callee \in [Calls -> Providers \cup {None}]
    /\ call \in [Calls -> Phases] /\ made \in [Calls -> Nat]
    /\ ch \in [Calls -> Seq(Chunk)] /\ got \in [Calls -> Seq(Chunk)]
    /\ reader \in [Calls -> {"reading", "finished", "gone"}]
    /\ cancelled \subseteq Calls /\ cut \subseteq Calls
AdTypes ==
    /\ bid \in [Ads -> {"none", "waiting", "made", "declined"}]
    /\ query \in [Ads -> Query]
    /\ reply \in [Ads -> Seq(Snapshot)]
    /\ wanted \in [Ads -> Specs \cup {Unread}]
    /\ \A a \in Ads : bid[a] # "none" => wanted[a] \in Specs
    /\ cv \in [Ads -> [free : Nat, gpus : Seq(Snapshot)]]

\* What a call has sent is what was received and what is still in its channel: the chunks
\* that were read, up to the one in the goroutine's hands or the one that a cancellation ended.
Sent(c) == Len(got[c]) + Len(ch[c])
InOrder(c) ==
    /\ \A i \in 1 .. Len(got[c]) : got[c][i].no = i
    /\ \A i \in 1 .. Len(ch[c]) : ch[c][i].no = Len(got[c]) + i
LastIsLast(c) ==
    /\ \A i \in 1 .. Len(got[c]) :
           got[c][i].done => i = made[c] /\ call[c] = "closed" /\ c \notin cut
    /\ \A i \in 1 .. Len(ch[c]) :
           ch[c][i].done => Len(got[c]) + i = made[c] /\ call[c] = "closed" /\ c \notin cut
LastIsThere(c) ==
    \/ Len(ch[c]) > 0 /\ ch[c][Len(ch[c])].done
    \/ Len(ch[c]) = 0 /\ Len(got[c]) > 0 /\ got[c][Len(got[c])].done
Counted(c) ==
    /\ call[c] \in {"none", "requesting", "failed"} => made[c] = 0
    /\ call[c] \notin {"sending", "finishing", "closed"} => Sent(c) = made[c]
    /\ call[c] \in {"sending", "finishing"} => Sent(c) + 1 = made[c]
    /\ call[c] = "closed" =>
           \/ Sent(c) = made[c] /\ (c \in cut \/ LastIsThere(c))
           \/ Sent(c) + 1 = made[c] /\ c \in cancelled
StreamInv(c) ==
    /\ InOrder(c) /\ LastIsLast(c) /\ Counted(c)
    /\ c \in cut => call[c] = "closed"
    /\ reader[c] = "finished" => call[c] = "closed" /\ ch[c] = <<>>

\* A query has the snapshot of the provider that it asked last, or none.
Reported(a) ==
    LET q == query[a] IN
    \/ q.snap = ZeroSnapshot
    \/ /\ q.at \in {"reporting", "ended"}
       /\ q.who \in Providers /\ q.snap.used \in Used[q.who]
       /\ q.snap.free = TotalVRAM[q.who] - q.snap.used
Backed(a) ==
    bid[a] = "made" =>
        /\ wanted[a].vram > 0 =>
               /\ query[a].at = "ended" /\ query[a].who \in Providers
               /\ query[a].snap.used \in Used[query[a].who]
               /\ TotalVRAM[query[a].who] - query[a].snap.used >= wanted[a].vram
        /\ wanted[a].model # None =>
               (\E p \in Providers : wanted[a].model \in Models[p])
               \/ \A p \in Providers : Models[p] = {}
        /\ wanted[a].priority <= cv[a].free
BidInv(a) ==
    /\ Reported(a) /\ Backed(a)
    /\ bid[a] = "none" => query[a].at = "none"
    /\ query[a].at = "asking" => query[a].who \in Providers
    /\ reply[a] # <<>> => query[a].at = "ended" /\ reply[a] = <<query[a].snap>>

ProvidersInv ==
    /\ CallTypes /\ AdTypes
    /\ \A c \in Calls : StreamInv(c)
    /\ \A a \in Ads : BidInv(a)

-----------------------------------------------------------------------------
(* Streams.                                                                *)

\* A message appended to a channel comes last.
LEMMA Appended ==
    ASSUME NEW S, NEW q \in Seq(S), NEW x \in S
    PROVE  /\ Append(q, x) \in Seq(S) /\ Len(Append(q, x)) = Len(q) + 1
           /\ \A i \in 1 .. Len(q) + 1 :
                  \/ i \in 1 .. Len(q) /\ Append(q, x)[i] = q[i]
                  \/ i = Len(q) + 1 /\ Append(q, x)[i] = x
OBVIOUS

\* A message received from a channel was the first.
LEMMA TailOf ==
    ASSUME NEW S, NEW q \in Seq(S), q # <<>>
    PROVE  /\ Tail(q) \in Seq(S) /\ Len(Tail(q)) = Len(q) - 1 /\ Len(q) > 0
           /\ Head(q) = q[1] /\ q[1] \in S
           /\ \A i \in 1 .. Len(q) - 1 : i + 1 \in 1 .. Len(q) /\ Tail(q)[i] = q[i + 1]
OBVIOUS

\* Before anything is called no call has received anything.
LEMMA CallsStart == ProvidersInit => CallTypes /\ \A c \in Calls : StreamInv(c)
<1> SUFFICES ASSUME ProvidersInit PROVE CallTypes /\ \A c \in Calls : StreamInv(c)
  OBVIOUS
<1>1. CallTypes
  BY DEF ProvidersInit, CallTypes, Phases
<1>2. ASSUME NEW c \in Calls PROVE StreamInv(c)
  <2>1. got[c] = <<>> /\ ch[c] = <<>> /\ made[c] = 0 /\ call[c] = "none" /\ cut = {}
        /\ reader[c] = "reading"
    BY DEF ProvidersInit
  <2> QED
    BY <2>1 DEF StreamInv, InOrder, LastIsLast, Counted, Sent
<1> QED
  BY <1>1, <1>2

\* A step of a call keeps the types of all.
LEMMA CallTypesKept ==
    ASSUME CallTypes, NEW c \in Calls, CallStep(c)
    PROVE  CallTypes'
<1> USE DEF CallTypes, Phases
<1>1. ASSUME NEW p \in Providers, CallStream(c, p) PROVE CallTypes'
  BY <1>1 DEF CallStream
<1>2. CASE Respond(c) \/ Refuse(c)
  BY <1>2 DEF Respond, Refuse
<1>3. CASE ReadChunk(c)
  BY <1>3 DEF ReadChunk
<1>4. CASE EndOfBody(c) \/ NoticeCancel(c)
  BY <1>4 DEF EndOfBody, NoticeCancel
<1>5. CASE Send(c)
  <2> DEFINE x == [no |-> made[c], done |-> call[c] = "finishing"]
  <2>1. x \in Chunk
    BY DEF Chunk
  <2>2. Append(ch[c], x) \in Seq(Chunk)
    BY <2>1
  <2>3. ch' = [ch EXCEPT ![c] = Append(ch[c], x)]
    BY <1>5 DEF Send
  <2>4. ch' \in [Calls -> Seq(Chunk)]
    BY <2>2, <2>3
  <2> QED
    BY <1>5, <2>4 DEF Send
<1>6. CASE Receive(c)
  <2>1. Head(ch[c]) \in Chunk /\ Tail(ch[c]) \in Seq(Chunk)
    BY <1>6 DEF Receive
  <2>2. Append(got[c], Head(ch[c])) \in Seq(Chunk)
    BY <2>1
  <2> QED
    BY <1>6, <2>1, <2>2 DEF Receive
<1>7. CASE SeeTheEnd(c) \/ Leave(c) \/ Cancel(c)
  BY <1>7 DEF SeeTheEnd, Leave, Cancel
<1> QED
  BY <1>1, <1>2, <1>3, <1>4, <1>5, <1>6, <1>7 DEF CallStep, StreamStep, ReaderStep

\* A call that no step is about: only others are cancelled or cut.
LEMMA OtherCall ==
    ASSUME NEW d \in Calls, StreamInv(d),
           call'[d] = call[d], made'[d] = made[d], ch'[d] = ch[d], got'[d] = got[d],
           reader'[d] = reader[d] \/ (reader'[d] = "gone"),
           d \in cut' <=> d \in cut, d \in cancelled => d \in cancelled'
    PROVE  StreamInv(d)'
BY DEF StreamInv, InOrder, LastIsLast, LastIsThere, Counted, Sent

\* A step of a call keeps its stream in order.
LEMMA StreamKept ==
    ASSUME CallTypes, NEW c \in Calls, StreamInv(c), CallStep(c)
    PROVE  StreamInv(c)'
<1> USE DEF CallTypes
<1>1. ASSUME NEW p \in Providers, CallStream(c, p) PROVE StreamInv(c)'
  BY <1>1 DEF CallStream, StreamInv, InOrder, LastIsLast, Counted, Sent
<1>2. CASE Respond(c) \/ Refuse(c)
  BY <1>2 DEF Respond, Refuse, StreamInv, InOrder, LastIsLast, Counted, Sent
<1>3. CASE ReadChunk(c)
  <2>1. /\ call[c] = "scanning" /\ call'[c] \in {"sending", "finishing"}
        /\ made'[c] = made[c] + 1 /\ UNCHANGED <<ch, got, reader, cancelled, cut>>
    BY <1>3 DEF ReadChunk
  <2>2. /\ \A i \in 1 .. Len(got[c]) : ~got[c][i].done
        /\ \A i \in 1 .. Len(ch[c]) : ~ch[c][i].done
    BY <2>1 DEF StreamInv, LastIsLast
  <2> QED
    BY <2>1, <2>2 DEF StreamInv, InOrder, LastIsLast, Counted, Sent
<1>4. CASE EndOfBody(c)
  <2>1. /\ call[c] = "scanning" /\ call'[c] = "closed" /\ c \in cut'
        /\ UNCHANGED <<made, ch, got, reader, cancelled>>
    BY <1>4 DEF EndOfBody
  <2>2. /\ \A i \in 1 .. Len(got[c]) : ~got[c][i].done
        /\ \A i \in 1 .. Len(ch[c]) : ~ch[c][i].done
    BY <2>1 DEF StreamInv, LastIsLast
  <2> QED
    BY <2>1, <2>2 DEF StreamInv, InOrder, LastIsLast, Counted, Sent
<1>5. CASE NoticeCancel(c)
  <2>1. /\ call[c] \in {"sending", "finishing"} /\ call'[c] = "closed" /\ c \in cancelled
        /\ UNCHANGED <<made, ch, got, reader, cancelled, cut>>
    BY <1>5 DEF NoticeCancel
  <2> QED
    BY <2>1 DEF StreamInv, InOrder, LastIsLast, Counted, Sent
<1>6. CASE Send(c)
  <2> DEFINE x == [no |-> made[c], done |-> call[c] = "finishing"]
  <2> DEFINE n == Len(got[c])
  <2> DEFINE m == Len(ch[c])
  <2>1. /\ call[c] \in {"sending", "finishing"} /\ ch'[c] = Append(ch[c], x)
        /\ call'[c] = IF call[c] = "finishing" THEN "closed" ELSE "scanning"
        /\ UNCHANGED <<made, got, reader, cancelled, cut>>
    BY <1>6 DEF Send
  <2>2. x \in Chunk /\ x.no = made[c] /\ (x.done <=> call[c] = "finishing")
    BY DEF Chunk
  <2>3. /\ Len(ch'[c]) = m + 1
        /\ \A i \in 1 .. m + 1 :
               \/ i \in 1 .. m /\ ch'[c][i] = ch[c][i]
               \/ i = m + 1 /\ ch'[c][i] = x
    BY <2>1, <2>2, Appended
  <2>4. n \in Nat /\ m \in Nat /\ got'[c] = got[c]
    BY <2>1
  <2>5. /\ \A i \in 1 .. n : got[c][i].no = i /\ ~got[c][i].done
        /\ \A i \in 1 .. m : ch[c][i].no = n + i /\ ~ch[c][i].done
        /\ c \notin cut /\ reader[c] # "finished" /\ n + m + 1 = made[c]
    BY <2>1 DEF StreamInv, InOrder, LastIsLast, Counted, Sent
  <2> HIDE DEF x, n, m
  <2>6. ASSUME NEW i \in 1 .. m + 1
        PROVE  /\ ch'[c][i].no = n + i
               /\ ch'[c][i].done => i = m + 1 /\ call[c] = "finishing"
    <3>1. CASE i \in 1 .. m /\ ch'[c][i] = ch[c][i]
      BY <2>5, <3>1
    <3>2. CASE i = m + 1 /\ ch'[c][i] = x
      BY <2>2, <2>4, <2>5, <3>2
    <3> QED
      BY <2>3, <3>1, <3>2
  <2>7. InOrder(c)' /\ LastIsLast(c)'
    <3>1. InOrder(c)'
      BY <2>3, <2>4, <2>5, <2>6 DEF InOrder, n
    <3>2. LastIsLast(c)'
      BY <2>1, <2>3, <2>4, <2>5, <2>6 DEF LastIsLast, n
    <3> QED
      BY <3>1, <3>2
  <2>8. Counted(c)'
    <3>1. Sent(c)' = made'[c]
      BY <2>1, <2>3, <2>4, <2>5 DEF Sent, n
    <3>2. call[c] = "finishing" => LastIsThere(c)'
      <4>1. m + 1 \in 1 .. m + 1 /\ m + 1 \notin 1 .. m /\ m + 1 > 0
        BY <2>4
      <4>2. ch'[c][m + 1] = x /\ Len(ch'[c]) = m + 1
        BY <2>3, <4>1
      <4>3. call[c] = "finishing" => Len(ch'[c]) > 0 /\ ch'[c][Len(ch'[c])].done
        BY <2>2, <4>1, <4>2
      <4> QED
        BY <4>3 DEF LastIsThere
    <3> QED
      BY <2>1, <3>1, <3>2 DEF Counted
  <2> QED
    BY <2>1, <2>5, <2>7, <2>8 DEF StreamInv
<1>7. CASE Receive(c)
  <2> DEFINE n == Len(got[c])
  <2> DEFINE m == Len(ch[c])
  <2>1. /\ ch[c] # <<>> /\ got'[c] = Append(got[c], Head(ch[c])) /\ ch'[c] = Tail(ch[c])
        /\ UNCHANGED <<call, made, reader, cancelled, cut>>
    BY <1>7 DEF Receive
  <2>2. /\ Len(ch'[c]) = m - 1 /\ m > 0 /\ ch[c][1] \in Chunk /\ Head(ch[c]) = ch[c][1]
        /\ \A i \in 1 .. m - 1 : i + 1 \in 1 .. m /\ ch'[c][i] = ch[c][i + 1]
    BY <2>1, TailOf
  <2>3. /\ Len(got'[c]) = n + 1
        /\ \A i \in 1 .. n + 1 :
               \/ i \in 1 .. n /\ got'[c][i] = got[c][i]
               \/ i = n + 1 /\ got'[c][i] = ch[c][1]
    BY <2>1, <2>2, Appended
  <2>4. n \in Nat /\ m \in Nat /\ 1 \in 1 .. m
    BY <2>2
  <2>5. /\ \A i \in 1 .. n :
               /\ got[c][i].no = i
               /\ got[c][i].done => i = made[c] /\ call[c] = "closed" /\ c \notin cut
        /\ \A i \in 1 .. m :
               /\ ch[c][i].no = n + i
               /\ ch[c][i].done => n + i = made[c] /\ call[c] = "closed" /\ c \notin cut
    BY DEF StreamInv, InOrder, LastIsLast
  <2> HIDE DEF n, m
  <2>6. ASSUME NEW i \in 1 .. n + 1
        PROVE  /\ got'[c][i].no = i
               /\ got'[c][i].done => i = made[c] /\ call[c] = "closed" /\ c \notin cut
    <3>1. CASE i \in 1 .. n /\ got'[c][i] = got[c][i]
      BY <2>5, <3>1
    <3>2. CASE i = n + 1 /\ got'[c][i] = ch[c][1]
      BY <2>4, <2>5, <3>2
    <3> QED
      BY <2>3, <3>1, <3>2
  <2>7. ASSUME NEW i \in 1 .. m - 1
        PROVE  /\ ch'[c][i].no = (n + 1) + i
               /\ ch'[c][i].done => (n + 1) + i = made[c] /\ call[c] = "closed" /\ c \notin cut
    <3>1. i + 1 \in 1 .. m /\ ch'[c][i] = ch[c][i + 1] /\ n + (i + 1) = (n + 1) + i
      BY <2>2, <2>4
    <3> QED
      BY <2>5, <3>1
  <2>8. Counted(c)'
    <3>1. Sent(c)' = Sent(c)
      BY <2>2, <2>3, <2>4 DEF Sent, n, m
    <3>2. LastIsThere(c) => LastIsThere(c)'
      <4>1. ASSUME m > 1, ch[c][m].done PROVE Len(ch'[c]) > 0 /\ ch'[c][Len(ch'[c])].done
        BY <2>2, <2>4, <4>1
      <4>2. ASSUME m = 1, ch[c][m].done
            PROVE  Len(ch'[c]) = 0 /\ Len(got'[c]) > 0 /\ got'[c][Len(got'[c])].done
        <5>1. m = 1 /\ ch[c][1].done /\ Len(ch'[c]) = 0 /\ Len(got'[c]) = n + 1 /\ n + 1 > 0
          BY <2>2, <2>3, <2>4, <4>2
        <5>2. n + 1 \in 1 .. n + 1 /\ n + 1 \notin 1 .. n
          BY <2>4
        <5>3. got'[c][n + 1] = ch[c][1]
          BY <2>3, <5>2
        <5> QED
          BY <5>1, <5>3
      <4>3. LastIsThere(c) => m > 0 /\ ch[c][m].done
        BY <2>2, <2>4 DEF LastIsThere, m
      <4> QED
        BY <2>4, <4>1, <4>2, <4>3 DEF LastIsThere
    <3> QED
      BY <2>1, <3>1, <3>2 DEF StreamInv, Counted
  <2>9. reader[c] # "finished"
    BY <2>1 DEF StreamInv
  <2>10. InOrder(c)' /\ LastIsLast(c)'
    <3>1. InOrder(c)'
      BY <2>2, <2>3, <2>6, <2>7 DEF InOrder
    <3>2. LastIsLast(c)'
      BY <2>1, <2>2, <2>3, <2>6, <2>7 DEF LastIsLast
    <3> QED
      BY <3>1, <3>2
  <2> QED
    BY <2>1, <2>8, <2>9, <2>10 DEF StreamInv
<1>8. CASE SeeTheEnd(c)
  BY <1>8 DEF SeeTheEnd, StreamInv, InOrder, LastIsLast, LastIsThere, Counted, Sent
<1>9. CASE Leave(c) \/ Cancel(c)
  <2>1. /\ UNCHANGED <<call, made, ch, got, cut>> /\ cancelled \subseteq cancelled'
        /\ reader'[c] = reader[c] \/ reader'[c] = "gone"
    BY <1>9 DEF Leave, Cancel
  <2> QED
    BY <2>1, OtherCall
<1> QED
  BY <1>1, <1>2, <1>3, <1>4, <1>5, <1>6, <1>7, <1>8, <1>9 DEF CallStep, StreamStep, ReaderStep

\* It leaves the streams of the other calls alone.
LEMMA OthersKept ==
    ASSUME CallTypes, NEW c \in Calls, CallStep(c), NEW d \in Calls \ {c}, StreamInv(d)
    PROVE  StreamInv(d)'
<1> USE DEF CallTypes
<1>1. /\ call'[d] = call[d] /\ made'[d] = made[d] /\ ch'[d] = ch[d] /\ got'[d] = got[d]
      /\ reader'[d] = reader[d] /\ (d \in cut' <=> d \in cut)
      /\ (d \in cancelled => d \in cancelled')
  BY DEF CallStep, CallStream, Respond, Refuse, ReadChunk, StreamStep, EndOfBody, Send,
         NoticeCancel, ReaderStep, Receive, SeeTheEnd, Leave, Cancel
<1> QED
  BY <1>1, OtherCall

-----------------------------------------------------------------------------
(* Bids.                                                                   *)

\* Before anything is drawn up there are no bids.
LEMMA AdsStart == ProvidersInit => AdTypes /\ \A a \in Ads : BidInv(a)
<1> SUFFICES ASSUME ProvidersInit PROVE AdTypes /\ \A a \in Ads : BidInv(a)
  OBVIOUS
<1>1. [at |-> "none", left |-> {}, who |-> None, snap |-> ZeroSnapshot] \in Query
      /\ <<>> \in Seq(Snapshot)
  BY DEF Query, Snapshot, ZeroSnapshot
<1>2. AdTypes
  BY <1>1 DEF ProvidersInit, AdTypes
<1>3. \A a \in Ads : BidInv(a)
  BY DEF ProvidersInit, BidInv, Reported, Backed
<1> QED
  BY <1>2, <1>3

\* What a step makes of the query of an ad.
LEMMA QueryKept ==
    ASSUME AdTypes, NEW a \in Ads, NEW q \in Query, query' = [query EXCEPT ![a] = q]
    PROVE  query' \in [Ads -> Query] /\ query'[a] = q
BY DEF AdTypes

\* A query that has no snapshot yet, as it goes on.
LEMMA QueryStepKept ==
    ASSUME AdTypes, NEW a \in Ads, BidInv(a), NEW q \in Query,
           query' = [query EXCEPT ![a] = q], UNCHANGED <<bid, reply, wanted, cv>>,
           query[a].at \in {"choosing", "asking"}, q.at \in {"choosing", "asking", "reporting"},
           q.at = "asking" => q.who \in Providers,
           q.snap = ZeroSnapshot \/
               /\ q.at = "reporting" /\ q.who \in Providers /\ q.snap.used \in Used[q.who]
               /\ q.snap.free = TotalVRAM[q.who] - q.snap.used
    PROVE  AdTypes' /\ BidInv(a)'
<1>1. query' \in [Ads -> Query] /\ query'[a] = q
  BY QueryKept
<1>2. AdTypes'
  BY <1>1 DEF AdTypes
<1>3. bid'[a] = bid[a] /\ reply'[a] = reply[a] /\ wanted'[a] = wanted[a] /\ cv'[a] = cv[a]
  OBVIOUS
<1>4. Reported(a)'
  BY <1>1 DEF Reported
<1>5. Backed(a)'
  BY <1>1, <1>3 DEF BidInv, Backed
<1> QED
  BY <1>1, <1>2, <1>3, <1>4, <1>5 DEF BidInv

\* What Match accepts is backed.
LEMMA MatchIsBacked ==
    ASSUME AdTypes, NEW a \in Ads, BidInv(a), bid[a] = "waiting", NEW gpus \in Seq(Snapshot),
           gpus # <<>> => query[a].at = "ended" /\ gpus = <<query[a].snap>>,
           Decide(a, gpus), UNCHANGED <<query, wanted>>
    PROVE  /\ bid' \in [Ads -> {"none", "waiting", "made", "declined"}] /\ bid'[a] \in {"made", "declined"}
           /\ cv' \in [Ads -> [free : Nat, gpus : Seq(Snapshot)]]
           /\ Backed(a)'
<1> USE DEF AdTypes
<1>1. /\ bid' = [bid EXCEPT ![a] = IF Match(wanted[a], cv[a].free, gpus) THEN "made" ELSE "declined"]
      /\ cv' = [cv EXCEPT ![a].gpus = gpus]
  BY DEF Decide
<1>2. cv' \in [Ads -> [free : Nat, gpus : Seq(Snapshot)]] /\ cv'[a].free = cv[a].free
  BY <1>1
<1>3. bid'[a] = "made" => Match(wanted[a], cv[a].free, gpus)
  BY <1>1
<1>4. wanted[a] \in Specs /\ wanted[a].vram \in Nat /\ wanted[a].priority \in Nat /\ cv[a].free \in Nat
  BY ProvidersAssumption
<1>5. ASSUME Match(wanted[a], cv[a].free, gpus), wanted[a].vram > 0
      PROVE  /\ query[a].at = "ended" /\ query[a].who \in Providers
             /\ query[a].snap.used \in Used[query[a].who]
             /\ TotalVRAM[query[a].who] - query[a].snap.used >= wanted[a].vram
  <2>1. gpus # <<>> /\ gpus[1].free >= wanted[a].vram
    BY <1>5 DEF Match
  <2>2. query[a].at = "ended" /\ gpus[1] = query[a].snap
    BY <2>1
  <2>3. query[a].snap # ZeroSnapshot
    BY <1>4, <1>5, <2>1, <2>2 DEF ZeroSnapshot
  <2>4. /\ query[a].who \in Providers /\ query[a].snap.used \in Used[query[a].who]
        /\ query[a].snap.free = TotalVRAM[query[a].who] - query[a].snap.used
    BY <2>3 DEF BidInv, Reported
  <2> QED
    BY <2>1, <2>2, <2>4
<1>6. ASSUME Match(wanted[a], cv[a].free, gpus), wanted[a].model # None
      PROVE  (\E p \in Providers : wanted[a].model \in Models[p]) \/ \A p \in Providers : Models[p] = {}
  <2>1. AllModels # {} => wanted[a].model \in AllModels
    BY <1>6 DEF Match
  <2> QED
    BY <2>1 DEF AllModels
<1>7. ASSUME Match(wanted[a], cv[a].free, gpus) PROVE wanted[a].priority <= cv[a].free
  BY <1>4, <1>7 DEF Match
<1>8. Backed(a)'
  BY <1>2, <1>3, <1>5, <1>6, <1>7 DEF Backed
<1> QED
  BY <1>1, <1>2, <1>8

\* A step for an ad keeps what is said of its bid.
LEMMA AdKept ==
    ASSUME AdTypes, NEW a \in Ads, BidInv(a), AdStep(a)
    PROVE  AdTypes' /\ BidInv(a)'
<1> DEFINE q == query[a]
<1>0. q \in Query /\ q.snap \in Snapshot
  BY DEF AdTypes, Query
<1>1. CASE DrawUp(a)
  <2> DEFINE r == [q EXCEPT !.at = "choosing", !.left = Providers]
  <2>1. PICK spec \in Specs : wanted' = [wanted EXCEPT ![a] = spec]
    BY <1>1 DEF DrawUp
  <2>2. PICK free \in FreeGB : cv' = [cv EXCEPT ![a].free = free]
    BY <1>1 DEF DrawUp
  <2>3. /\ bid[a] = "none" /\ bid' = [bid EXCEPT ![a] = "waiting"] /\ reply' = reply
        /\ query' = [query EXCEPT ![a] = r]
    BY <1>1 DEF DrawUp
  <2>4. r \in Query /\ r.at = "choosing" /\ r.snap = q.snap
    BY <1>0 DEF Query
  <2>5. query' \in [Ads -> Query] /\ query'[a] = r
    BY <2>3, <2>4, QueryKept
  <2>6. cv' \in [Ads -> [free : Nat, gpus : Seq(Snapshot)]]
    BY <2>2, ProvidersAssumption DEF AdTypes
  <2>7. bid'[a] = "waiting" /\ reply[a] = <<>> /\ q.snap = ZeroSnapshot
    BY <2>3 DEF AdTypes, BidInv, Reported
  <2>8. AdTypes'
    BY <2>1, <2>3, <2>5, <2>6 DEF AdTypes
  <2> QED
    BY <2>3, <2>4, <2>5, <2>7, <2>8 DEF BidInv, Reported, Backed
<1>2. ASSUME NEW p \in Providers, Choose(a, p) PROVE AdTypes' /\ BidInv(a)'
  <2> DEFINE r == [q EXCEPT !.at = "asking", !.left = q.left \ {p}, !.who = p]
  <2>1. /\ q.at = "choosing" /\ UNCHANGED <<bid, reply, wanted, cv>>
        /\ query' = [query EXCEPT ![a] = r]
    BY <1>2 DEF Choose
  <2>2. r \in Query /\ r.at = "asking" /\ r.who = p /\ r.snap = q.snap
    BY <1>0, <1>2 DEF Query
  <2>3. q.snap = ZeroSnapshot
    BY <2>1 DEF BidInv, Reported
  <2> QED
    BY <1>2, <2>1, <2>2, <2>3, QueryStepKept
<1>3. CASE Answer(a)
  <2> DEFINE p == q.who
  <2>1. PICK used \in Used[p] :
            query' = IF used = 0
                     THEN [query EXCEPT ![a].at = "choosing"]
                     ELSE [query EXCEPT ![a].at = "reporting",
                               ![a].snap = [used |-> used, free |-> TotalVRAM[p] - used]]
    BY <1>3 DEF Answer
  <2>2. q.at = "asking" /\ p \in Providers /\ UNCHANGED <<bid, reply, wanted, cv>>
    BY <1>3 DEF Answer, BidInv
  <2>3. CASE used = 0
    <3> DEFINE r == [q EXCEPT !.at = "choosing"]
    <3>1. query' = [query EXCEPT ![a] = r] /\ r \in Query /\ r.at = "choosing" /\ r.snap = q.snap
      BY <1>0, <2>1, <2>3 DEF Query
    <3>2. q.snap = ZeroSnapshot
      BY <2>2 DEF BidInv, Reported
    <3> QED
      BY <2>2, <3>1, <3>2, QueryStepKept
  <2>4. CASE used # 0
    <3> DEFINE snap == [used |-> used, free |-> TotalVRAM[p] - used]
    <3> DEFINE r == [q EXCEPT !.at = "reporting", !.snap = snap]
    <3>1. query' = [query EXCEPT ![a] = r]
      BY <2>1, <2>4
    <3>2. used \in Nat /\ TotalVRAM[p] \in Nat
      BY <2>2, ProvidersAssumption
    <3>3. snap \in Snapshot /\ snap.used = used /\ snap.free = TotalVRAM[p] - used
      BY <3>2 DEF Snapshot
    <3>4. r \in Query /\ r.at = "reporting" /\ r.who = p /\ r.snap = snap
      BY <1>0, <3>3 DEF Query
    <3> HIDE DEF snap, r
    <3> QED
      BY <2>2, <3>1, <3>3, <3>4, QueryStepKept
  <2> QED
    BY <2>3, <2>4
<1>4. CASE NoAnswer(a)
  <2> DEFINE r == [q EXCEPT !.at = "choosing"]
  <2>1. /\ q.at = "asking" /\ UNCHANGED <<bid, reply, wanted, cv>>
        /\ query' = [query EXCEPT ![a] = r]
    BY <1>4 DEF NoAnswer
  <2>2. r \in Query /\ r.at = "choosing" /\ r.snap = q.snap
    BY <1>0 DEF Query
  <2>3. q.snap = ZeroSnapshot
    BY <2>1 DEF BidInv, Reported
  <2> QED
    BY <2>1, <2>2, <2>3, QueryStepKept
<1>5. CASE NoneLeft(a)
  <2> DEFINE r == [q EXCEPT !.at = "reporting", !.who = None]
  <2>1. /\ q.at = "choosing" /\ UNCHANGED <<bid, reply, wanted, cv>>
        /\ query' = [query EXCEPT ![a] = r]
    BY <1>5 DEF NoneLeft
  <2>2. r \in Query /\ r.at = "reporting" /\ r.snap = q.snap
    BY <1>0 DEF Query
  <2>3. q.snap = ZeroSnapshot
    BY <2>1 DEF BidInv, Reported
  <2> QED
    BY <2>1, <2>2, <2>3, QueryStepKept
<1>6. CASE Report(a)
  <2> DEFINE r == [q EXCEPT !.at = "ended"]
  <2>1. /\ q.at = "reporting" /\ UNCHANGED <<bid, wanted, cv>>
        /\ query' = [query EXCEPT ![a] = r] /\ reply' = [reply EXCEPT ![a] = <<q.snap>>]
    BY <1>6 DEF Report
  <2>2. r \in Query /\ r.at = "ended" /\ r.snap = q.snap /\ r.who = q.who
    BY <1>0 DEF Query
  <2>3. query' \in [Ads -> Query] /\ query'[a] = r
    BY <2>1, <2>2, QueryKept
  <2>4. reply' \in [Ads -> Seq(Snapshot)] /\ reply'[a] = <<q.snap>>
    BY <1>0, <2>1 DEF AdTypes
  <2>5. AdTypes'
    BY <2>1, <2>3, <2>4 DEF AdTypes
  <2>6. bid'[a] = bid[a] /\ wanted'[a] = wanted[a] /\ cv'[a] = cv[a]
    BY <2>1
  <2>7. Reported(a)'
    BY <2>1, <2>2, <2>3 DEF BidInv, Reported
  <2>8. Backed(a)'
    BY <2>1, <2>2, <2>3, <2>6 DEF BidInv, Backed
  <2> QED
    BY <2>1, <2>2, <2>3, <2>4, <2>5, <2>6, <2>7, <2>8 DEF BidInv
<1>7. CASE TakeReply(a)
  <2> DEFINE gpus == reply[a]
  <2>1. /\ bid[a] = "waiting" /\ gpus # <<>> /\ Decide(a, gpus) /\ UNCHANGED <<query, wanted>>
        /\ reply' = [reply EXCEPT ![a] = <<>>] /\ gpus \in Seq(Snapshot)
    BY <1>7 DEF TakeReply, AdTypes
  <2>2. query[a].at = "ended" /\ gpus = <<query[a].snap>>
    BY <2>1 DEF BidInv
  <2>3. /\ bid' \in [Ads -> {"none", "waiting", "made", "declined"}] /\ bid'[a] \in {"made", "declined"}
        /\ cv' \in [Ads -> [free : Nat, gpus : Seq(Snapshot)]] /\ Backed(a)'
    BY <2>1, <2>2, MatchIsBacked
  <2>4. reply' \in [Ads -> Seq(Snapshot)] /\ reply'[a] = <<>>
    BY <2>1 DEF AdTypes
  <2>5. AdTypes'
    <3>1. \A b \in Ads : bid'[b] # "none" => wanted'[b] \in Specs
      BY <2>1 DEF Decide, AdTypes
    <3> QED
      BY <2>1, <2>3, <2>4, <3>1 DEF AdTypes
  <2> QED
    BY <2>1, <2>3, <2>4, <2>5 DEF BidInv, Reported
<1>8. CASE BidTimeout(a)
  <2>1. /\ bid[a] = "waiting" /\ Decide(a, <<>>) /\ UNCHANGED <<query, wanted, reply>>
        /\ <<>> \in Seq(Snapshot)
    BY <1>8 DEF BidTimeout
  <2>2. /\ bid' \in [Ads -> {"none", "waiting", "made", "declined"}] /\ bid'[a] \in {"made", "declined"}
        /\ cv' \in [Ads -> [free : Nat, gpus : Seq(Snapshot)]] /\ Backed(a)'
    BY <2>1, MatchIsBacked
  <2>3. AdTypes'
    <3>1. \A b \in Ads : bid'[b] # "none" => wanted'[b] \in Specs
      BY <2>1 DEF Decide, AdTypes
    <3> QED
      BY <2>1, <2>2, <3>1 DEF AdTypes
  <2> QED
    BY <2>1, <2>2, <2>3 DEF BidInv, Reported
<1> QED
  BY <1>1, <1>2, <1>3, <1>4, <1>5, <1>6, <1>7, <1>8 DEF AdStep, QueryStep

\* It leaves the bids for the other ads alone.
LEMMA OtherAdsKept ==
    ASSUME AdTypes, NEW a \in Ads, AdStep(a), NEW b \in Ads \ {a}, BidInv(b)
    PROVE  BidInv(b)'
<1>1. /\ bid'[b] = bid[b] /\ query'[b] = query[b] /\ reply'[b] = reply[b]
      /\ wanted'[b] = wanted[b] /\ cv'[b] = cv[b]
  BY DEF AdTypes, AdStep, DrawUp, Choose, Answer, QueryStep, NoAnswer, NoneLeft, Report, TakeReply,
         BidTimeout, Decide
<1> QED
  BY <1>1 DEF BidInv, Reported, Backed

-----------------------------------------------------------------------------
(* The two together.                                                       *)

\* Types, streams and bids are in order throughout.
LEMMA ProvidersInvHolds == ProvidersSpec => []ProvidersInv
<1>1. ProvidersInit => ProvidersInv
  BY CallsStart, AdsStart DEF ProvidersInv
<1>2. ProvidersInv /\ [ProvidersNext]_providerVars => ProvidersInv'
  <2> SUFFICES ASSUME ProvidersInv, [ProvidersNext]_providerVars PROVE ProvidersInv'
    OBVIOUS
  <2> USE DEF ProvidersInv
  <2>1. ASSUME NEW c \in Calls, CallStep(c) PROVE ProvidersInv'
    <3>1. UNCHANGED bidVars
      BY <2>1 DEF CallStep, CallStream, Respond, Refuse, ReadChunk, StreamStep, EndOfBody, Send,
                  NoticeCancel, ReaderStep, Receive, SeeTheEnd, Leave, Cancel, bidVars
    <3>2. AdTypes' /\ \A a \in Ads : BidInv(a)'
      BY <3>1 DEF bidVars, AdTypes, BidInv, Reported, Backed
    <3>3. CallTypes'
      BY <2>1, CallTypesKept
    <3>4. ASSUME NEW d \in Calls PROVE StreamInv(d)'
      <4>1. CASE d = c
        BY <2>1, <4>1, StreamKept
      <4>2. CASE d # c
        BY <2>1, <4>2, OthersKept
      <4> QED
        BY <4>1, <4>2
    <3> QED
      BY <3>2, <3>3, <3>4
  <2>2. ASSUME NEW a \in Ads, AdStep(a) PROVE ProvidersInv'
    <3>1. UNCHANGED callVars
      BY <2>2 DEF AdStep, DrawUp, Answer, QueryStep, Choose, NoAnswer, NoneLeft, Report, TakeReply,
                  BidTimeout
    <3>2. CallTypes' /\ \A c \in Calls : StreamInv(c)'
      BY <3>1 DEF callVars, CallTypes, StreamInv, InOrder, LastIsLast, LastIsThere, Counted, Sent
    <3>3. AdTypes'
      BY <2>2, AdKept
    <3>4. ASSUME NEW b \in Ads PROVE BidInv(b)'
      <4>1. CASE b = a
        BY <2>2, <4>1, AdKept
      <4>2. CASE b # a
        BY <2>2, <4>2, OtherAdsKept
      <4> QED
        BY <4>1, <4>2
    <3> QED
      BY <3>2, <3>3, <3>4
  <2>3. CASE UNCHANGED providerVars
    <3>1. UNCHANGED callVars /\ UNCHANGED bidVars
      BY <2>3 DEF providerVars
    <3>2. CallTypes' /\ \A c \in Calls : StreamInv(c)'
      BY <3>1 DEF callVars, CallTypes, StreamInv, InOrder, LastIsLast, LastIsThere, Counted, Sent
    <3>3. AdTypes'
      BY <3>1 DEF bidVars, AdTypes
    <3>4. ASSUME NEW a \in Ads PROVE BidInv(a)'
      BY <3>1 DEF bidVars, BidInv, Reported, Backed
    <3> QED
      BY <3>2, <3>3, <3>4
  <2>4. ProvidersNext => (\E c \in Calls : CallStep(c)) \/ (\E a \in Ads : AdStep(a))
    BY DEF ProvidersNext, CallStep, AdStep
  <2> QED
    BY <2>1, <2>2, <2>3, <2>4
<1> QED
  BY <1>1, <1>2, PTL DEF ProvidersSpec

\* Types: every chunk that is sent has a number and a mark, every snapshot a number, and no bid
\* is waited for before the ad has been read (Stream, buildCV).
THEOREM ProvidersTypeCorrect == ProvidersSpec => []ProvidersTypeOK
<1>1. ProvidersInv => ProvidersTypeOK
  BY DEF ProvidersInv, CallTypes, Phases, AdTypes, ProvidersTypeOK
<1> QED
  BY <1>1, ProvidersInvHolds, PTL

\* However a stream, its reader and a cancellation interleave, whoever got the last chunk got
\* them all, in order, and an end without it means that the answer was cut (Stream of both drivers).
THEOREM StreamsAreWhole == ProvidersSpec => []DoneMeansAll
<1>1. ProvidersInv => DoneMeansAll
  <2> SUFFICES ASSUME ProvidersInv, NEW c \in Calls
               PROVE  LET n == Len(got[c]) IN
                      /\ n <= made[c] /\ \A i \in 1 .. n : got[c][i].no = i
                      /\ \A i \in 1 .. n : got[c][i].done => i = made[c] /\ call[c] = "closed" /\ c \notin cut
                      /\ reader[c] = "finished" =>
                             \/ n > 0 /\ got[c][n].done
                             \/ c \in cut /\ n = made[c]
                             \/ c \in cancelled
    BY DEF DoneMeansAll
  <2> DEFINE n == Len(got[c])
  <2> DEFINE m == Len(ch[c])
  <2>1. n \in Nat /\ m \in Nat /\ made[c] \in Nat /\ call[c] \in Phases /\ Sent(c) = n + m
    BY DEF ProvidersInv, CallTypes, Sent
  <2>2. StreamInv(c)
    BY DEF ProvidersInv
  <2> HIDE DEF n, m
  <2>3. n <= made[c]
    BY <2>1, <2>2 DEF StreamInv, Counted, Phases
  <2>4. /\ \A i \in 1 .. n : got[c][i].no = i
        /\ \A i \in 1 .. n : got[c][i].done => i = made[c] /\ call[c] = "closed" /\ c \notin cut
    BY <2>2 DEF StreamInv, InOrder, LastIsLast, n
  <2>5. ASSUME reader[c] = "finished"
        PROVE  (n > 0 /\ got[c][n].done) \/ (c \in cut /\ n = made[c]) \/ c \in cancelled
    <3>1. call[c] = "closed" /\ m = 0 /\ Sent(c) = n
      BY <2>1, <2>2, <2>5 DEF StreamInv, m
    <3>2. LastIsThere(c) => n > 0 /\ got[c][n].done
      BY <3>1 DEF LastIsThere, n, m
    <3> QED
      BY <2>2, <3>1, <3>2 DEF StreamInv, Counted
  <2> QED
    BY <2>3, <2>4, <2>5 DEF n
<1> QED
  BY <1>1, ProvidersInvHolds, PTL

\* However late or wrong the providers answer, a bid rests on what one of them reported for it
\* (buildCV, controller.GPU, Match).
THEOREM NoBidWithoutBacking == ProvidersSpec => []BidsAreBacked
<1>1. ProvidersInv => BidsAreBacked
  BY DEF ProvidersInv, BidInv, Backed, BidsAreBacked
<1> QED
  BY <1>1, ProvidersInvHolds, PTL
=============================================================================
