-------------------------- MODULE UserServerProofs --------------------------
(* The safety properties of the user server, proved for any number of      *)
(* plans, tasks and streams and any length of the planner's channel.       *)
EXTENDS UserServer, TLAPS

\* Ways to take a step, grouped by what they leave alone.
MainStep == MakeServer \/ Listen \/ Signal \/ BeginShutdown \/ EndShutdown
ManagerStep ==
    \/ \E n \in Nodes : OfManager(Finish(n))
    \/ \E p \in Plans : OfManager(Close(p) \/ GiveUp(p))

Graphs ==
    [nodes  : {{}}, roots : {{}}, succ : {[n \in Nodes |-> {}]},
     preds  : {[n \in Nodes |-> 0]}, notify : {FALSE}] \cup UNION {Dags[p] : p \in Plans}

\* What the state manager has told, as PlanExecution specifies it: nothing, the result
\* of a plan that is done, or the timeout of one that is over.
ToldOnce(p) ==
    \/ told[p] = <<>>
    \/ /\ \E n \in Nodes : told[p] = <<[status |-> "ok", by |-> n]>>
       /\ p \in known /\ dag[p].nodes \subseteq done
    \/ told[p] = <<[status |-> "timeout"]>> /\ p \in over
ManagerInv ==
    /\ known \subseteq Plans /\ over \subseteq known
    /\ dag \in [Plans -> Graphs]
    /\ told \in [Plans -> Seq(Result)]
    /\ \A p \in Plans : ToldOnce(p)

ManagerKept ==
    /\ ManagerInv'
    /\ dag' = dag /\ known' = known /\ done \subseteq done'
    /\ \A p \in Plans : told[p] # <<>> => told'[p] = told[p]

\* The entry of a plan comes before its tracking ID, and that before its streams.
InOrderOfChat ==
    \A p \in Plans :
        /\ chat[p] \notin {"listed", "answered"} => p \notin streams
        /\ chat[p] # "answered" => \A c \in Streams : stream[c].plan # p
StreamsInv ==
    \A c \in Streams :
        /\ stream[c].at # "none" => stream[c].plan \in Plans
        /\ stream[c].got # Nothing => stream[c].at \in {"writing", "ended"}
\* A Shutdown that is under way has found the server.
FoundByShutdown == shutdown \in {"waiting", "quiet", "late"} => server \in {"made", "closed"}

ServerInv ==
    /\ ServerTypeOK /\ ManagerInv
    /\ InOrderOfChat /\ StreamsInv /\ FoundByShutdown
    /\ EntryUntilServed /\ OneReaderGetsTheTruth /\ QuietMeansQuiet

-----------------------------------------------------------------------------
\* Nothing received is not a result.
LEMMA NothingIsNoResult == Nothing \notin Result
BY DEF Nothing, Result

\* The planner's channel holds plans whether a prompt is dropped or not.
LEMMA OfferedOneIsSeq ==
    ASSUME NEW S, NEW q \in Seq(S), NEW n \in Nat, NEW x \in S
    PROVE  Offered(q, n, <<x>>) \in Seq(S)
<1>1. <<x>> \in Seq(S) /\ Len(<<x>>) = 1
  OBVIOUS
<1>2. Len(q) < n => n - Len(q) >= 1
  OBVIOUS
<1> QED
  BY <1>1, <1>2 DEF Offered

\* Before the server is made nobody was told anything.
LEMMA InitiallyInv == ServerInit => ServerInv
<1> SUFFICES ASSUME ServerInit PROVE ServerInv
  OBVIOUS
<1> USE DEF ServerInit, Init
<1>1. ServerTypeOK
  <2>1. [at |-> "none", plan |-> None, got |-> Nothing] \in Request /\ <<>> \in Seq(Plans)
    BY DEF Request
  <2> QED
    BY <2>1 DEF ServerTypeOK
<1>2. ManagerInv
  <2>1. dag \in [Plans -> Graphs]
    BY DEF Graphs
  <2>2. told = [p \in Plans |-> <<>>] /\ <<>> \in Seq(Result)
    OBVIOUS
  <2>3. told \in [Plans -> Seq(Result)] /\ \A p \in Plans : ToldOnce(p)
    BY <2>2 DEF ToldOnce
  <2> QED
    BY <2>1, <2>3 DEF ManagerInv
<1>3. InOrderOfChat /\ StreamsInv /\ FoundByShutdown
  BY ServerAssumption DEF InOrderOfChat, StreamsInv, FoundByShutdown
<1>4. EntryUntilServed /\ OneReaderGetsTheTruth /\ QuietMeansQuiet
  BY DEF EntryUntilServed, OneReaderGetsTheTruth, QuietMeansQuiet, Pending
<1> QED
  BY <1>1, <1>2, <1>3, <1>4 DEF ServerInv

-----------------------------------------------------------------------------
(* The state manager's part: what is told is told once, and stays true.    *)

\* An accepted plan is told nothing yet.
LEMMA PlannedInv ==
    ASSUME ManagerInv, NEW p \in Plans, Accept(p)
    PROVE  ManagerInv' /\ told' = told /\ done' = done
           /\ \A q \in known : dag'[q] = dag[q]
<1> USE DEF ManagerInv, Accept
<1>1. PICK d \in Dags[p] : dag' = [dag EXCEPT ![p] = d]
  OBVIOUS
<1>2. d \in Graphs
  BY DEF Graphs
<1>3. dag' \in [Plans -> Graphs] /\ \A q \in known : dag'[q] = dag[q]
  BY <1>1, <1>2
<1>4. ASSUME NEW q \in Plans PROVE ToldOnce(q)'
  BY <1>3 DEF ToldOnce
<1> QED
  BY <1>3, <1>4

\* A step of the state manager keeps what it has told, and the graphs and the tasks done.
LEMMA ManagerKeeps ==
    ASSUME ManagerInv,
           (\E n \in Nodes : Finish(n)) \/ (\E p \in Plans : Close(p) \/ GiveUp(p))
    PROVE  ManagerKept
<1> USE DEF ManagerInv, ManagerKept
<1>1. ASSUME NEW n \in Nodes, Finish(n) PROVE ManagerKept
  <2> DEFINE p == PlanOf[n]
  <2> DEFINE r == [status |-> "ok", by |-> n]
  <2>1. p \in known \ over /\ p \in Plans /\ n \in dag[p].nodes /\ n \notin done
    BY <1>1 DEF Finish
  <2>2. told[p] = <<>>
    BY <2>1 DEF ToldOnce
  <2>3. r \in Result /\ <<>> \o <<r>> = <<r>>
    BY DEF Result
  <2>4. /\ dag' = dag /\ known' = known /\ over' = over /\ done' = done \cup {n}
        /\ told' = told \/ (told' = [told EXCEPT ![p] = Append(@, r)] /\ dag[p].nodes \subseteq done')
    BY <1>1 DEF Finish
  <2>5. \A q \in Plans : told[q] # <<>> => told'[q] = told[q]
    BY <2>2, <2>4
  <2>6. told' \in [Plans -> Seq(Result)]
    <3>1. told[p] \in Seq(Result) /\ Append(told[p], r) \in Seq(Result)
      BY <2>1, <2>3
    <3>2. told' = told \/ told' = [told EXCEPT ![p] = Append(told[p], r)]
      BY <2>4
    <3> QED
      BY <3>1, <3>2
  <2>7. ASSUME NEW q \in Plans PROVE ToldOnce(q)'
    <3>1. CASE told'[q] = told[q]
      BY <3>1, <2>4 DEF ToldOnce
    <3>2. CASE told'[q] # told[q]
      <4>1. q = p /\ told' = [told EXCEPT ![p] = Append(@, r)] /\ dag[p].nodes \subseteq done'
        BY <3>2, <2>4
      <4>2. told'[p] = <<r>>
        BY <4>1, <2>1, <2>2
      <4> QED
        BY <4>1, <4>2, <2>1, <2>4 DEF ToldOnce
    <3> QED
      BY <3>1, <3>2
  <2> QED
    BY <2>4, <2>5, <2>6, <2>7
<1>2. ASSUME NEW p \in Plans, Close(p) PROVE ManagerKept
  <2>1. /\ known' = known /\ dag' = dag /\ done' = done /\ told' = told
        /\ over' = over \cup {p} /\ p \in known
    BY <1>2 DEF Close
  <2>2. ASSUME NEW q \in Plans PROVE ToldOnce(q)'
    BY <2>1 DEF ToldOnce
  <2> QED
    BY <2>1, <2>2
<1>3. ASSUME NEW p \in Plans, GiveUp(p) PROVE ManagerKept
  <2>1. /\ known' = known /\ dag' = dag /\ done' = done /\ over' = over
        /\ p \in over /\ told[p] = <<>> /\ told' = [told EXCEPT ![p] = <<[status |-> "timeout"]>>]
    BY <1>3 DEF GiveUp
  <2>2. told' \in [Plans -> Seq(Result)]
    BY <2>1 DEF Result
  <2>3. ASSUME NEW q \in Plans PROVE ToldOnce(q)'
    BY <2>1 DEF ToldOnce
  <2> QED
    BY <2>1, <2>2, <2>3
<1> QED
  BY <1>1, <1>2, <1>3

-----------------------------------------------------------------------------
(* Types.                                                                  *)

\* Every step keeps the types.
LEMMA ServerTypes ==
    ASSUME ServerTypeOK, ManagerInv, StreamsInv, [ServerNext]_serverVars
    PROVE  ServerTypeOK'
<1> USE DEF ServerTypeOK, mainVars, plannerVars, streamVars, planVars
<1>1. CASE MainStep
  BY <1>1 DEF MainStep, MakeServer, Listen, Signal, BeginShutdown, EndShutdown
<1>2. ASSUME NEW p \in Plans, Chat(p) \/ ChatStep(p) PROVE ServerTypeOK'
  <2>1. CASE Chat(p)
    <3>1. prompts' \in Seq(Plans)
      <4>1. <<p>> \in Seq(Plans) /\ Len(<<p>>) = 1
        OBVIOUS
      <4>2. Offered(prompts, TopicLen, <<p>>) \in Seq(Plans)
        BY <4>1, ServerAssumption, OfferedOneIsSeq
      <4> QED
        BY <2>1, <4>2 DEF Chat
    <3> QED
      BY <2>1, <3>1 DEF Chat
  <2>2. CASE ChatStep(p)
    BY <2>2 DEF ChatStep, List, AnswerChat
  <2> QED
    BY <1>2, <2>1, <2>2
<1>3. CASE TakePrompt \/ Plan
  <2>1. CASE TakePrompt
    <3>1. Head(prompts) \in Plans /\ Tail(prompts) \in Seq(Plans)
      BY <2>1 DEF TakePrompt
    <3> QED
      BY <2>1, <3>1 DEF TakePrompt
  <2>2. CASE Plan
    BY <2>2 DEF Plan
  <2> QED
    BY <1>3, <2>1, <2>2
<1>4. ASSUME NEW c \in Streams, StreamStep(c) \/ HangUp(c) PROVE ServerTypeOK'
  <2>1. CASE Receive(c)
    <3> DEFINE p == stream[c].plan
    <3> DEFINE r == told[p][taken[p] + 1]
    <3>1. stream[c].at = "waiting" /\ taken[p] < Len(told[p]) /\ stream[c] \in Request
      BY <2>1 DEF Receive, Buffered
    <3>2. told[p] \in Seq(Result) /\ taken[p] \in Nat
      BY <3>1 DEF ManagerInv, StreamsInv
    <3>3. r \in Result /\ taken[p] + 1 \in Nat
      BY <3>1, <3>2
    <3>4. [stream[c] EXCEPT !.at = "writing", !.got = r] \in Request
      BY <3>1, <3>3 DEF Request
    <3>5. stream' = [stream EXCEPT ![c] = [stream[c] EXCEPT !.at = "writing", !.got = r]]
      BY <2>1 DEF Receive
    <3> QED
      BY <2>1, <3>3, <3>4, <3>5 DEF Receive
  <2>2. CASE NoticeGone(c) \/ EndStream(c)
    <3>1. stream \in [Streams -> Request] /\ streams \subseteq Plans
      OBVIOUS
    <3>2. PICK at \in {"leaving", "ended"} : stream' = [stream EXCEPT ![c].at = at]
      BY <2>2 DEF NoticeGone, EndStream
    <3>3. [stream[c] EXCEPT !.at = at] \in Request
      BY <3>1 DEF Request
    <3>4. stream' \in [Streams -> Request]
      BY <3>1, <3>2, <3>3
    <3>5. /\ streams' \subseteq Plans
          /\ UNCHANGED <<planVars, mainVars, chat, gone, taken, plannerVars>>
      BY <2>2, <3>1 DEF NoticeGone, EndStream
    <3> QED
      BY <3>4, <3>5
  <2>3. CASE HangUp(c)
    BY <2>3 DEF HangUp
  <2> QED
    BY <1>4, <2>1, <2>2, <2>3 DEF StreamStep
<1>5. ASSUME NEW c \in Streams, NEW p \in Plans, OpenStream(c, p) PROVE ServerTypeOK'
  BY <1>5 DEF OpenStream, Request
<1>6. CASE ManagerStep
  BY <1>6 DEF ManagerStep, OfManager
<1>7. CASE UNCHANGED serverVars
  BY <1>7 DEF serverVars
<1> QED
  BY <1>1, <1>2, <1>3, <1>4, <1>5, <1>6, <1>7 DEF ServerNext, MainStep, ManagerStep

-----------------------------------------------------------------------------
(* What is told, and who gets it.                                          *)

\* What was told is not taken back, whatever the server does.
LEMMA ManagerAtEveryStep ==
    ASSUME ManagerInv, ServerTypeOK, [ServerNext]_serverVars
    PROVE  ManagerInv' /\ \A p \in Plans : told[p] # <<>> => told'[p] = told[p]
<1>1. CASE Plan
  <2>1. planning \in Plans /\ Accept(planning)
    BY <1>1 DEF Plan, ServerTypeOK
  <2> QED
    BY <2>1, PlannedInv
<1>2. CASE ManagerStep
  <2>1. (\E n \in Nodes : Finish(n)) \/ (\E p \in Plans : Close(p) \/ GiveUp(p))
    BY <1>2 DEF ManagerStep, OfManager
  <2> QED
    BY <2>1, ManagerKeeps DEF ManagerKept
<1>3. CASE UNCHANGED planVars
  BY <1>3 DEF planVars, ManagerInv, ToldOnce
<1>4. ASSUME MainStep PROVE UNCHANGED planVars
  BY <1>4 DEF MainStep, MakeServer, Listen, Signal, BeginShutdown, EndShutdown
<1>5. ASSUME NEW p \in Plans, Chat(p) \/ ChatStep(p) PROVE UNCHANGED planVars
  BY <1>5 DEF Chat, ChatStep, List, AnswerChat
<1>6. ASSUME TakePrompt PROVE UNCHANGED planVars
  BY <1>6 DEF TakePrompt
<1>7. ASSUME NEW c \in Streams, StreamStep(c) \/ HangUp(c) PROVE UNCHANGED planVars
  BY <1>7 DEF StreamStep, Receive, NoticeGone, EndStream, HangUp
<1>8. ASSUME NEW c \in Streams, NEW p \in Plans, OpenStream(c, p) PROVE UNCHANGED planVars
  BY <1>8 DEF OpenStream
<1>9. CASE UNCHANGED serverVars
  BY <1>3, <1>9 DEF serverVars
<1> QED
  BY <1>1, <1>2, <1>3, <1>4, <1>5, <1>6, <1>7, <1>8, <1>9 DEF ServerNext, MainStep, ManagerStep

\* Who has received has received the first result, and nobody else has.
Receivers ==
    /\ \A p \in Plans : taken[p] <= Len(told[p])
    /\ \A c \in Streams : stream[c].got # Nothing =>
        LET p == stream[c].plan IN
        /\ taken[p] = 1 /\ stream[c].got = told[p][1]
        /\ \A d \in Streams : stream[d].plan = p /\ stream[d].got # Nothing => d = c

\* Receivers and what was told give that one reader gets the truth.
LEMMA ReceiversSuffice ==
    ASSUME ManagerInv, ServerTypeOK, StreamsInv, Receivers
    PROVE  OneReaderGetsTheTruth
<1>1. ASSUME NEW p \in Plans PROVE Len(told[p]) <= 1
  <2>1. ToldOnce(p)
    BY DEF ManagerInv
  <2>2. CASE told[p] = <<>>
    BY <2>2
  <2>3. ASSUME NEW n \in Nodes, told[p] = <<[status |-> "ok", by |-> n]>>
        PROVE  Len(told[p]) <= 1
    BY <2>3
  <2>4. CASE told[p] = <<[status |-> "timeout"]>>
    BY <2>4
  <2> QED
    BY <2>1, <2>2, <2>3, <2>4 DEF ToldOnce
<1>2. ASSUME NEW c \in Streams, stream[c].got # Nothing, stream[c].got.status = "ok"
      PROVE  dag[stream[c].plan].nodes \subseteq done
  <2> DEFINE p == stream[c].plan
  <2>1. p \in Plans
    BY <1>2, ServerTypeOK DEF StreamsInv
  <2>2. told[p] # <<>> /\ told[p][1].status = "ok"
    BY <1>2, <2>1 DEF Receivers
  <2> QED
    BY <2>1, <2>2 DEF ManagerInv, ToldOnce
<1> QED
  BY <1>1, <1>2 DEF Receivers, OneReaderGetsTheTruth

\* Nothing but Receive changes what was received, and only a stream without a plan gets one.
LEMMA ReceiversKept ==
    ASSUME ServerInv, [ServerNext]_serverVars
    PROVE  Receivers'
<1> USE DEF ServerInv
<1>1. \A p \in Plans : told[p] # <<>> => told'[p] = told[p]
  BY ManagerAtEveryStep
<1>2. Receivers
  BY DEF OneReaderGetsTheTruth, Receivers
<1>3. told' \in [Plans -> Seq(Result)] /\ told \in [Plans -> Seq(Result)]
  BY ManagerAtEveryStep DEF ManagerInv
<1>4. \A p \in Plans : Len(told[p]) <= Len(told'[p])
  BY <1>1, <1>3
<1>5. taken \in [Plans -> Nat] /\ stream \in [Streams -> Request]
  BY DEF ServerTypeOK
<1>6. ASSUME taken' = taken, stream' \in [Streams -> Request],
             \A c \in Streams : stream'[c].got # Nothing =>
                 stream'[c].got = stream[c].got /\ stream'[c].plan = stream[c].plan
      PROVE  Receivers'
  <2>1. \A p \in Plans : taken'[p] <= Len(told'[p])
    BY <1>2, <1>3, <1>4, <1>5, <1>6 DEF Receivers
  <2>2. ASSUME NEW c \in Streams, stream'[c].got # Nothing
        PROVE  LET p == stream'[c].plan IN
               /\ taken'[p] = 1 /\ stream'[c].got = told'[p][1]
               /\ \A d \in Streams : stream'[d].plan = p /\ stream'[d].got # Nothing => d = c
    <3> DEFINE p == stream[c].plan
    <3>1. p \in Plans /\ taken[p] = 1 /\ stream[c].got = told[p][1]
      BY <1>2, <1>6, <2>2 DEF Receivers, StreamsInv
    <3>2. told'[p] = told[p]
      BY <1>1, <1>2, <3>1 DEF Receivers
    <3> QED
      BY <1>2, <1>6, <2>2, <3>1, <3>2 DEF Receivers
  <2> QED
    BY <2>1, <2>2 DEF Receivers
<1>7. ASSUME NEW c \in Streams, Receive(c) PROVE Receivers'
  <2> DEFINE p == stream[c].plan
  <2>1. /\ stream[c].at = "waiting" /\ p \in Plans /\ taken[p] < Len(told[p])
        /\ stream' = [stream EXCEPT ![c].at = "writing", ![c].got = told[p][taken[p] + 1]]
        /\ taken' = [taken EXCEPT ![p] = @ + 1] /\ told' = told
    BY <1>7 DEF Receive, Buffered, StreamsInv, planVars
  <2>2. taken[p] = 0 /\ taken'[p] = 1
    BY <1>3, <1>5, <2>1 DEF OneReaderGetsTheTruth
  <2>3. \A d \in Streams : stream[d].plan = p => stream[d].got = Nothing
    BY <1>2, <2>2 DEF Receivers
  <2>4. \A q \in Plans : taken'[q] <= Len(told'[q])
    BY <1>2, <1>3, <1>5, <2>1, <2>2 DEF Receivers
  <2>5. /\ stream'[c].plan = p /\ stream'[c].got = told'[p][1]
        /\ \A d \in Streams \ {c} : stream'[d] = stream[d]
    BY <1>5, <2>1, <2>2 DEF Request
  <2>6. ASSUME NEW d \in Streams, stream'[d].got # Nothing
        PROVE  LET q == stream'[d].plan IN
               /\ taken'[q] = 1 /\ stream'[d].got = told'[q][1]
               /\ \A e \in Streams : stream'[e].plan = q /\ stream'[e].got # Nothing => e = d
    <3>1. CASE d = c
      BY <2>2, <2>3, <2>5, <3>1
    <3>2. CASE d # c
      <4>1. stream'[d] = stream[d] /\ stream[d].plan # p /\ stream[d].plan \in Plans
        BY <2>3, <2>5, <2>6, <3>2 DEF StreamsInv
      <4> QED
        BY <1>2, <1>5, <2>1, <2>5, <2>6, <4>1 DEF Receivers
    <3> QED
      BY <3>1, <3>2
  <2> QED
    BY <2>4, <2>6 DEF Receivers
<1>8. stream' \in [Streams -> Request]
  BY ServerTypes DEF ServerTypeOK
<1>9. CASE UNCHANGED <<taken, stream>>
  BY <1>5, <1>6, <1>9
<1>10. ASSUME NEW c \in Streams, NoticeGone(c) \/ EndStream(c) \/ HangUp(c) PROVE Receivers'
  BY <1>5, <1>6, <1>8, <1>10 DEF NoticeGone, EndStream, HangUp, Request
<1>11. ASSUME NEW c \in Streams, NEW p \in Plans, OpenStream(c, p) PROVE Receivers'
  BY <1>5, <1>6, <1>8, <1>11 DEF OpenStream
<1>12. ASSUME MainStep PROVE UNCHANGED <<taken, stream>>
  BY <1>12 DEF MainStep, MakeServer, Listen, Signal, BeginShutdown, EndShutdown, streamVars
<1>13. ASSUME NEW p \in Plans, Chat(p) \/ ChatStep(p) PROVE UNCHANGED <<taken, stream>>
  BY <1>13 DEF Chat, ChatStep, List, AnswerChat, streamVars
<1>14. ASSUME TakePrompt \/ Plan PROVE UNCHANGED <<taken, stream>>
  BY <1>14 DEF TakePrompt, Plan, streamVars
<1>15. ASSUME ManagerStep PROVE UNCHANGED <<taken, stream>>
  BY <1>15 DEF ManagerStep, OfManager, streamVars
<1>16. ASSUME UNCHANGED serverVars PROVE UNCHANGED <<taken, stream>>
  BY <1>16 DEF serverVars, streamVars
<1> QED
  BY <1>7, <1>9, <1>10, <1>11, <1>12, <1>13, <1>14, <1>15, <1>16
  DEF ServerNext, MainStep, ManagerStep, StreamStep

-----------------------------------------------------------------------------
(* The order of prompts, entries and streams, and the end of the server.   *)

\* Every step keeps entries, chats and streams in accord.
LEMMA EntriesKept ==
    ASSUME ServerInv, [ServerNext]_serverVars
    PROVE  InOrderOfChat' /\ StreamsInv' /\ EntryUntilServed'
<1> DEFINE EntriesKeep == InOrderOfChat' /\ StreamsInv' /\ EntryUntilServed'
<1> USE DEF InOrderOfChat, StreamsInv, EntryUntilServed
<1>1. ServerTypeOK /\ InOrderOfChat /\ StreamsInv /\ EntryUntilServed
  BY DEF ServerInv
<1>2. /\ chat \in [Plans -> {"none", "wrapped", "listed", "answered"}]
      /\ stream \in [Streams -> Request] /\ streams \subseteq Plans
  BY <1>1 DEF ServerTypeOK
<1>3. CASE UNCHANGED <<chat, streams, stream>>
  BY <1>1, <1>3
<1>4. ASSUME NEW p \in Plans, Chat(p) \/ AnswerChat(p) PROVE EntriesKeep
  BY <1>1, <1>2, <1>4 DEF Chat, AnswerChat, streamVars
<1>5. ASSUME NEW p \in Plans, List(p) PROVE EntriesKeep
  BY <1>1, <1>2, <1>5 DEF List
<1>6. ASSUME NEW c \in Streams, NEW p \in Plans, OpenStream(c, p) PROVE EntriesKeep
  <2>1. /\ chat[p] = "answered" /\ stream[c].at = "none" /\ UNCHANGED <<chat, streams>>
        /\ stream'[c].plan = p /\ stream'[c].got = Nothing
        /\ stream'[c].at = IF p \in streams THEN "waiting" ELSE "notfound"
        /\ \A d \in Streams \ {c} : stream'[d] = stream[d]
    BY <1>2, <1>6 DEF OpenStream
  <2>2. InOrderOfChat' /\ StreamsInv'
    BY <1>1, <2>1
  <2>3. p \notin streams => \E d \in Streams \ {c} : stream[d].plan = p /\ stream[d].at = "ended"
    BY <1>1, <2>1
  <2>4. \A d \in Streams : stream[d].at = "ended" => stream'[d] = stream[d]
    BY <2>1
  <2>5. \A d \in Streams : stream'[d].at = "ended" => stream'[d] = stream[d]
    BY <2>1
  <2> QED
    BY <1>1, <2>1, <2>2, <2>3, <2>4, <2>5
<1>7. ASSUME NEW c \in Streams, Receive(c) \/ NoticeGone(c) \/ HangUp(c) PROVE EntriesKeep
  <2>1. /\ UNCHANGED <<chat, streams>>
        /\ \A d \in Streams :
               /\ stream'[d].plan = stream[d].plan
               /\ stream'[d].at = "ended" <=> stream[d].at = "ended"
               /\ stream'[d].at = "notfound" <=> stream[d].at = "notfound"
               /\ stream'[d].at # "none" => stream[d].at # "none"
               /\ stream'[d].got # Nothing => stream'[d].at \in {"writing", "ended"}
    BY <1>1, <1>2, <1>7 DEF Receive, NoticeGone, HangUp, Request
  <2> QED
    BY <1>1, <2>1
<1>8. ASSUME NEW c \in Streams, EndStream(c) PROVE EntriesKeep
  <2> DEFINE p == stream[c].plan
  <2>1. /\ p \in Plans /\ stream[c].at \in {"writing", "leaving"}
        /\ chat' = chat /\ streams' = streams \ {p}
        /\ stream'[c].at = "ended" /\ stream'[c].plan = p
        /\ \A d \in Streams \ {c} : stream'[d] = stream[d]
    BY <1>1, <1>2, <1>8 DEF EndStream, Request
  <2>2. InOrderOfChat' /\ StreamsInv'
    BY <1>1, <1>2, <1>8, <2>1
  <2> QED
    BY <1>1, <2>1, <2>2
<1>9. ASSUME MainStep PROVE UNCHANGED <<chat, streams, stream>>
  BY <1>9 DEF MainStep, MakeServer, Listen, Signal, BeginShutdown, EndShutdown, streamVars
<1>10. ASSUME TakePrompt \/ Plan PROVE UNCHANGED <<chat, streams, stream>>
  BY <1>10 DEF TakePrompt, Plan, streamVars
<1>11. ASSUME ManagerStep PROVE UNCHANGED <<chat, streams, stream>>
  BY <1>11 DEF ManagerStep, OfManager, streamVars
<1>12. ASSUME UNCHANGED serverVars PROVE UNCHANGED <<chat, streams, stream>>
  BY <1>12 DEF serverVars, streamVars
<1> QED
  BY <1>3, <1>4, <1>5, <1>6, <1>7, <1>8, <1>9, <1>10, <1>11, <1>12
  DEF ServerNext, MainStep, ManagerStep, StreamStep, ChatStep

\* The handlers that run at a step ran before it, or a server that serves has started them.
LEMMA ShutdownKept ==
    ASSUME ServerInv, [ServerNext]_serverVars
    PROVE  FoundByShutdown' /\ QuietMeansQuiet'
<1> USE DEF FoundByShutdown, QuietMeansQuiet
<1>1. FoundByShutdown /\ QuietMeansQuiet
  BY DEF ServerInv
<1>2. /\ chat \in [Plans -> {"none", "wrapped", "listed", "answered"}]
      /\ stream \in [Streams -> Request]
      /\ server \in {"unmade", "made", "serving", "closed"}
  BY DEF ServerInv, ServerTypeOK
<1>3. CASE MakeServer \/ Listen \/ Signal \/ BeginShutdown
  <2>1. Active' = Active
    BY <1>3
    DEF MakeServer, Listen, Signal, BeginShutdown, Active, Pending, streamVars
  <2>2. CASE MakeServer \/ Listen
    BY <1>1, <2>1, <2>2 DEF MakeServer, Listen
  <2>3. CASE Signal
    BY <1>1, <2>1, <2>3 DEF Signal
  <2>4. CASE BeginShutdown
    BY <1>1, <1>2, <2>1, <2>4 DEF BeginShutdown
  <2> QED
    BY <1>3, <2>2, <2>3, <2>4
<1>4. CASE EndShutdown
  BY <1>1, <1>4 DEF EndShutdown, Active, Pending, streamVars
<1>5. ASSUME UNCHANGED mainVars, shutdown # "quiet" PROVE FoundByShutdown' /\ QuietMeansQuiet'
  BY <1>1, <1>5 DEF mainVars
<1>6. ASSUME UNCHANGED <<mainVars, chat, stream>> PROVE FoundByShutdown' /\ QuietMeansQuiet'
  BY <1>1, <1>6 DEF mainVars, Active, Pending
<1>7. ASSUME NEW p \in Plans, Chat(p) \/ ChatStep(p) PROVE FoundByShutdown' /\ QuietMeansQuiet'
  <2>1. UNCHANGED mainVars /\ (server = "serving" \/ p \in Active)
    BY <1>7 DEF Chat, ChatStep, List, AnswerChat, Active
  <2> QED
    BY <1>1, <1>5, <2>1
<1>8. ASSUME NEW c \in Streams, StreamStep(c) PROVE FoundByShutdown' /\ QuietMeansQuiet'
  <2>1. UNCHANGED mainVars /\ c \in Active
    BY <1>8 DEF StreamStep, Receive, NoticeGone, EndStream, Active, Pending
  <2> QED
    BY <1>1, <1>5, <2>1
<1>9. ASSUME NEW c \in Streams, HangUp(c) PROVE UNCHANGED <<mainVars, chat, stream>>
  BY <1>9 DEF HangUp
<1>10. ASSUME NEW c \in Streams, NEW p \in Plans, OpenStream(c, p) PROVE FoundByShutdown' /\ QuietMeansQuiet'
  <2>1. UNCHANGED mainVars /\ server = "serving"
    BY <1>10 DEF OpenStream
  <2> QED
    BY <1>1, <1>5, <2>1
<1>11. ASSUME TakePrompt \/ Plan PROVE UNCHANGED <<mainVars, chat, stream>>
  BY <1>11 DEF TakePrompt, Plan, streamVars
<1>12. ASSUME ManagerStep PROVE UNCHANGED <<mainVars, chat, stream>>
  BY <1>12 DEF ManagerStep, OfManager, streamVars
<1>13. ASSUME UNCHANGED serverVars PROVE UNCHANGED <<mainVars, chat, stream>>
  BY <1>13 DEF serverVars, streamVars
<1> QED
  BY <1>3, <1>4, <1>6, <1>7, <1>8, <1>9, <1>10, <1>11, <1>12, <1>13
  DEF ServerNext, MainStep, ManagerStep

-----------------------------------------------------------------------------
(* The theorems.                                                           *)

\* The invariant holds throughout.
LEMMA ServerInvariant == ServerSpec => []ServerInv
<1>1. ASSUME ServerInv, [ServerNext]_serverVars PROVE ServerInv'
  <2>1. ServerTypeOK' /\ ManagerInv'
    BY <1>1, ServerTypes, ManagerAtEveryStep DEF ServerInv
  <2>2. InOrderOfChat' /\ StreamsInv' /\ EntryUntilServed' /\ FoundByShutdown' /\ QuietMeansQuiet'
    BY <1>1, EntriesKept, ShutdownKept
  <2>3. (ManagerInv /\ ServerTypeOK /\ StreamsInv /\ Receivers => OneReaderGetsTheTruth)'
    BY ReceiversSuffice, PTL
  <2>4. OneReaderGetsTheTruth'
    BY <1>1, <2>1, <2>2, <2>3, ReceiversKept
  <2> QED
    BY <2>1, <2>2, <2>4 DEF ServerInv
<1> QED
  BY <1>1, InitiallyInv, PTL DEF ServerSpec

\* Server and planner use the state manager as PlanExecution says of it: nothing that they
\* do, in whatever order, is a step that it would not take.  So they can be put above
\* whatever implements PlanExecution.
THEOREM UsesPlanExecution == ServerSpec => Spec
<1>1. ServerInit => Init
  BY DEF ServerInit
<1>2. ASSUME ServerInv, [ServerNext]_serverVars PROVE [Next]_vars
  <2>1. planning # None => planning \in Plans
    BY <1>2 DEF ServerInv, ServerTypeOK
  <2>2. CASE UNCHANGED planVars
    BY <2>2 DEF planVars, vars
  <2>3. CASE Plan
    BY <2>1, <2>3 DEF Plan, Next
  <2>4. CASE ManagerStep
    BY <2>4 DEF ManagerStep, OfManager, Next
  <2>5. UNCHANGED planVars \/ Plan \/ ManagerStep
    <3>1. CASE MainStep
      BY <3>1 DEF MainStep, MakeServer, Listen, Signal, BeginShutdown, EndShutdown
    <3>2. CASE \E p \in Plans : Chat(p) \/ ChatStep(p)
      BY <3>2 DEF Chat, ChatStep, List, AnswerChat
    <3>3. CASE \E c \in Streams : StreamStep(c) \/ HangUp(c) \/ \E p \in Plans : OpenStream(c, p)
      BY <3>3 DEF StreamStep, Receive, NoticeGone, EndStream, HangUp, OpenStream
    <3>4. CASE TakePrompt
      BY <3>4 DEF TakePrompt
    <3>5. CASE UNCHANGED serverVars
      BY <3>5 DEF serverVars
    <3> QED
      BY <1>2, <3>1, <3>2, <3>3, <3>4, <3>5 DEF ServerNext, MainStep, ManagerStep
  <2> QED
    BY <2>2, <2>3, <2>4, <2>5
<1> QED
  BY <1>1, <1>2, ServerInvariant, PTL DEF ServerSpec, Spec

\* Every variable of the server stays in its type: plan IDs in the table and the
\* planner's channel are those of prompts (handleChat, Wrap).
THEOREM ServerTypeCorrect == ServerSpec => []ServerTypeOK
<1>1. ServerInv => ServerTypeOK
  BY DEF ServerInv
<1> QED
  BY <1>1, ServerInvariant, PTL

\* A tracking ID that was given to a client finds its stream until a stream of its
\* plan has ended, and none after (handleChat, handleStream).
THEOREM EntriesLastUntilServed == ServerSpec => []EntryUntilServed
<1>1. ServerInv => EntryUntilServed
  BY DEF ServerInv
<1> QED
  BY <1>1, ServerInvariant, PTL

\* Of any number of streams of one plan, one at most receives its result, and the
\* result is what the state manager told (handleStream).
THEOREM ResultsReachOneReader == ServerSpec => []OneReaderGetsTheTruth
<1>1. ServerInv => OneReaderGetsTheTruth
  BY DEF ServerInv
<1> QED
  BY <1>1, ServerInvariant, PTL

\* Once a Shutdown has found the server, no request gets in any more, and if that Shutdown
\* returned without an error no handler runs.  Nothing is claimed of one that came before
\* the server was made: it returns nil and the server may serve on (server.go:164).
THEOREM ShutdownIsQuiet == ServerSpec => []QuietMeansQuiet
<1>1. ServerInv => QuietMeansQuiet
  BY DEF ServerInv
<1> QED
  BY <1>1, ServerInvariant, PTL
=============================================================================
