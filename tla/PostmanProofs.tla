--------------------------- MODULE PostmanProofs ---------------------------
(***************************************************************************)
(* Theorems about EventBus and Postman, for any number of topics, channels *)
(* of any length and publishers, checked by TLAPS.                         *)
(***************************************************************************)
EXTENDS Postman, FiniteSetTheorems, SequenceTheorems, TLAPS

\* A channel is in the list of its own topic only, and once.
EachListedOnce ==
    \A t \in Topics : \A i \in 1 .. Len(subscribers[t]) :
        /\ topicOf[subscribers[t][i]] = t
        /\ \A j \in 1 .. Len(subscribers[t]) : subscribers[t][i] = subscribers[t][j] => i = j

\* The channels in the lists are open before Release.
ListedAreOpen ==
    \A t \in Topics : \A i \in 1 .. Len(subscribers[t]) :
        subscribers[t][i] \in closed => released

\* Nothing was published for a channel that has not been made.
UnmadeAreEmpty == \A c \in Chans : topicOf[c] = None => c \notin closed /\ owed[c] = 0 /\ buffer[c] = <<>>

\* No channel holds an event that has not been published, and none that publisher p has
\* still to go to holds the event that p is publishing.
NotAhead ==
    /\ \A c \in Chans : \A i \in 1 .. Len(buffer[c]) : buffer[c][i].nr <= published[buffer[c][i].from]
    /\ \A p \in Publishers : publishing[p] # None =>
        \A k \in publishing[p].at .. Len(subscribers[publishing[p].topic]) :
            LET b == buffer[subscribers[publishing[p].topic][k]] IN
            \A i \in 1 .. Len(b) : b[i].from = p => b[i].nr < published[p]

\* The publishers that have still to go to channel c.
Pending(c) == {p \in Publishers :
    /\ publishing[p] # None
    /\ \E k \in publishing[p].at .. Len(subscribers[publishing[p].topic]) :
        subscribers[publishing[p].topic][k] = c}

\* What is owed to a channel is in it or on its way.
OwedIsPending == \A c \in Chans : owed[c] = Len(buffer[c]) + Cardinality(Pending(c))

BusInv ==
    /\ BusTypeOK /\ EachListedOnce /\ ListedAreOpen /\ UnmadeAreEmpty
    /\ NotAhead /\ InOrder /\ OwedIsPending /\ OnlyReleaseCrashes

-----------------------------------------------------------------------------
\* What remains of a list without its element at place i (UnSubscribe).
LEMMA WithoutProperties ==
  ASSUME NEW S, NEW s \in Seq(S), NEW i \in 1 .. Len(s)
  PROVE  /\ Without(s, i) \in Seq(S)
         /\ Len(Without(s, i)) = Len(s) - 1
         /\ \A k \in 1 .. Len(s) - 1 : Without(s, i)[k] = IF k < i THEN s[k] ELSE s[k + 1]
<1> DEFINE a == SubSeq(s, 1, i - 1)
           b == SubSeq(s, i + 1, Len(s))
<1>1. Len(s) \in Nat /\ i \in Nat /\ 1 <= i /\ i <= Len(s)
  BY LenProperties
<1>2. /\ a \in Seq(S) /\ Len(a) = i - 1
      /\ \A k \in 1 .. i - 1 : a[k] = s[k]
  <2>1. \A k \in 1 .. i - 1 : s[k] \in S
    BY <1>1, ElementOfSeq
  <2> QED
    BY <1>1, <2>1, SubSeqProperties
<1>3. /\ b \in Seq(S) /\ Len(b) = Len(s) - i
      /\ \A k \in 1 .. Len(s) - i : b[k] = s[k + i]
  <2>1. \A k \in i + 1 .. Len(s) : s[k] \in S
    BY <1>1, ElementOfSeq
  <2> QED
    BY <1>1, <2>1, SubSeqProperties
<1>4. /\ a \o b \in Seq(S) /\ Len(a \o b) = Len(a) + Len(b)
      /\ \A k \in 1 .. Len(a) + Len(b) : (a \o b)[k] = IF k <= Len(a) THEN a[k] ELSE b[k - Len(a)]
  BY <1>2, <1>3, ConcatProperties
<1> HIDE DEF a, b
<1>5. ASSUME NEW k \in 1 .. Len(s) - 1
      PROVE  (a \o b)[k] = IF k < i THEN s[k] ELSE s[k + 1]
  <2>1. k \in 1 .. Len(a) + Len(b)
    BY <1>1, <1>2, <1>3
  <2>2. CASE k < i
    <3>1. k <= Len(a) /\ k \in 1 .. i - 1
      BY <2>2, <1>1, <1>2
    <3> QED
      BY <2>1, <2>2, <3>1, <1>2, <1>4
  <2>3. CASE ~(k < i)
    <3>1. ~(k <= Len(a)) /\ k - Len(a) \in 1 .. Len(s) - i /\ (k - Len(a)) + i = k + 1
      BY <2>3, <1>1, <1>2
    <3> QED
      BY <2>1, <2>3, <3>1, <1>3, <1>4
  <2> QED
    BY <2>2, <2>3
<1>6. Without(s, i) = a \o b
  BY DEF Without, a, b
<1>7. Len(a \o b) = Len(s) - 1
  BY <1>1, <1>2, <1>3, <1>4
<1> QED
  BY <1>4, <1>5, <1>6, <1>7

\* Appending to a sequence.
LEMMA AppendIs ==
  ASSUME NEW S, NEW s \in Seq(S), NEW e \in S
  PROVE  /\ Append(s, e) \in Seq(S)
         /\ Len(Append(s, e)) = Len(s) + 1
         /\ \A k \in 1 .. Len(s) : Append(s, e)[k] = s[k]
         /\ Append(s, e)[Len(s) + 1] = e
BY LenProperties

\* Nobody has still to go anywhere when no publication is under way.
LEMMA NonePending ==
  ASSUME Unlocked
  PROVE  \A c \in Chans : Pending(c) = {}
BY DEF Unlocked, Pending

\* The number of those who have still to go to a channel.
LEMMA PendingIsFinite ==
  \A c \in Chans : IsFiniteSet(Pending(c)) /\ Cardinality(Pending(c)) \in Nat
<1> TAKE c \in Chans
<1>1. Pending(c) \in SUBSET Publishers
  BY DEF Pending
<1>2. IsFiniteSet(Publishers)
  BY BusAssumption
<1>3. IsFiniteSet(Pending(c))
  BY <1>1, <1>2, FS_Subset
<1> QED
  BY <1>3, FS_CardinalityType

-----------------------------------------------------------------------------
\* The bus starts without subscribers.
LEMMA InitBusInv == BusInit => BusInv
<1> SUFFICES ASSUME BusInit PROVE BusInv
  OBVIOUS
<1> USE DEF BusInit
<1>1. BusTypeOK
  <2>1. \A c \in Chans : Len(buffer[c]) <= Length
    BY BusAssumption
  <2>2. subscribers \in [Topics -> Seq(Chans)] /\ buffer \in [Chans -> Seq(Event)]
    BY EmptySeq
  <2>3. topicOf \in [Chans -> Topics \cup {None}] /\ owed \in [Chans -> Int]
    OBVIOUS
  <2>4. /\ publishing \in [Publishers -> [topic : Topics, at : Nat \ {0}] \cup {None}]
        /\ published \in [Publishers -> Nat]
    OBVIOUS
  <2> QED
    BY <2>1, <2>2, <2>3, <2>4 DEF BusTypeOK
<1>2. EachListedOnce /\ ListedAreOpen /\ UnmadeAreEmpty /\ InOrder /\ OnlyReleaseCrashes
  <2>1. \A t \in Topics : Len(subscribers[t]) = 0
    OBVIOUS
  <2>2. \A c \in Chans : Len(buffer[c]) = 0 /\ DOMAIN buffer[c] = {}
    OBVIOUS
  <2> QED
    BY <2>1, <2>2 DEF EachListedOnce, ListedAreOpen, UnmadeAreEmpty, InOrder, OnlyReleaseCrashes
<1>3. NotAhead
  BY DEF NotAhead
<1>4. OwedIsPending
  <2>1. Unlocked
    BY DEF Unlocked
  <2>2. \A c \in Chans : Cardinality(Pending(c)) = 0
    BY <2>1, NonePending, FS_EmptySet
  <2>3. \A c \in Chans : owed[c] = 0 /\ Len(buffer[c]) = 0
    OBVIOUS
  <2> QED
    BY <2>2, <2>3 DEF OwedIsPending
<1> QED
  BY <1>1, <1>2, <1>3, <1>4 DEF BusInv

-----------------------------------------------------------------------------
\* A stutter of the bus, or a crash after Release.
LEMMA BusStutters ==
  ASSUME BusInv, UNCHANGED busVars
  PROVE  BusInv'
<1>1. UNCHANGED <<subscribers, topicOf, buffer, closed, publishing, published, crashed,
                  released, owed>>
  BY DEF busVars, busHistory
<1>2. BusTypeOK' /\ EachListedOnce' /\ ListedAreOpen' /\ UnmadeAreEmpty'
  BY <1>1 DEF BusInv, BusTypeOK, EachListedOnce, ListedAreOpen, UnmadeAreEmpty
<1>3. NotAhead' /\ InOrder' /\ OnlyReleaseCrashes'
  BY <1>1 DEF BusInv, NotAhead, InOrder, OnlyReleaseCrashes
<1>4. OwedIsPending'
  <2>1. \A c \in Chans : Pending(c)' = Pending(c)
    BY <1>1 DEF Pending
  <2> QED
    BY <1>1, <2>1 DEF BusInv, OwedIsPending
<1> QED
  BY <1>2, <1>3, <1>4 DEF BusInv

\* A publisher that crashes after Release breaks nothing that was so before it.
LEMMA CrashKeeps ==
  ASSUME BusInv, Crash, released
  PROVE  BusInv'
<1> USE DEF Crash, busHistory
<1>1. BusTypeOK' /\ EachListedOnce' /\ ListedAreOpen' /\ UnmadeAreEmpty' /\ OnlyReleaseCrashes'
  BY DEF BusInv, BusTypeOK, EachListedOnce, ListedAreOpen, UnmadeAreEmpty, OnlyReleaseCrashes
<1>2. NotAhead' /\ InOrder'
  BY DEF BusInv, NotAhead, InOrder
<1>3. \A c \in Chans : Pending(c)' = Pending(c)
  BY DEF Pending
<1>4. OwedIsPending'
  BY <1>3 DEF BusInv, OwedIsPending
<1> QED
  BY <1>1, <1>2, <1>4 DEF BusInv

-----------------------------------------------------------------------------
(* The methods that lock alone: no publication is under way.               *)

\* Events stay where they are.
LEMMA LockedKeeps ==
  ASSUME BusInv, Unlocked, UNCHANGED <<buffer, publishing, published, owed>>
  PROVE  NotAhead' /\ InOrder' /\ OwedIsPending'
<1>1. InOrder'
  BY DEF BusInv, InOrder
<1>2. NotAhead'
  BY DEF BusInv, NotAhead, Unlocked
<1>3. \A c \in Chans : Pending(c) = {} /\ Pending(c)' = {}
  BY DEF Unlocked, Pending
<1>4. OwedIsPending'
  BY <1>3 DEF BusInv, OwedIsPending
<1> QED
  BY <1>1, <1>2, <1>4

\* A new channel is appended to the list of its topic.
LEMMA SubscribeKeeps ==
  ASSUME BusInv, NEW c \in Chans, NEW t \in Topics, Subscribe(c, t)
  PROVE  BusInv'
<1> USE DEF Subscribe, busHistory
<1>1. NotAhead' /\ InOrder' /\ OwedIsPending'
  BY LockedKeeps
<1>2. /\ subscribers \in [Topics -> Seq(Chans)] /\ subscribers[t] \in Seq(Chans)
      /\ topicOf \in [Chans -> Topics \cup {None}] /\ topicOf[c] = None /\ c \notin closed
  BY DEF BusInv, BusTypeOK, UnmadeAreEmpty
<1>3. /\ subscribers'[t] = Append(subscribers[t], c) /\ subscribers'[t] \in Seq(Chans)
      /\ \A u \in Topics \ {t} : subscribers'[u] = subscribers[u]
      /\ Len(subscribers[t]) \in Nat /\ Len(subscribers'[t]) = Len(subscribers[t]) + 1
      /\ \A k \in 1 .. Len(subscribers[t]) : subscribers'[t][k] = subscribers[t][k]
      /\ subscribers'[t][Len(subscribers[t]) + 1] = c
  BY <1>2, AppendIs, LenProperties
<1>4. BusTypeOK'
  BY <1>2, <1>3 DEF BusInv, BusTypeOK
<1>5. \A u \in Topics : \A k \in 1 .. Len(subscribers[u]) :
        /\ subscribers[u][k] \in Chans /\ subscribers[u][k] # c
        /\ topicOf[subscribers[u][k]] = u /\ topicOf'[subscribers[u][k]] = u
  <2> TAKE u \in Topics
  <2> TAKE k \in 1 .. Len(subscribers[u])
  <2>1. subscribers[u][k] \in Chans
    BY <1>2, ElementOfSeq
  <2>2. topicOf[subscribers[u][k]] = u
    BY DEF BusInv, EachListedOnce
  <2>3. subscribers[u][k] # c
    BY <1>2, <2>2, BusAssumption
  <2> QED
    BY <1>2, <2>1, <2>2, <2>3
<1>6. EachListedOnce'
  <2> SUFFICES ASSUME NEW u \in Topics, NEW i \in 1 .. Len(subscribers'[u])
               PROVE  /\ topicOf'[subscribers'[u][i]] = u
                      /\ \A j \in 1 .. Len(subscribers'[u]) :
                           subscribers'[u][i] = subscribers'[u][j] => i = j
    BY DEF EachListedOnce
  <2>1. CASE u # t
    BY <2>1, <1>3, <1>5 DEF BusInv, EachListedOnce
  <2>2. CASE u = t
    <3>1. i \in 1 .. Len(subscribers[t]) \/ i = Len(subscribers[t]) + 1
      BY <2>2, <1>3
    <3>2. topicOf'[subscribers'[u][i]] = u
      BY <2>2, <3>1, <1>2, <1>3, <1>5
    <3>3. ASSUME NEW j \in 1 .. Len(subscribers'[u]), subscribers'[u][i] = subscribers'[u][j]
          PROVE  i = j
      <4>1. j \in 1 .. Len(subscribers[t]) \/ j = Len(subscribers[t]) + 1
        BY <2>2, <1>3
      <4> QED
        BY <2>2, <3>1, <3>3, <4>1, <1>3, <1>5 DEF BusInv, EachListedOnce
    <3> QED
      BY <3>2, <3>3
  <2> QED
    BY <2>1, <2>2
<1>7. ListedAreOpen'
  <2> SUFFICES ASSUME NEW u \in Topics, NEW i \in 1 .. Len(subscribers'[u]), subscribers'[u][i] \in closed
               PROVE  released
    BY DEF ListedAreOpen
  <2>1. CASE u # t
    BY <2>1, <1>3 DEF BusInv, ListedAreOpen
  <2>2. CASE u = t
    <3>1. i \in 1 .. Len(subscribers[t]) \/ i = Len(subscribers[t]) + 1
      BY <2>2, <1>3
    <3> QED
      BY <2>2, <3>1, <1>2, <1>3 DEF BusInv, ListedAreOpen
  <2> QED
    BY <2>1, <2>2
<1>8. UnmadeAreEmpty' /\ OnlyReleaseCrashes'
  BY <1>2, BusAssumption DEF BusInv, UnmadeAreEmpty, OnlyReleaseCrashes
<1> QED
  BY <1>1, <1>4, <1>6, <1>7, <1>8 DEF BusInv

\* A channel is taken out of its list and closed, or was closed by Release.
LEMMA UnSubscribeKeeps ==
  ASSUME BusInv, NEW c \in Chans, UnSubscribe(c)
  PROVE  BusInv'
<1> DEFINE t == topicOf[c]
<1>1. t \in Topics /\ subscribers \in [Topics -> Seq(Chans)] /\ subscribers[t] \in Seq(Chans)
  BY DEF BusInv, BusTypeOK, UnSubscribe
<1>2. DOMAIN subscribers[t] = 1 .. Len(subscribers[t]) /\ Len(subscribers[t]) \in Nat
  BY <1>1, LenProperties
<1>3. PICK i \in 1 .. Len(subscribers[t]) :
        /\ subscribers[t][i] = c
        /\ IF c \in closed
           THEN Crash
           ELSE /\ subscribers' = [subscribers EXCEPT ![t] = Without(@, i)]
                /\ closed' = closed \cup {c}
                /\ UNCHANGED <<topicOf, buffer, publishing, published, crashed, busHistory>>
  BY <1>2 DEF UnSubscribe
<1>4. CASE c \in closed
  <2>1. released
    BY <1>1, <1>3, <1>4 DEF BusInv, ListedAreOpen
  <2> QED
    BY <1>3, <1>4, <2>1, CrashKeeps
<1>5. CASE c \notin closed
  <2>1. /\ subscribers' = [subscribers EXCEPT ![t] = Without(@, i)]
        /\ closed' = closed \cup {c}
        /\ UNCHANGED <<topicOf, buffer, publishing, published, crashed, released, owed>>
    BY <1>3, <1>5 DEF busHistory
  <2>2. /\ subscribers'[t] = Without(subscribers[t], i)
        /\ \A u \in Topics \ {t} : subscribers'[u] = subscribers[u]
    BY <1>1, <2>1
  <2>3. /\ subscribers'[t] \in Seq(Chans) /\ Len(subscribers'[t]) = Len(subscribers[t]) - 1
        /\ \A k \in 1 .. Len(subscribers[t]) - 1 :
             subscribers'[t][k] = IF k < i THEN subscribers[t][k] ELSE subscribers[t][k + 1]
    <3> HIDE DEF t
    <3>1. /\ Without(subscribers[t], i) \in Seq(Chans)
          /\ Len(Without(subscribers[t], i)) = Len(subscribers[t]) - 1
          /\ \A k \in 1 .. Len(subscribers[t]) - 1 :
               Without(subscribers[t], i)[k] = IF k < i THEN subscribers[t][k]
                                                        ELSE subscribers[t][k + 1]
      BY <1>1, WithoutProperties
    <3> QED
      BY <2>2, <3>1
  <2>4. NotAhead' /\ InOrder' /\ OwedIsPending'
    BY <2>1, LockedKeeps DEF UnSubscribe
  <2>5. BusTypeOK'
    BY <1>1, <2>1, <2>3 DEF BusInv, BusTypeOK
  <2> HIDE DEF t
  <2>6. \A k \in 1 .. Len(subscribers'[t]) :
          \E m \in 1 .. Len(subscribers[t]) :
            m # i /\ m = (IF k < i THEN k ELSE k + 1) /\ subscribers'[t][k] = subscribers[t][m]
    <3> TAKE k \in 1 .. Len(subscribers'[t])
    <3>1. k \in 1 .. Len(subscribers[t]) - 1
      BY <2>3
    <3>2. CASE k < i
      <4>1. k \in 1 .. Len(subscribers[t]) /\ k # i
        BY <3>1, <3>2, <1>2
      <4> QED
        BY <3>1, <3>2, <4>1, <2>3
    <3>3. CASE ~(k < i)
      <4>1. k + 1 \in 1 .. Len(subscribers[t]) /\ k + 1 # i
        BY <3>1, <3>3, <1>2
      <4> QED
        BY <3>1, <3>3, <4>1, <2>3
    <3> QED
      BY <3>2, <3>3
  <2>7. EachListedOnce'
    <3> SUFFICES ASSUME NEW u \in Topics, NEW k \in 1 .. Len(subscribers'[u])
                 PROVE  /\ topicOf[subscribers'[u][k]] = u
                        /\ \A j \in 1 .. Len(subscribers'[u]) :
                             subscribers'[u][k] = subscribers'[u][j] => k = j
      BY <2>1 DEF EachListedOnce
    <3>1. CASE u # t
      BY <3>1, <2>2 DEF BusInv, EachListedOnce
    <3>2. CASE u = t
      <4>1. PICK m \in 1 .. Len(subscribers[t]) :
              m = (IF k < i THEN k ELSE k + 1) /\ subscribers'[t][k] = subscribers[t][m]
        BY <3>2, <2>6
      <4>2. topicOf[subscribers'[u][k]] = u
        BY <3>2, <4>1, <1>1 DEF BusInv, EachListedOnce
      <4>3. ASSUME NEW j \in 1 .. Len(subscribers'[u]), subscribers'[u][k] = subscribers'[u][j]
            PROVE  k = j
        <5>1. PICK n \in 1 .. Len(subscribers[t]) :
                n = (IF j < i THEN j ELSE j + 1) /\ subscribers'[t][j] = subscribers[t][n]
          BY <3>2, <2>6
        <5>2. m = n
          BY <3>2, <4>1, <4>3, <5>1, <1>1 DEF BusInv, EachListedOnce
        <5> QED
          BY <4>1, <5>1, <5>2, <1>2
      <4> QED
        BY <4>2, <4>3
    <3> QED
      BY <3>1, <3>2
  <2>8. ListedAreOpen'
    <3> SUFFICES ASSUME NEW u \in Topics, NEW k \in 1 .. Len(subscribers'[u]),
                        subscribers'[u][k] \in closed \cup {c}
                 PROVE  released
      BY <2>1 DEF ListedAreOpen
    <3>1. CASE u # t
      <4>1. subscribers'[u][k] # c
        BY <3>1, <2>2, <1>1, <1>3 DEF BusInv, EachListedOnce
      <4> QED
        BY <3>1, <4>1, <2>2 DEF BusInv, ListedAreOpen
    <3>2. CASE u = t
      <4>1. PICK m \in 1 .. Len(subscribers[t]) : m # i /\ subscribers'[t][k] = subscribers[t][m]
        BY <3>2, <2>6
      <4>2. subscribers[t][m] # c
        BY <4>1, <1>1, <1>3 DEF BusInv, EachListedOnce
      <4> QED
        BY <3>2, <4>1, <4>2, <1>1 DEF BusInv, ListedAreOpen
    <3> QED
      BY <3>1, <3>2
  <2>9. UnmadeAreEmpty' /\ OnlyReleaseCrashes'
    <3>1. topicOf[c] # None
      BY DEF UnSubscribe
    <3> QED
      BY <2>1, <3>1 DEF BusInv, UnmadeAreEmpty, OnlyReleaseCrashes
  <2> QED
    BY <2>4, <2>5, <2>7, <2>8, <2>9 DEF BusInv
<1> QED
  BY <1>4, <1>5

\* All channels in the lists are closed.
LEMMA ReleaseKeeps ==
  ASSUME BusInv, Release
  PROVE  BusInv'
<1> DEFINE all == UNION {Subscribed(t) : t \in Topics}
<1>1. \A t \in Topics : /\ DOMAIN subscribers[t] = 1 .. Len(subscribers[t])
                        /\ \A i \in 1 .. Len(subscribers[t]) : subscribers[t][i] \in Chans
  <2> TAKE t \in Topics
  <2>1. subscribers[t] \in Seq(Chans)
    BY DEF BusInv, BusTypeOK
  <2> QED
    BY <2>1, LenProperties, ElementOfSeq
<1>2. CASE all \cap closed # {}
  <2>1. PICK t \in Topics : \E i \in 1 .. Len(subscribers[t]) : subscribers[t][i] \in closed
    BY <1>1, <1>2 DEF Subscribed
  <2>2. released
    BY <2>1 DEF BusInv, ListedAreOpen
  <2> QED
    BY <1>2, <2>2, CrashKeeps DEF Release
<1>3. CASE all \cap closed = {}
  <2>1. /\ closed' = closed \cup all /\ released' = TRUE
        /\ UNCHANGED <<subscribers, topicOf, buffer, publishing, published, crashed, owed>>
    BY <1>3 DEF Release
  <2>2. NotAhead' /\ InOrder' /\ OwedIsPending'
    BY <2>1, LockedKeeps DEF Release
  <2>3. all \subseteq Chans /\ \A c \in all : topicOf[c] # None
    <3> SUFFICES ASSUME NEW t \in Topics, NEW c \in Subscribed(t) PROVE c \in Chans /\ topicOf[c] # None
      OBVIOUS
    <3>1. PICK i \in 1 .. Len(subscribers[t]) : subscribers[t][i] = c
      BY <1>1 DEF Subscribed
    <3> QED
      BY <1>1, <3>1, BusAssumption DEF BusInv, EachListedOnce
  <2>4. BusTypeOK'
    BY <2>1, <2>3 DEF BusInv, BusTypeOK
  <2>5. EachListedOnce' /\ ListedAreOpen' /\ OnlyReleaseCrashes'
    BY <2>1 DEF BusInv, EachListedOnce, ListedAreOpen, OnlyReleaseCrashes
  <2>6. UnmadeAreEmpty'
    BY <2>1, <2>3 DEF BusInv, UnmadeAreEmpty
  <2> QED
    BY <2>2, <2>4, <2>5, <2>6 DEF BusInv
<1> QED
  BY <1>2, <1>3

-----------------------------------------------------------------------------
(* Publications, which overlap, and receptions.                            *)

\* Of a publication that is under way: its topic, its list and its next place.
LEMMA UnderWay ==
  ASSUME BusInv, NEW p \in Publishers, publishing[p] # None
  PROVE  /\ publishing[p] \in [topic : Topics, at : Nat \ {0}]
         /\ publishing[p].topic \in Topics /\ publishing[p].at \in Nat \ {0}
         /\ subscribers[publishing[p].topic] \in Seq(Chans)
         /\ Len(subscribers[publishing[p].topic]) \in Nat
<1>1. publishing[p] \in [topic : Topics, at : Nat \ {0}]
  BY DEF BusInv, BusTypeOK
<1>2. publishing[p].topic \in Topics /\ publishing[p].at \in Nat \ {0}
  BY <1>1
<1>3. subscribers[publishing[p].topic] \in Seq(Chans)
  BY <1>2 DEF BusInv, BusTypeOK
<1> QED
  BY <1>1, <1>2, <1>3, LenProperties

\* Each channel in the list is owed an event, and p has still to go to it.
LEMMA BeginPublishKeeps ==
  ASSUME BusInv, NEW p \in Publishers, NEW t \in Topics, BeginPublish(p, t)
  PROVE  BusInv'
<1> USE DEF BeginPublish
<1>1. /\ publishing[p] = None /\ publishing' = [publishing EXCEPT ![p] = [topic |-> t, at |-> 1]]
      /\ published' = [published EXCEPT ![p] = @ + 1]
      /\ owed' = [c \in Chans |-> IF c \in Subscribed(t) THEN owed[c] + 1 ELSE owed[c]]
      /\ UNCHANGED <<subscribers, topicOf, buffer, closed, crashed, released>>
  OBVIOUS
<1>2. /\ subscribers[t] \in Seq(Chans) /\ DOMAIN subscribers[t] = 1 .. Len(subscribers[t])
      /\ \A k \in 1 .. Len(subscribers[t]) : subscribers[t][k] \in Chans
  BY LenProperties, ElementOfSeq DEF BusInv, BusTypeOK
<1>3. /\ publishing'[p] = [topic |-> t, at |-> 1] /\ published'[p] = published[p] + 1
      /\ \A q \in Publishers \ {p} : publishing'[q] = publishing[q] /\ published'[q] = published[q]
      /\ [topic |-> t, at |-> 1] \in [topic : Topics, at : Nat \ {0}] /\ published[p] \in Nat
      /\ publishing'[p] # None
  BY <1>1, BusAssumption DEF BusInv, BusTypeOK
<1>4. BusTypeOK'
  BY <1>1, <1>3 DEF BusInv, BusTypeOK
<1>5. EachListedOnce' /\ ListedAreOpen' /\ InOrder' /\ OnlyReleaseCrashes'
  BY <1>1 DEF BusInv, EachListedOnce, ListedAreOpen, InOrder, OnlyReleaseCrashes
<1>6. UnmadeAreEmpty'
  <2>1. \A c \in Subscribed(t) : topicOf[c] # None
    BY <1>2, BusAssumption DEF BusInv, EachListedOnce, Subscribed
  <2> QED
    BY <1>1, <2>1 DEF BusInv, UnmadeAreEmpty
<1>7. NotAhead'
  <2>1. \A c \in Chans : \A i \in 1 .. Len(buffer[c]) :
          /\ buffer[c][i].from \in Publishers /\ buffer[c][i].nr \in Nat
          /\ buffer[c][i].nr <= published[buffer[c][i].from]
    <3> TAKE c \in Chans
    <3> TAKE i \in 1 .. Len(buffer[c])
    <3>1. buffer[c] \in Seq(Event)
      BY DEF BusInv, BusTypeOK
    <3>2. buffer[c][i] \in Event
      BY <3>1, ElementOfSeq
    <3> QED
      BY <3>2 DEF BusInv, NotAhead, Event
  <2>2. \A c \in Chans : \A i \in 1 .. Len(buffer[c]) :
          buffer[c][i].nr <= published'[buffer[c][i].from]
    <3> TAKE c \in Chans
    <3> TAKE i \in 1 .. Len(buffer[c])
    <3>1. CASE buffer[c][i].from = p
      BY <3>1, <2>1, <1>3
    <3>2. CASE buffer[c][i].from # p
      BY <3>2, <2>1, <1>3
    <3> QED
      BY <3>1, <3>2
  <2>3. ASSUME NEW q \in Publishers, publishing'[q] # None,
               NEW k \in publishing'[q].at .. Len(subscribers[publishing'[q].topic]),
               NEW i \in 1 .. Len(buffer[subscribers[publishing'[q].topic][k]]),
               buffer[subscribers[publishing'[q].topic][k]][i].from = q
        PROVE  buffer[subscribers[publishing'[q].topic][k]][i].nr < published'[q]
    <3>1. CASE q = p
      <4>1. publishing'[q].at = 1 /\ publishing'[q].topic = t
        BY <3>1, <1>3
      <4>2. subscribers[t][k] \in Chans
        BY <4>1, <1>2
      <4> QED
        BY <2>1, <2>3, <3>1, <4>1, <4>2, <1>3
    <3>2. CASE q # p
      BY <2>3, <3>2, <1>3 DEF BusInv, NotAhead
    <3> QED
      BY <3>1, <3>2
  <2> QED
    BY <1>1, <2>2, <2>3 DEF NotAhead
<1>8. OwedIsPending'
  <2> SUFFICES ASSUME NEW c \in Chans
               PROVE  owed'[c] = Len(buffer[c]) + Cardinality(Pending(c)')
    BY <1>1 DEF OwedIsPending
  <2>1. /\ Pending(c)' = IF c \in Subscribed(t) THEN Pending(c) \cup {p} ELSE Pending(c)
        /\ p \notin Pending(c)
    <3>1. p \notin Pending(c)
      BY <1>1 DEF Pending
    <3>2. \A q \in Publishers \ {p} : q \in Pending(c)' <=> q \in Pending(c)
      BY <1>1, <1>3 DEF Pending
    <3>3. p \in Pending(c)' <=> \E k \in 1 .. Len(subscribers[t]) : subscribers[t][k] = c
      BY <1>1, <1>3 DEF Pending
    <3>4. p \in Pending(c)' <=> c \in Subscribed(t)
      BY <3>3, <1>2 DEF Subscribed
    <3>5. Pending(c)' \subseteq Publishers /\ Pending(c) \subseteq Publishers
      BY DEF Pending
    <3> QED
      BY <3>1, <3>2, <3>4, <3>5
  <2>2. IsFiniteSet(Pending(c)) /\ Cardinality(Pending(c)) \in Nat
    BY PendingIsFinite
  <2>3. Cardinality(Pending(c) \cup {p}) = Cardinality(Pending(c)) + 1
    BY <2>1, <2>2, FS_AddElement
  <2>4. Len(buffer[c]) \in Nat /\ owed[c] = Len(buffer[c]) + Cardinality(Pending(c))
    BY LenProperties DEF BusInv, BusTypeOK, OwedIsPending
  <2>5. CASE c \in Subscribed(t)
    BY <2>1, <2>2, <2>3, <2>4, <2>5, <1>1
  <2>6. CASE c \notin Subscribed(t)
    BY <2>1, <2>2, <2>4, <2>6, <1>1
  <2> QED
    BY <2>5, <2>6
<1> QED
  BY <1>4, <1>5, <1>6, <1>7, <1>8 DEF BusInv

\* p has gone to all of the list.
LEMMA EndPublishKeeps ==
  ASSUME BusInv, NEW p \in Publishers, EndPublish(p)
  PROVE  BusInv'
<1> USE DEF EndPublish, busHistory
<1>1. /\ publishing' = [publishing EXCEPT ![p] = None]
      /\ UNCHANGED <<subscribers, topicOf, buffer, closed, published, crashed, released, owed>>
  OBVIOUS
<1>2. publishing'[p] = None /\ \A q \in Publishers \ {p} : publishing'[q] = publishing[q]
  BY <1>1 DEF BusInv, BusTypeOK
<1>3. BusTypeOK'
  BY <1>1 DEF BusInv, BusTypeOK
<1>4. EachListedOnce' /\ ListedAreOpen' /\ UnmadeAreEmpty' /\ InOrder' /\ OnlyReleaseCrashes'
  BY <1>1 DEF BusInv, EachListedOnce, ListedAreOpen, UnmadeAreEmpty, InOrder, OnlyReleaseCrashes
<1>5. NotAhead'
  BY <1>1, <1>2 DEF BusInv, NotAhead
<1>6. \A c \in Chans : Pending(c)' = Pending(c)
  <2> TAKE c \in Chans
  <2>1. p \notin Pending(c)
    <3>1. /\ publishing[p].at \in Nat /\ Len(subscribers[publishing[p].topic]) \in Nat
          /\ publishing[p].at > Len(subscribers[publishing[p].topic])
      BY UnderWay
    <3>2. publishing[p].at .. Len(subscribers[publishing[p].topic]) = {}
      BY <3>1
    <3> QED
      BY <3>2 DEF Pending
  <2>2. p \notin Pending(c)'
    BY <1>2 DEF Pending
  <2>3. \A q \in Publishers \ {p} : q \in Pending(c)' <=> q \in Pending(c)
    BY <1>1, <1>2 DEF Pending
  <2>4. Pending(c)' \subseteq Publishers /\ Pending(c) \subseteq Publishers
    BY DEF Pending
  <2>5. \A q \in Publishers : q \in Pending(c)' <=> q \in Pending(c)
    BY <2>1, <2>2, <2>3
  <2> QED
    BY <2>4, <2>5
<1>7. OwedIsPending'
  BY <1>1, <1>6 DEF BusInv, OwedIsPending
<1> QED
  BY <1>3, <1>4, <1>5, <1>7 DEF BusInv

\* A place of the list that p has gone past, or offered to.
LEMMA OfferKeeps ==
  ASSUME BusInv, NEW p \in Publishers, Offer(p)
  PROVE  BusInv'
<1> DEFINE t == publishing[p].topic
           at == publishing[p].at
           c == subscribers[t][at]
           event == [from |-> p, nr |-> published[p]]
<1>1. /\ t \in Topics /\ at \in Nat \ {0} /\ at \in 1 .. Len(subscribers[t])
      /\ publishing[p] \in [topic : Topics, at : Nat \ {0}] /\ publishing[p] # None
      /\ subscribers[t] \in Seq(Chans) /\ Len(subscribers[t]) \in Nat
  <2>1. publishing[p] # None /\ at <= Len(subscribers[t])
    BY DEF Offer
  <2>2. /\ t \in Topics /\ at \in Nat \ {0}
        /\ publishing[p] \in [topic : Topics, at : Nat \ {0}]
        /\ subscribers[t] \in Seq(Chans) /\ Len(subscribers[t]) \in Nat
    BY <2>1, UnderWay
  <2> HIDE DEF t, at
  <2>3. at \in 1 .. Len(subscribers[t])
    BY <2>1, <2>2
  <2> QED
    BY <2>1, <2>2, <2>3
<1>2. c \in Chans
  BY <1>1, ElementOfSeq
<1>3. CASE c \in closed
  <2>1. released
    BY <1>1, <1>3 DEF BusInv, ListedAreOpen
  <2>2. Crash
    BY <1>3 DEF Offer
  <2> QED
    BY <2>1, <2>2, CrashKeeps
<1>4. CASE c \notin closed
  <2>1. /\ publishing' = [publishing EXCEPT ![p].at = at + 1]
        /\ \/ /\ Len(buffer[c]) < Length
              /\ buffer' = [buffer EXCEPT ![c] = Append(@, event)]
              /\ UNCHANGED owed
           \/ /\ owed' = [owed EXCEPT ![c] = @ - 1]
              /\ UNCHANGED buffer
        /\ UNCHANGED <<subscribers, topicOf, closed, published, crashed, released>>
    BY <1>4 DEF Offer, busHistory
  <2> HIDE DEF t, at, c, event
  <2>2. /\ publishing'[p] = [topic |-> t, at |-> at + 1]
        /\ publishing'[p] # None
        /\ publishing'[p].topic = t /\ publishing'[p].at = at + 1
        /\ \A q \in Publishers \ {p} : publishing'[q] = publishing[q]
    <3>1. publishing'[p] = [publishing[p] EXCEPT !.at = at + 1]
      BY <2>1 DEF BusInv, BusTypeOK
    <3>2. publishing'[p] = [topic |-> t, at |-> at + 1]
      BY <3>1, <1>1 DEF t, at
    <3>3. \A q \in Publishers \ {p} : publishing'[q] = publishing[q]
      BY <2>1 DEF BusInv, BusTypeOK
    <3>4. [topic |-> t, at |-> at + 1] \in [topic : Topics, at : Nat \ {0}]
      BY <1>1
    <3> QED
      BY <3>2, <3>3, <3>4, BusAssumption
  <2>3. /\ event \in Event /\ event.from = p /\ event.nr = published[p] /\ published[p] \in Nat
        /\ buffer[c] \in Seq(Event) /\ Len(buffer[c]) \in Nat /\ owed[c] \in Int
        /\ Len(buffer[c]) <= Length
    BY <1>2, LenProperties DEF BusInv, BusTypeOK, Event, event
  <2>4. /\ Append(buffer[c], event) \in Seq(Event)
        /\ Len(Append(buffer[c], event)) = Len(buffer[c]) + 1
        /\ \A k \in 1 .. Len(buffer[c]) : Append(buffer[c], event)[k] = buffer[c][k]
        /\ Append(buffer[c], event)[Len(buffer[c]) + 1] = event
    BY <2>3, AppendIs
  <2>5. \A d \in Chans :
          /\ buffer'[d] \in Seq(Event) /\ Len(buffer'[d]) \in Nat /\ Len(buffer'[d]) <= Length
          /\ d # c => buffer'[d] = buffer[d] /\ owed'[d] = owed[d]
          /\ \A i \in 1 .. Len(buffer'[d]) :
               \/ i \in 1 .. Len(buffer[d]) /\ buffer'[d][i] = buffer[d][i]
               \/ d = c /\ i = Len(buffer[d]) + 1 /\ buffer'[d][i] = event
    <3> TAKE d \in Chans
    <3>1. buffer[d] \in Seq(Event) /\ Len(buffer[d]) \in Nat /\ Len(buffer[d]) <= Length
      BY LenProperties DEF BusInv, BusTypeOK
    <3>2. CASE d # c
      BY <3>1, <3>2, <2>1, <1>2 DEF BusInv, BusTypeOK
    <3>3. CASE d = c /\ UNCHANGED buffer
      BY <3>1, <3>3
    <3>4. CASE d = c /\ Len(buffer[c]) < Length /\ buffer' = [buffer EXCEPT ![c] = Append(@, event)]
      <4>1. buffer'[d] = Append(buffer[c], event)
        BY <3>4, <1>2 DEF BusInv, BusTypeOK
      <4>2. Len(buffer'[d]) = Len(buffer[c]) + 1 /\ buffer'[d] \in Seq(Event)
        BY <4>1, <2>4
      <4>3. Len(buffer'[d]) <= Length /\ Len(buffer'[d]) \in Nat
        BY <3>4, <4>2, <2>3, BusAssumption
      <4>4. ASSUME NEW i \in 1 .. Len(buffer'[d])
            PROVE  \/ i \in 1 .. Len(buffer[d]) /\ buffer'[d][i] = buffer[d][i]
                   \/ d = c /\ i = Len(buffer[d]) + 1 /\ buffer'[d][i] = event
        <5>1. i \in 1 .. Len(buffer[c]) \/ i = Len(buffer[c]) + 1
          BY <4>2, <2>3
        <5> QED
          BY <5>1, <3>4, <4>1, <2>4
      <4> QED
        BY <3>4, <4>2, <4>3, <4>4
    <3> QED
      BY <3>2, <3>3, <3>4, <2>1
  <2>6. BusTypeOK'
    <3>1. buffer' \in [Chans -> Seq(Event)] /\ owed' \in [Chans -> Int]
      <4>1. /\ buffer \in [Chans -> Seq(Event)] /\ owed \in [Chans -> Int] /\ owed[c] - 1 \in Int
            /\ Append(buffer[c], event) \in Seq(Event)
        BY <2>3, <2>4 DEF BusInv, BusTypeOK
      <4>2. CASE buffer' = [buffer EXCEPT ![c] = Append(@, event)] /\ UNCHANGED owed
        BY <4>1, <4>2
      <4>3. CASE owed' = [owed EXCEPT ![c] = @ - 1] /\ UNCHANGED buffer
        BY <4>1, <4>3
      <4> QED
        BY <4>2, <4>3, <2>1
    <3>2. publishing' \in [Publishers -> [topic : Topics, at : Nat \ {0}] \cup {None}]
      <4>1. [topic |-> t, at |-> at + 1] \in [topic : Topics, at : Nat \ {0}]
        BY <1>1
      <4>2. publishing' = [publishing EXCEPT ![p] = [topic |-> t, at |-> at + 1]]
        BY <2>1, <2>2 DEF BusInv, BusTypeOK
      <4> QED
        BY <4>1, <4>2 DEF BusInv, BusTypeOK
    <3> QED
      BY <3>1, <3>2, <2>1, <2>5 DEF BusInv, BusTypeOK
  <2>7. EachListedOnce' /\ ListedAreOpen' /\ OnlyReleaseCrashes'
    BY <2>1 DEF BusInv, EachListedOnce, ListedAreOpen, OnlyReleaseCrashes
  <2>8. UnmadeAreEmpty'
    <3>1. topicOf[c] # None
      BY <1>1, BusAssumption DEF BusInv, EachListedOnce, c
    <3> QED
      BY <3>1, <2>1, <2>5 DEF BusInv, UnmadeAreEmpty
  <2>9. \A i \in 1 .. Len(buffer[c]) : buffer[c][i].from = p => buffer[c][i].nr < published[p]
    <3>1. at \in publishing[p].at .. Len(subscribers[publishing[p].topic])
      BY <1>1 DEF at, t
    <3> QED
      BY <3>1, <1>1 DEF BusInv, NotAhead, c, t, at
  <2>10. InOrder'
    <3> SUFFICES ASSUME NEW d \in Chans, NEW i \in 1 .. Len(buffer'[d]), NEW j \in 1 .. Len(buffer'[d]),
                        i < j, buffer'[d][i].from = buffer'[d][j].from
                 PROVE  buffer'[d][i].nr < buffer'[d][j].nr
      <4>1. \A d \in Chans : DOMAIN buffer'[d] = 1 .. Len(buffer'[d])
        BY <2>5, LenProperties
      <4> QED
        BY <4>1 DEF InOrder
    <3>1. DOMAIN buffer[d] = 1 .. Len(buffer[d]) /\ Len(buffer[d]) \in Nat
      BY LenProperties DEF BusInv, BusTypeOK
    <3>2. CASE j \in 1 .. Len(buffer[d]) /\ buffer'[d][j] = buffer[d][j]
      <4>1. i \in 1 .. Len(buffer[d])
        BY <3>1, <3>2
      <4>2. buffer'[d][i] = buffer[d][i]
        BY <4>1, <3>1, <2>5
      <4> QED
        BY <3>1, <3>2, <4>1, <4>2 DEF BusInv, InOrder
    <3>3. CASE d = c /\ j = Len(buffer[d]) + 1 /\ buffer'[d][j] = event
      <4>1. i \in 1 .. Len(buffer[d])
        BY <3>1, <3>3
      <4>2. buffer'[d][i] = buffer[d][i]
        BY <4>1, <3>1, <2>5
      <4> QED
        BY <3>3, <4>1, <4>2, <2>3, <2>9
    <3> QED
      BY <3>2, <3>3, <2>5
  <2>11. NotAhead'
    <3>1. ASSUME NEW d \in Chans, NEW i \in 1 .. Len(buffer'[d])
          PROVE  buffer'[d][i].nr <= published[buffer'[d][i].from]
      BY <2>3, <2>5 DEF BusInv, NotAhead
    <3>2. ASSUME NEW q \in Publishers, publishing'[q] # None,
                 NEW k \in publishing'[q].at .. Len(subscribers[publishing'[q].topic]),
                 NEW i \in 1 .. Len(buffer'[subscribers[publishing'[q].topic][k]]),
                 buffer'[subscribers[publishing'[q].topic][k]][i].from = q
          PROVE  buffer'[subscribers[publishing'[q].topic][k]][i].nr < published[q]
      <4> DEFINE d == subscribers[publishing'[q].topic][k]
      <4>1. CASE q = p
        <5>1. k \in 1 .. Len(subscribers[t]) /\ k # at /\ k \in at .. Len(subscribers[t]) /\ d = subscribers[t][k]
          BY <4>1, <3>2, <2>2, <1>1
        <5>2. d # c /\ d \in Chans
          BY <5>1, <1>1, ElementOfSeq DEF BusInv, EachListedOnce, c
        <5>3. buffer'[d] = buffer[d]
          BY <5>2, <2>5
        <5> QED
          BY <4>1, <5>1, <5>3, <3>2, <1>1 DEF BusInv, NotAhead, t, at
      <4>2. CASE q # p
        <5>1. publishing'[q] = publishing[q] /\ publishing[q] # None
          BY <4>2, <3>2, <2>2
        <5>2. /\ publishing[q].topic \in Topics /\ publishing[q].at \in Nat \ {0}
              /\ subscribers[publishing[q].topic] \in Seq(Chans)
              /\ Len(subscribers[publishing[q].topic]) \in Nat
          BY <5>1, UnderWay
        <5>3. k \in 1 .. Len(subscribers[publishing[q].topic])
          BY <5>1, <5>2, <3>2
        <5>4. d \in Chans
          BY <5>1, <5>2, <5>3, ElementOfSeq
        <5>5. i \in 1 .. Len(buffer[d]) /\ buffer'[d][i] = buffer[d][i]
          BY <4>2, <5>4, <3>2, <2>3, <2>5
        <5> QED
          BY <5>1, <5>5, <3>2 DEF BusInv, NotAhead
      <4> QED
        BY <4>1, <4>2
    <3> QED
      BY <3>1, <3>2, <2>1 DEF NotAhead
  <2>12. OwedIsPending'
    <3> SUFFICES ASSUME NEW d \in Chans
                 PROVE  owed'[d] = Len(buffer'[d]) + Cardinality(Pending(d)')
      BY DEF OwedIsPending
    <3>1. \A q \in Publishers \ {p} : q \in Pending(d)' <=> q \in Pending(d)
      BY <2>1, <2>2 DEF Pending
    <3>2. Pending(d)' \subseteq Publishers /\ Pending(d) \subseteq Publishers
      BY DEF Pending
    <3>3. /\ p \in Pending(d) <=> \E k \in at .. Len(subscribers[t]) : subscribers[t][k] = d
          /\ p \in Pending(d)' <=> \E k \in at + 1 .. Len(subscribers[t]) : subscribers[t][k] = d
      BY <2>1, <2>2, <1>1 DEF Pending, t, at
    <3>4. owed[d] = Len(buffer[d]) + Cardinality(Pending(d))
      BY DEF BusInv, OwedIsPending
    <3>5. CASE d # c
      <4>1. p \in Pending(d)' <=> p \in Pending(d)
        <5>1. \A k \in at .. Len(subscribers[t]) : subscribers[t][k] = d => k \in at + 1 .. Len(subscribers[t])
          BY <3>5, <1>1 DEF c
        <5>2. \A k \in at + 1 .. Len(subscribers[t]) : k \in at .. Len(subscribers[t])
          BY <1>1
        <5> QED
          BY <3>3, <5>1, <5>2
      <4>2. \A q \in Publishers : q \in Pending(d)' <=> q \in Pending(d)
        BY <3>1, <4>1
      <4>3. Pending(d)' = Pending(d)
        BY <3>2, <4>2
      <4> QED
        BY <4>3, <3>4, <3>5, <2>5
    <3>6. CASE d = c
      <4>1. p \in Pending(d)
        <5>1. at \in at .. Len(subscribers[t]) /\ subscribers[t][at] = d
          BY <3>6, <1>1 DEF c
        <5> QED
          BY <3>3, <5>1
      <4>2. p \notin Pending(d)'
        <5>1. \A k \in at + 1 .. Len(subscribers[t]) : k \in 1 .. Len(subscribers[t]) /\ k # at
          BY <1>1
        <5>2. \A k \in at + 1 .. Len(subscribers[t]) : subscribers[t][k] # c
          BY <5>1, <1>1 DEF BusInv, EachListedOnce, c
        <5> QED
          BY <3>3, <3>6, <5>2
      <4>3. \A q \in Publishers : q \in Pending(d)' <=> q \in Pending(d) \ {p}
        BY <3>1, <4>2
      <4>4. Pending(d)' = Pending(d) \ {p}
        BY <3>2, <4>3
      <4>5. IsFiniteSet(Pending(d)) /\ Cardinality(Pending(d)) \in Nat
        BY PendingIsFinite
      <4>6. Cardinality(Pending(d)') = Cardinality(Pending(d)) - 1
        BY <4>1, <4>4, <4>5, FS_RemoveElement
      <4>7. CASE buffer' = [buffer EXCEPT ![c] = Append(@, event)] /\ UNCHANGED owed
        <5>1. Len(buffer'[d]) = Len(buffer[d]) + 1
          BY <3>6, <4>7, <2>4, <1>2 DEF BusInv, BusTypeOK
        <5> QED
          BY <3>4, <3>6, <4>5, <4>6, <4>7, <5>1, <2>3
      <4>8. CASE owed' = [owed EXCEPT ![c] = @ - 1] /\ UNCHANGED buffer
        <5>1. owed'[d] = owed[d] - 1
          BY <3>6, <4>8, <1>2 DEF BusInv, BusTypeOK
        <5> QED
          BY <3>4, <3>6, <4>5, <4>6, <4>8, <5>1, <2>3
      <4> QED
        BY <4>7, <4>8, <2>1
    <3> QED
      BY <3>5, <3>6
  <2> QED
    BY <2>6, <2>7, <2>8, <2>10, <2>11, <2>12 DEF BusInv
<1> QED
  BY <1>3, <1>4

\* The first event leaves the channel.
LEMMA ReceiveKeeps ==
  ASSUME BusInv, NEW c \in Chans, Receive(c)
  PROVE  BusInv'
<1> USE DEF Receive
<1>1. /\ buffer[c] # <<>> /\ buffer' = [buffer EXCEPT ![c] = Tail(@)]
      /\ owed' = [owed EXCEPT ![c] = @ - 1]
      /\ UNCHANGED <<subscribers, topicOf, closed, publishing, published, crashed, released>>
  OBVIOUS
<1>2. \A d \in Chans : buffer[d] \in Seq(Event) /\ Len(buffer[d]) \in Nat /\ owed[d] \in Int
  BY LenProperties DEF BusInv, BusTypeOK
<1>3. /\ Tail(buffer[c]) \in Seq(Event) /\ Len(Tail(buffer[c])) = Len(buffer[c]) - 1
      /\ \A i \in 1 .. Len(Tail(buffer[c])) : Tail(buffer[c])[i] = buffer[c][i + 1]
  BY <1>1, <1>2, HeadTailProperties
<1>4. /\ buffer'[c] = Tail(buffer[c]) /\ owed'[c] = owed[c] - 1
      /\ \A d \in Chans \ {c} : buffer'[d] = buffer[d] /\ owed'[d] = owed[d]
  BY <1>1 DEF BusInv, BusTypeOK
<1>5. \A d \in Chans : /\ buffer'[d] \in Seq(Event) /\ DOMAIN buffer'[d] = 1 .. Len(buffer'[d])
                       /\ Len(buffer'[d]) <= Len(buffer[d]) /\ Len(buffer'[d]) \in Nat
  <2> TAKE d \in Chans
  <2>1. CASE d = c
    BY <2>1, <1>2, <1>3, <1>4, LenProperties
  <2>2. CASE d # c
    BY <2>2, <1>2, <1>4, LenProperties
  <2> QED
    BY <2>1, <2>2
<1>6. BusTypeOK'
  <2>1. buffer' \in [Chans -> Seq(Event)]
    BY <1>1, <1>3 DEF BusInv, BusTypeOK
  <2>2. owed' \in [Chans -> Int]
    BY <1>1, <1>2 DEF BusInv, BusTypeOK
  <2>3. \A d \in Chans : Len(buffer'[d]) <= Length
    BY <1>2, <1>5, BusAssumption DEF BusInv, BusTypeOK
  <2> QED
    BY <1>1, <2>1, <2>2, <2>3 DEF BusInv, BusTypeOK
<1>7. EachListedOnce' /\ ListedAreOpen' /\ OnlyReleaseCrashes'
  BY <1>1 DEF BusInv, EachListedOnce, ListedAreOpen, OnlyReleaseCrashes
<1>8. UnmadeAreEmpty'
  <2>1. topicOf[c] # None
    BY <1>1 DEF BusInv, UnmadeAreEmpty
  <2> QED
    BY <1>1, <1>4, <2>1 DEF BusInv, UnmadeAreEmpty
<1>9. \A d \in Chans : \A i \in 1 .. Len(buffer'[d]) :
        \E n \in {0, 1} : \A j \in 1 .. Len(buffer'[d]) :
          j + n \in 1 .. Len(buffer[d]) /\ buffer'[d][j] = buffer[d][j + n]
  <2> TAKE d \in Chans
  <2>1. CASE d = c
    <3>1. buffer'[d] = Tail(buffer[c]) /\ buffer[d] = buffer[c]
      BY <2>1, <1>4
    <3>2. Len(buffer'[d]) = Len(buffer[d]) - 1
      BY <1>3, <3>1
    <3>3. Len(buffer[d]) \in Nat
      BY <1>2
    <3>4. \A j \in 1 .. Len(buffer'[d]) : j + 1 \in 1 .. Len(buffer[d])
      BY <3>2, <3>3
    <3>5. \A j \in 1 .. Len(buffer'[d]) : buffer'[d][j] = buffer[d][j + 1]
      BY <1>3, <3>1
    <3> QED
      BY <3>4, <3>5
  <2>2. CASE d # c
    <3>1. \A j \in 1 .. Len(buffer'[d]) : j + 0 = j
      BY <1>5
    <3>2. buffer'[d] = buffer[d]
      BY <2>2, <1>4
    <3>3. \A j \in 1 .. Len(buffer'[d]) :
            j + 0 \in 1 .. Len(buffer[d]) /\ buffer'[d][j] = buffer[d][j + 0]
      BY <3>1, <3>2
    <3> QED
      BY <3>3
  <2> QED
    BY <2>1, <2>2
<1>10. InOrder'
  <2> SUFFICES ASSUME NEW d \in Chans, NEW i \in 1 .. Len(buffer'[d]), NEW j \in 1 .. Len(buffer'[d]),
                      i < j, buffer'[d][i].from = buffer'[d][j].from
               PROVE  buffer'[d][i].nr < buffer'[d][j].nr
    BY <1>5 DEF InOrder
  <2>1. PICK n \in {0, 1} : \A k \in 1 .. Len(buffer'[d]) :
          k + n \in 1 .. Len(buffer[d]) /\ buffer'[d][k] = buffer[d][k + n]
    BY <1>9
  <2>2. i + n < j + n
    BY <2>1, <1>5
  <2>3. DOMAIN buffer[d] = 1 .. Len(buffer[d])
    BY <1>2, LenProperties
  <2>4. /\ i + n \in DOMAIN buffer[d] /\ j + n \in DOMAIN buffer[d]
        /\ buffer'[d][i] = buffer[d][i + n] /\ buffer'[d][j] = buffer[d][j + n]
    BY <2>1, <2>3
  <2>5. buffer[d][i + n].nr < buffer[d][j + n].nr
    BY <2>2, <2>4 DEF BusInv, InOrder
  <2> QED
    BY <2>4, <2>5
<1>11. NotAhead'
  <2>1. ASSUME NEW d \in Chans, NEW i \in 1 .. Len(buffer'[d])
        PROVE  buffer'[d][i].nr <= published[buffer'[d][i].from]
    BY <1>9 DEF BusInv, NotAhead
  <2>2. ASSUME NEW q \in Publishers, publishing[q] # None,
               NEW k \in publishing[q].at .. Len(subscribers[publishing[q].topic]),
               NEW i \in 1 .. Len(buffer'[subscribers[publishing[q].topic][k]]),
               buffer'[subscribers[publishing[q].topic][k]][i].from = q
        PROVE  buffer'[subscribers[publishing[q].topic][k]][i].nr < published[q]
    <3> DEFINE d == subscribers[publishing[q].topic][k]
    <3>1. /\ publishing[q].at \in Nat \ {0} /\ subscribers[publishing[q].topic] \in Seq(Chans)
          /\ Len(subscribers[publishing[q].topic]) \in Nat
      BY <2>2, UnderWay
    <3>2. k \in 1 .. Len(subscribers[publishing[q].topic])
      BY <3>1
    <3>3. d \in Chans
      BY <3>1, <3>2, ElementOfSeq
    <3>4. PICK n \in {0, 1} : i + n \in 1 .. Len(buffer[d]) /\ buffer'[d][i] = buffer[d][i + n]
      BY <3>3, <1>9
    <3>5. buffer[d][i + n].nr < published[q]
      BY <2>2, <3>4 DEF BusInv, NotAhead
    <3> QED
      BY <3>4, <3>5
  <2> QED
    BY <1>1, <2>1, <2>2 DEF NotAhead
<1>12. OwedIsPending'
  <2>1. \A d \in Chans : Pending(d)' = Pending(d)
    BY <1>1 DEF Pending
  <2>2. \A d \in Chans : Cardinality(Pending(d)) \in Nat
    BY PendingIsFinite
  <2>3. \A d \in Chans : owed'[d] = Len(buffer'[d]) + Cardinality(Pending(d))
    <3> TAKE d \in Chans
    <3>1. owed[d] = Len(buffer[d]) + Cardinality(Pending(d))
      BY DEF BusInv, OwedIsPending
    <3>2. CASE d = c
      <4>1. owed'[d] = owed[d] - 1 /\ Len(buffer'[d]) = Len(buffer[d]) - 1
        BY <3>2, <1>3, <1>4
      <4>2. Cardinality(Pending(d)) \in Nat /\ Len(buffer[d]) \in Nat /\ owed[d] \in Int
        BY <2>2, <1>2
      <4> QED
        BY <3>1, <4>1, <4>2
    <3>3. CASE d # c
      BY <3>1, <3>3, <1>4
    <3> QED
      BY <3>2, <3>3
  <2> QED
    BY <2>1, <2>3 DEF OwedIsPending
<1> QED
  BY <1>6, <1>7, <1>8, <1>10, <1>11, <1>12 DEF BusInv

-----------------------------------------------------------------------------
\* Every step of the bus keeps the invariant.
LEMMA NextBusInv == BusInv /\ [BusNext]_busVars => BusInv'
<1> SUFFICES ASSUME BusInv, [BusNext]_busVars PROVE BusInv'
  OBVIOUS
<1>1. ASSUME NEW c \in Chans, NEW t \in Topics, Subscribe(c, t) PROVE BusInv'
  BY <1>1, SubscribeKeeps
<1>2. ASSUME NEW c \in Chans, UnSubscribe(c) PROVE BusInv'
  BY <1>2, UnSubscribeKeeps
<1>3. ASSUME NEW c \in Chans, Receive(c) PROVE BusInv'
  BY <1>3, ReceiveKeeps
<1>4. CASE Release
  BY <1>4, ReleaseKeeps
<1>5. ASSUME NEW p \in Publishers, Offer(p) PROVE BusInv'
  BY <1>5, OfferKeeps
<1>6. ASSUME NEW p \in Publishers, EndPublish(p) PROVE BusInv'
  BY <1>6, EndPublishKeeps
<1>7. ASSUME NEW p \in Publishers, NEW t \in Topics, BeginPublish(p, t) PROVE BusInv'
  BY <1>7, BeginPublishKeeps
<1>8. CASE UNCHANGED busVars
  BY <1>8, BusStutters
<1> QED
  BY <1>1, <1>2, <1>3, <1>4, <1>5, <1>6, <1>7, <1>8 DEF BusNext, Publishes

\* The bus keeps its invariant, whoever uses it.
THEOREM BusIsSound == BusSpec => []BusInv
BY InitBusInv, NextBusInv, PTL DEF BusSpec

-----------------------------------------------------------------------------
(* The postman is a user of the bus.                                       *)

\* The types of the postman's own variables.
OwnTypes ==
    /\ watch \in [Watches -> {"none", "called", "waiting", "handling", "ended"}]
    /\ chan \in [Watches -> Chans \cup {None}]
    /\ delivery \in [Deliveries -> {"none", "waiting", "publishing", "ended"}]
    /\ cancels \subseteq Watches /\ cancelled \subseteq Watches \cup Deliveries
    /\ stop \in {"no", "waiting", "returned"}

\* A watch that waits for events has a channel to wait on.
WatchesHaveChannels == \A w \in Watches : watch[w] \in {"waiting", "handling"} => chan[w] \in Chans

PostmanInv == OwnTypes /\ WatchesHaveChannels

\* Nobody watches at first.
LEMMA InitPostmanInv == Init => PostmanInv
BY DEF Init, PostmanInv, OwnTypes, WatchesHaveChannels

\* What the postman does to its own variables keeps their types.
LEMMA NextPostmanInv == PostmanInv /\ [Next]_vars => PostmanInv'
<1> SUFFICES ASSUME PostmanInv, [Next]_vars PROVE PostmanInv'
  OBVIOUS
<1> USE DEF PostmanInv, OwnTypes, WatchesHaveChannels
<1>1. ASSUME NEW w \in Watches, Watch(w) PROVE PostmanInv'
  BY <1>1 DEF Watch
<1>2. ASSUME NEW w \in Watches, NEW t \in Topics, WatchSubscribes(w, t) PROVE PostmanInv'
  <2>1. PICK c \in Chans : chan' = [chan EXCEPT ![w] = c]
    BY <1>2 DEF WatchSubscribes
  <2> QED
    BY <1>2, <2>1 DEF WatchSubscribes
<1>3. ASSUME NEW w \in Watches, Handle(w) PROVE PostmanInv'
  BY <1>3 DEF Handle
<1>4. ASSUME NEW w \in Watches, HandlerReturns(w) PROVE PostmanInv'
  BY <1>4 DEF HandlerReturns
<1>5. ASSUME NEW w \in Watches, WatchEnds(w) PROVE PostmanInv'
  BY <1>5 DEF WatchEnds
<1>6. ASSUME NEW d \in Deliveries, Deliver(d) PROVE PostmanInv'
  BY <1>6 DEF Deliver
<1>7. ASSUME NEW d \in Deliveries, NEW t \in Topics, DeliveryPublishes(d, t) PROVE PostmanInv'
  BY <1>7 DEF DeliveryPublishes
<1>8. ASSUME NEW d \in Deliveries, Delivered(d) PROVE PostmanInv'
  BY <1>8 DEF Delivered
<1>9. ASSUME NEW d \in Deliveries, DeliveryEnds(d) PROVE PostmanInv'
  BY <1>9 DEF DeliveryEnds
<1>10. CASE Cancel
  BY <1>10 DEF Cancel
<1>11. CASE Stop
  BY <1>11 DEF Stop
<1>12. CASE StopReturns
  BY <1>12 DEF StopReturns
<1>13. CASE UNCHANGED postmanVars
  BY <1>13 DEF postmanVars
<1> QED
  BY <1>1, <1>2, <1>3, <1>4, <1>5, <1>6, <1>7, <1>8, <1>9, <1>10, <1>11, <1>12, <1>13
     DEF Next, Watching, DirectUse, Publication, HandlerPublishes, vars

\* What the postman does to the bus is what the bus does for anybody.
LEMMA NextUsesBus == PostmanInv /\ [Next]_vars => [BusNext]_busVars
<1> SUFFICES ASSUME PostmanInv, [Next]_vars PROVE [BusNext]_busVars
  OBVIOUS
<1>1. Watches \cup Deliveries \subseteq Publishers
  BY PostmanAssumption
<1>2. ASSUME NEW w \in Watches, NEW t \in Topics, WatchSubscribes(w, t) PROVE BusNext
  BY <1>2 DEF WatchSubscribes, BusNext
<1>3. ASSUME NEW w \in Watches, Handle(w) PROVE BusNext
  <2>1. chan[w] \in Chans
    BY <1>3 DEF Handle, PostmanInv, WatchesHaveChannels
  <2> QED
    BY <1>3, <2>1 DEF Handle, BusNext
<1>4. ASSUME NEW w \in Watches, NEW t \in Topics, HandlerPublishes(w, t) PROVE BusNext
  BY <1>1, <1>4 DEF HandlerPublishes, BusNext
<1>5. ASSUME NEW d \in Deliveries, NEW t \in Topics, DeliveryPublishes(d, t) PROVE BusNext
  BY <1>1, <1>5 DEF DeliveryPublishes, BusNext
<1>6. CASE DirectUse
  BY <1>6 DEF DirectUse, Others, BusNext
<1>7. ASSUME NEW p \in Publishers, Publication(p) PROVE BusNext
  BY <1>7 DEF Publication, BusNext
<1>8. ASSUME NEW w \in Watches, Watch(w) \/ HandlerReturns(w) \/ WatchEnds(w) PROVE UNCHANGED busVars
  BY <1>8 DEF Watch, HandlerReturns, WatchEnds
<1>9. ASSUME NEW d \in Deliveries, Deliver(d) \/ Delivered(d) \/ DeliveryEnds(d) PROVE UNCHANGED busVars
  BY <1>9 DEF Deliver, Delivered, DeliveryEnds
<1>10. CASE Cancel \/ Stop \/ StopReturns
  BY <1>10 DEF Cancel, Stop, StopReturns
<1>11. CASE UNCHANGED vars
  BY <1>11 DEF vars
<1> QED
  BY <1>2, <1>3, <1>4, <1>5, <1>6, <1>7, <1>8, <1>9, <1>10, <1>11 DEF Next, Watching

\* Every behaviour of the postman is one of the bus.
THEOREM UsesBus == Spec => BusSpec
<1>1. Init => BusInit
  BY DEF Init
<1> QED
  BY <1>1, InitPostmanInv, NextPostmanInv, NextUsesBus, PTL DEF Spec, BusSpec

\* The variables of bus and postman keep their types: no channel holds more than it has
\* room for.
THEOREM PostmanTypes == Spec => []PostmanTypeOK
<1>1. BusInv /\ PostmanInv => PostmanTypeOK
  BY DEF BusInv, PostmanInv, OwnTypes, PostmanTypeOK
<1> QED
  BY <1>1, UsesBus, BusIsSound, InitPostmanInv, NextPostmanInv, PTL DEF Spec

\* A subscriber has the events of one publisher in its order and never twice, whatever
\* publications overlap and whoever subscribes and unsubscribes.
THEOREM EventsInOrder == Spec => []InOrder
<1>1. BusInv => InOrder
  BY DEF BusInv
<1> QED
  BY <1>1, UsesBus, BusIsSound, PTL

\* Each event reaches each subscriber that has room for it, when its publication is over.
THEOREM NoEventIsLost == Spec => []EveryEventCounts
<1>1. BusInv => EveryEventCounts
  <2> SUFFICES ASSUME BusInv, Unlocked, NEW c \in Chans PROVE owed[c] = Len(buffer[c])
    BY DEF EveryEventCounts
  <2>1. Cardinality(Pending(c)) = 0
    BY NonePending, FS_EmptySet
  <2>2. Len(buffer[c]) \in Nat
    BY LenProperties DEF BusInv, BusTypeOK
  <2> QED
    BY <2>1, <2>2 DEF BusInv, OwedIsPending
<1> QED
  BY <1>1, UsesBus, BusIsSound, PTL

\* As long as nobody calls Release, nobody sends on a closed channel or closes one twice.
THEOREM NoCrashBeforeRelease == Spec => []OnlyReleaseCrashes
<1>1. BusInv => OnlyReleaseCrashes
  BY DEF BusInv
<1> QED
  BY <1>1, UsesBus, BusIsSound, PTL

=============================================================================
