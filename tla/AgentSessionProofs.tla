-------------------------- MODULE AgentSessionProofs --------------------------
(***************************************************************************)
(* What holds of the streams of a session, for every number of streams and *)
(* of messages: types, OpenStreamIsFound, CleanupComplete and              *)
(* ReadyStreamLosesNothing.                                                *)
(*                                                                         *)
(* None of the three is inductive.  They rest on Sound, which relates what *)
(* the API knows of a stream and has sent, which the agent sees late, to   *)
(* the stage of the stream's goroutine; and on Numbered, which says that   *)
(* what is dropped was sent.                                               *)
(*                                                                         *)
(* Then the requests of a session (AgentRequests: OwnReplies and           *)
(* HealthyIsKept), and the agent that has both beside a fleet              *)
(* (GalaxyAgent): each of its sides behaves as it does alone.              *)
(***************************************************************************)
EXTENDS GalaxyAgent, TLAPS

\* A message of the type for stream i is underway.
Waiting(type, i) == \E k \in 1..Len(inbox) : inbox[k] = [type |-> type, id |-> i]

\* The open message of a stream is sent once.
OpenedOnce ==
    \A k, l \in 1..Len(inbox) :
        inbox[k].type = "open" /\ inbox[k] = inbox[l] => k = l

\* The data messages underway can be numbered in the order they were sent in,
\* after those that were dropped.
Numbered ==
    /\ \A i \in Ids : dropped[i] <= posted[i]
    /\ \E n \in [1..Len(inbox) -> Nat] :
          /\ \A k \in 1..Len(inbox) : inbox[k].type = "data" =>
                dropped[inbox[k].id] < n[k] /\ n[k] <= posted[inbox[k].id]
          /\ \A k, l \in 1..Len(inbox) :
                k < l /\ inbox[k].type = "data" /\ inbox[k] = inbox[l] => n[k] < n[l]

\* What the API may know and have sent at each stage of the goroutine.
Asked(i) ==
    /\ api[i] = "unused" => opener[i] = "none" /\ ~ Waiting("open", i)
    /\ Waiting("open", i) => opener[i] = "none"
    /\ opener[i] \in {"none", "open", "register", "announce"} => api[i] \in {"unused", "asked"}
    /\ api[i] \in {"ready", "closing"} => socket[i] # "none"
    /\ Waiting("data", i) \/ Waiting("close", i) =>
          api[i] \in {"ready", "closing", "ended"} /\ socket[i] # "none"

\* The socket at each stage, and whether the map has the stream.
Connected(i) ==
    /\ opener[i] \in {"none", "open"} => socket[i] = "none" /\ i \notin streams
    /\ opener[i] \in {"register", "announce", "pump"} => socket[i] # "none"
    /\ opener[i] \in {"announce", "pump"} /\ socket[i] = "open" => i \in streams
    /\ opener[i] = "forget" => socket[i] = "closed"
    /\ opener[i] = "end" => socket[i] # "open"

\* What the clean-up leaves.
Left(i) ==
    loop = "over" /\ (opener[i] \in {"open", "register"} \/ socket[i] = "open") => i \in late

Sound ==
    /\ OpenedOnce
    /\ Numbered
    /\ \A i \in Ids : Asked(i) /\ Connected(i) /\ Left(i)
-----------------------------------------------------------------------------
(* The inbox.                                                              *)

\* Posting adds one message, at the end.
LEMMA Posted ==
    ASSUME TypeOK, NEW type \in {"open", "data", "close"}, NEW i \in Ids, Post(type, i)
    PROVE  /\ inbox' \in Seq(Message)
           /\ Len(inbox') = Len(inbox) + 1 /\ Len(inbox') <= MaxInbox
           /\ \A k \in 1..Len(inbox) : inbox'[k] = inbox[k]
           /\ inbox'[Len(inbox')] = [type |-> type, id |-> i]
           /\ \A t \in {"open", "data", "close"}, j \in Ids :
                 Waiting(t, j)' <=> Waiting(t, j) \/ (t = type /\ j = i)
<1> DEFINE m == [type |-> type, id |-> i]
<1>1. inbox \in Seq(Message) /\ Len(inbox) \in Nat /\ MaxInbox \in Nat /\ m \in Message
  BY SessionAssumption DEF TypeOK, Message
<1>2. inbox' = Append(inbox, m) /\ Len(inbox) < MaxInbox
  BY DEF Post
<1> HIDE DEF m
<1>3. /\ inbox' \in Seq(Message)
      /\ Len(inbox') = Len(inbox) + 1
      /\ \A k \in 1..Len(inbox) : inbox'[k] = inbox[k]
      /\ inbox'[Len(inbox) + 1] = m
  BY <1>1, <1>2
<1>4. ASSUME NEW t \in {"open", "data", "close"}, NEW j \in Ids
      PROVE  Waiting(t, j)' <=> Waiting(t, j) \/ (t = type /\ j = i)
  <2>1. m = [type |-> t, id |-> j] <=> t = type /\ j = i
    BY DEF m
  <2> DEFINE w == [type |-> t, id |-> j]
  <2> HIDE DEF w
  <2>2. (\E k \in 1..Len(inbox') : inbox'[k] = w) <=> (\E k \in 1..Len(inbox) : inbox[k] = w) \/ m = w
    BY <1>1, <1>3
  <2>3. QED
    BY <2>1, <2>2 DEF Waiting, w
<1>5. QED
  BY <1>1, <1>2, <1>3, <1>4 DEF m

\* Taking removes the first message, which was of the type, for the stream.
LEMMA Taken ==
    ASSUME TypeOK, NEW type \in {"open", "data", "close"}, NEW i \in Ids, Take(type, i)
    PROVE  /\ inbox' \in Seq(Message)
           /\ Len(inbox) \in Nat /\ Len(inbox) > 0
           /\ Len(inbox') = Len(inbox) - 1 /\ Len(inbox') <= MaxInbox
           /\ \A k \in 1..Len(inbox') : inbox'[k] = inbox[k + 1]
           /\ inbox[1] = [type |-> type, id |-> i]
           /\ Waiting(type, i)
           /\ \A t \in {"open", "data", "close"}, j \in Ids : Waiting(t, j)' => Waiting(t, j)
<1>1. inbox \in Seq(Message) /\ Len(inbox) \in Nat /\ MaxInbox \in Nat /\ Len(inbox) <= MaxInbox
  BY SessionAssumption DEF TypeOK
<1>2. inbox # <<>> /\ Head(inbox) = [type |-> type, id |-> i] /\ inbox' = Tail(inbox)
  BY DEF Take
<1>3. /\ inbox' \in Seq(Message)
      /\ Len(inbox) > 0
      /\ Len(inbox') = Len(inbox) - 1
      /\ \A k \in 1..Len(inbox') : inbox'[k] = inbox[k + 1]
      /\ inbox[1] = [type |-> type, id |-> i]
  BY <1>1, <1>2
<1>4. Waiting(type, i)
  BY <1>1, <1>3 DEF Waiting
<1>5. ASSUME NEW t \in {"open", "data", "close"}, NEW j \in Ids, Waiting(t, j)'
      PROVE  Waiting(t, j)
  BY <1>1, <1>3, <1>5 DEF Waiting
<1>6. QED
  BY <1>1, <1>3, <1>4, <1>5

\* An open message that is taken was the only one of its stream.
LEMMA OpenTaken ==
    ASSUME TypeOK, OpenedOnce, NEW i \in Ids, Take("open", i)
    PROVE  ~ Waiting("open", i)'
<1>1. /\ Len(inbox) \in Nat /\ Len(inbox) > 0 /\ Len(inbox') = Len(inbox) - 1
      /\ \A k \in 1..Len(inbox') : inbox'[k] = inbox[k + 1]
      /\ inbox[1] = [type |-> "open", id |-> i]
  BY Taken
<1>2. ASSUME NEW k \in 1..Len(inbox'), inbox'[k] = [type |-> "open", id |-> i]
      PROVE  FALSE
  <2>1. 1 \in 1..Len(inbox) /\ k + 1 \in 1..Len(inbox) /\ inbox[k + 1] = inbox[1]
    BY <1>1, <1>2
  <2>2. inbox[1].type = "open"
    BY <1>1
  <2>3. QED
    BY <1>1, <2>1, <2>2 DEF OpenedOnce
<1>3. QED
  BY <1>2 DEF Waiting

-----------------------------------------------------------------------------
(* The invariant.                                                          *)

\* The actions that leave the inbox and what the API sent alone.
Inner ==
    \/ WriteReturns \/ ReadFails \/ ApiSilent \/ HeartbeatTimeout \/ Disconnect
    \/ \E i \in Ids : OpenStream(i) \/ Stream(i)
    \/ \E i \in Ids : DockerEnds(i) \/ DockerStalls(i) \/ DockerResumes(i)

\* Those are what the other cases of a step are.
LEMMA InnerKeeps == Inner => UNCHANGED <<inbox, posted, dropped>>
BY DEF Inner, WriteReturns, ReadFails, ApiSilent, HeartbeatTimeout, Disconnect, OpenStream,
   Stream, Register, Announce, PumpEnds, Forget, DockerEnds, DockerStalls, DockerResumes,
   connVars, streamVars, historyVars

\* A step of the session posts, takes a message, is an inner one, or stutters.
LEMMA StepCases ==
    ASSUME [Next]_vars
    PROVE  \/ \E i \in Ids : ApiOpen(i) \/ ApiData(i) \/ ApiClose(i)
           \/ \E i \in Ids : ReceiveOpen(i) \/ ReceiveData(i) \/ ReceiveClose(i)
           \/ Inner
           \/ UNCHANGED vars
BY DEF Next, Loop, Receive, Inner

\* No stream has a second open message underway.
LEMMA OpenedOnceKept ==
    ASSUME TypeOK, Sound, [Next]_vars
    PROVE  OpenedOnce'
<1> USE DEF Sound
<1>1. ASSUME NEW i \in Ids, ApiOpen(i)
      PROVE  OpenedOnce'
  <2>1. Post("open", i) /\ ~ Waiting("open", i)
    BY <1>1 DEF ApiOpen, Asked
  <2>2. /\ Len(inbox') = Len(inbox) + 1
        /\ \A k \in 1..Len(inbox) : inbox'[k] = inbox[k]
        /\ inbox'[Len(inbox')] = [type |-> "open", id |-> i]
    BY <2>1, Posted
  <2>3. Len(inbox) \in Nat
    BY DEF TypeOK
  <2>4. \A k \in 1..Len(inbox) : inbox'[k] # inbox'[Len(inbox')]
    BY <2>1, <2>2, <2>3 DEF Waiting
  <2>5. QED
    BY <2>2, <2>3, <2>4 DEF OpenedOnce
<1>2. ASSUME NEW i \in Ids, ApiData(i) \/ ApiClose(i)
      PROVE  OpenedOnce'
  <2>1. PICK t \in {"data", "close"} : Post(t, i)
    BY <1>2 DEF ApiData, ApiClose
  <2>2. /\ Len(inbox') = Len(inbox) + 1
        /\ \A k \in 1..Len(inbox) : inbox'[k] = inbox[k]
        /\ inbox'[Len(inbox')] = [type |-> t, id |-> i]
    BY <2>1, Posted
  <2>3. Len(inbox) \in Nat
    BY DEF TypeOK
  <2>4. inbox'[Len(inbox')].type # "open"
    BY <2>2
  <2>5. QED
    BY <2>2, <2>3, <2>4 DEF OpenedOnce
<1>3. ASSUME NEW i \in Ids, ReceiveOpen(i) \/ ReceiveData(i) \/ ReceiveClose(i)
      PROVE  OpenedOnce'
  <2>1. PICK t \in {"open", "data", "close"} : Take(t, i)
    BY <1>3 DEF ReceiveOpen, ReceiveData, ReceiveClose
  <2>2. /\ Len(inbox) \in Nat /\ Len(inbox') = Len(inbox) - 1
        /\ \A k \in 1..Len(inbox') : inbox'[k] = inbox[k + 1]
    BY <2>1, Taken
  <2>3. SUFFICES ASSUME NEW k \in 1..Len(inbox'), NEW l \in 1..Len(inbox'),
                        inbox'[k].type = "open", inbox'[k] = inbox'[l]
                 PROVE  k = l
    BY DEF OpenedOnce
  <2>4. k + 1 \in 1..Len(inbox) /\ l + 1 \in 1..Len(inbox)
    BY <2>2
  <2>5. inbox[k + 1].type = "open" /\ inbox[k + 1] = inbox[l + 1]
    BY <2>2, <2>3
  <2>6. k + 1 = l + 1
    BY <2>4, <2>5 DEF OpenedOnce
  <2>7. QED
    BY <2>6
<1>4. CASE Inner \/ UNCHANGED vars
  BY <1>4, InnerKeeps DEF OpenedOnce, vars, connVars
<1>5. QED
  BY <1>1, <1>2, <1>3, <1>4, StepCases

\* What is dropped was sent: the numbers of the data underway carry over.
LEMMA NumberedKept ==
    ASSUME TypeOK, Sound, [Next]_vars
    PROVE  Numbered'
<1>0. /\ Len(inbox) \in Nat /\ inbox \in Seq(Message)
      /\ posted \in [Ids -> Nat] /\ dropped \in [Ids -> Nat]
      /\ \A k \in 1..Len(inbox) : inbox[k] \in Message /\ inbox[k].id \in Ids
      /\ \A i \in Ids : dropped[i] <= posted[i]
  <2>1. inbox \in Seq(Message) /\ \A x \in Message : x.id \in Ids
    BY DEF TypeOK, Message
  <2>2. Len(inbox) \in Nat /\ \A k \in 1..Len(inbox) : inbox[k] \in Message
    BY <2>1
  <2>3. posted \in [Ids -> Nat] /\ dropped \in [Ids -> Nat]
    BY SessionAssumption DEF TypeOK
  <2>4. QED
    BY <2>1, <2>2, <2>3 DEF Sound, Numbered
<1>1. PICK n \in [1..Len(inbox) -> Nat] :
        /\ \A k \in 1..Len(inbox) : inbox[k].type = "data" =>
              dropped[inbox[k].id] < n[k] /\ n[k] <= posted[inbox[k].id]
        /\ \A k, l \in 1..Len(inbox) :
              k < l /\ inbox[k].type = "data" /\ inbox[k] = inbox[l] => n[k] < n[l]
  BY DEF Sound, Numbered
<1>a. \A k \in 1..Len(inbox) : n[k] \in Nat
  OBVIOUS
<1>2. ASSUME NEW i \in Ids, ApiOpen(i) \/ ApiClose(i)
      PROVE  Numbered'
  <2>1. PICK t \in {"open", "close"} : Post(t, i)
    BY <1>2 DEF ApiOpen, ApiClose
  <2>2. /\ Len(inbox') = Len(inbox) + 1
        /\ \A k \in 1..Len(inbox) : inbox'[k] = inbox[k]
        /\ inbox'[Len(inbox')] = [type |-> t, id |-> i]
    BY <2>1, Posted
  <2>3. posted' = posted /\ dropped' = dropped
    BY <1>2 DEF ApiOpen, ApiClose, historyVars
  <2> DEFINE m == [k \in 1..Len(inbox') |-> IF k = Len(inbox') THEN 0 ELSE n[k]]
  <2>4. m \in [1..Len(inbox') -> Nat]
    BY <1>0, <2>2
  <2>5. inbox'[Len(inbox')].type # "data"
    BY <2>2
  <2>6. /\ \A k \in 1..Len(inbox') : inbox'[k].type = "data" =>
              k \in 1..Len(inbox) /\ inbox'[k] = inbox[k] /\ m[k] = n[k]
    BY <1>0, <2>2, <2>5
  <2> HIDE DEF m
  <2>7. \A k \in 1..Len(inbox') : inbox'[k].type = "data" =>
              dropped'[inbox'[k].id] < m[k] /\ m[k] <= posted'[inbox'[k].id]
    BY <1>1, <2>3, <2>6
  <2>8. \A k, l \in 1..Len(inbox') :
              k < l /\ inbox'[k].type = "data" /\ inbox'[k] = inbox'[l] => m[k] < m[l]
    BY <1>1, <2>6
  <2>9. QED
    BY <1>0, <2>3, <2>4, <2>7, <2>8 DEF Numbered
<1>3. ASSUME NEW i \in Ids, ApiData(i)
      PROVE  Numbered'
  <2>1. Post("data", i) /\ posted' = [posted EXCEPT ![i] = @ + 1] /\ dropped' = dropped
    BY <1>3 DEF ApiData, historyVars
  <2>2. /\ Len(inbox') = Len(inbox) + 1
        /\ \A k \in 1..Len(inbox) : inbox'[k] = inbox[k]
        /\ inbox'[Len(inbox')] = [type |-> "data", id |-> i]
    BY <2>1, Posted
  <2> DEFINE m == [k \in 1..Len(inbox') |-> IF k = Len(inbox') THEN posted[i] + 1 ELSE n[k]]
  <2>4. m \in [1..Len(inbox') -> Nat]
    BY <1>0, <2>2
  <2>5. /\ m[Len(inbox')] = posted[i] + 1
        /\ \A k \in 1..Len(inbox) : k \in 1..Len(inbox') /\ m[k] = n[k]
    BY <1>0, <2>2
  <2> HIDE DEF m
  <2>6. \A k \in 1..Len(inbox') : k = Len(inbox') \/ k \in 1..Len(inbox)
    BY <1>0, <2>2
  <2>7. \A j \in Ids : posted[j] <= posted'[j] /\ dropped'[j] <= posted'[j]
    BY <1>0, <2>1
  <2>8. ASSUME NEW k \in 1..Len(inbox'), inbox'[k].type = "data"
        PROVE  dropped'[inbox'[k].id] < m[k] /\ m[k] <= posted'[inbox'[k].id]
    <3>1. CASE k \in 1..Len(inbox)
      BY <1>0, <1>1, <1>a, <2>1, <2>2, <2>5, <2>7, <2>8, <3>1
    <3>2. CASE k = Len(inbox')
      <4>1. inbox'[k].id = i /\ m[k] = posted[i] + 1 /\ posted'[i] = posted[i] + 1
        BY <1>0, <2>1, <2>2, <2>5, <3>2
      <4>2. dropped'[i] < posted[i] + 1
        BY <1>0, <2>1
      <4>3. QED
        BY <1>0, <4>1, <4>2
    <3>3. QED
      BY <2>6, <3>1, <3>2
  <2>9. ASSUME NEW k \in 1..Len(inbox'), NEW l \in 1..Len(inbox'),
               k < l, inbox'[k].type = "data", inbox'[k] = inbox'[l]
        PROVE  m[k] < m[l]
    <3>0. k \in 1..Len(inbox)
      BY <1>0, <2>2, <2>6, <2>9
    <3>1. CASE l \in 1..Len(inbox)
      BY <1>1, <2>2, <2>5, <2>9, <3>0, <3>1
    <3>2. CASE l = Len(inbox')
      <4>1. inbox[k].id = i /\ inbox[k].type = "data" /\ m[k] = n[k]
        BY <2>2, <2>5, <2>9, <3>0, <3>2
      <4>2. n[k] <= posted[i] /\ n[k] \in Nat /\ posted[i] \in Nat
        BY <1>0, <1>1, <1>a, <3>0, <4>1
      <4>3. QED
        BY <2>5, <3>2, <4>1, <4>2
    <3>3. QED
      BY <2>6, <3>1, <3>2
  <2>10. QED
    BY <2>4, <2>7, <2>8, <2>9 DEF Numbered
<1>4. ASSUME NEW i \in Ids, ReceiveOpen(i) \/ ReceiveData(i) \/ ReceiveClose(i)
      PROVE  Numbered'
  <2>1. PICK t \in {"open", "data", "close"} : Take(t, i)
    BY <1>4 DEF ReceiveOpen, ReceiveData, ReceiveClose
  <2>2. /\ Len(inbox) > 0 /\ Len(inbox') = Len(inbox) - 1
        /\ \A k \in 1..Len(inbox') : inbox'[k] = inbox[k + 1]
        /\ inbox[1] = [type |-> t, id |-> i]
    BY <2>1, Taken
  <2>3. /\ posted' = posted
        /\ \/ dropped' = dropped
           \/ t = "data" /\ dropped' = [dropped EXCEPT ![i] = @ + 1]

    <3>1. CASE ReceiveData(i)
      <4>1. Head(inbox) = [type |-> "data", id |-> i] /\ Head(inbox) = [type |-> t, id |-> i]
        BY <3>1, <2>1 DEF ReceiveData, Take
      <4>2. t = "data"
        BY <4>1
      <4>3. QED
        BY <3>1, <4>2 DEF ReceiveData
    <3>2. CASE ReceiveOpen(i) \/ ReceiveClose(i)
      BY <3>2 DEF ReceiveOpen, ReceiveClose, historyVars
    <3>3. QED
      BY <1>4, <3>1, <3>2
  <2> DEFINE m == [k \in 1..Len(inbox') |-> n[k + 1]]
  <2>4. \A k \in 1..Len(inbox') : k + 1 \in 1..Len(inbox) /\ k + 1 > 1 /\ m[k] = n[k + 1]
    BY <1>0, <2>2
  <2>5. m \in [1..Len(inbox') -> Nat]
    BY <1>0, <2>4
  <2> HIDE DEF m
  <2>6. \A k \in 1..Len(inbox') : inbox'[k].type = "data" =>
              dropped'[inbox'[k].id] < m[k] /\ m[k] <= posted'[inbox'[k].id]
    <3> SUFFICES ASSUME NEW k \in 1..Len(inbox'), inbox'[k].type = "data"
                 PROVE  dropped'[inbox'[k].id] < m[k] /\ m[k] <= posted'[inbox'[k].id]
      OBVIOUS
    <3> DEFINE j == inbox[k + 1].id
    <3>1. inbox'[k] = inbox[k + 1] /\ k + 1 \in 1..Len(inbox) /\ j \in Ids
      BY <1>0, <2>2, <2>4
    <3>2. dropped[j] < n[k + 1] /\ n[k + 1] <= posted[j]
      BY <1>1, <3>1
    <3>3. CASE dropped' = dropped
      BY <2>3, <2>4, <3>1, <3>2, <3>3
    <3>4. CASE t = "data" /\ j = i /\ dropped' = [dropped EXCEPT ![i] = @ + 1]
      <4>1. inbox[1] = inbox[k + 1] /\ 1 \in 1..Len(inbox) /\ inbox[1].type = "data" /\ inbox[1].id = i
        <5>1. inbox[k + 1] \in Message
          BY <1>0, <3>1
        <5>2. inbox[k + 1] = [type |-> "data", id |-> i]
          BY <5>1, <3>1, <3>4 DEF Message
        <5>3. QED
          BY <5>2, <2>2, <3>4, <1>0
      <4>2. 1 < k + 1
        OBVIOUS
      <4>3. n[1] < n[k + 1] /\ dropped[i] < n[1]
        BY <1>1, <3>1, <4>1, <4>2
      <4>4. dropped'[i] = dropped[i] + 1
        BY <1>0, <3>4
      <4>5. dropped'[i] < n[k + 1]
        <5>1. dropped[i] \in Nat /\ n[1] \in Nat /\ n[k + 1] \in Nat
          BY <1>0, <1>a, <3>1, <4>1
        <5>2. QED
          BY <4>3, <4>4, <5>1
      <4>6. QED
        BY <2>3, <2>4, <3>1, <3>2, <3>4, <4>5
    <3>5. CASE j # i /\ dropped' = [dropped EXCEPT ![i] = @ + 1]
      BY <1>0, <2>3, <2>4, <3>1, <3>2, <3>5
    <3>6. QED
      BY <2>3, <3>3, <3>4, <3>5
  <2>7. ASSUME NEW k \in 1..Len(inbox'), NEW l \in 1..Len(inbox'),
               k < l, inbox'[k].type = "data", inbox'[k] = inbox'[l]
        PROVE  m[k] < m[l]
    <3>1. k + 1 < l + 1 /\ inbox[k + 1].type = "data" /\ inbox[k + 1] = inbox[l + 1]
      BY <2>2, <2>7
    <3>2. QED
      BY <1>1, <2>4, <3>1
  <2>8. ASSUME NEW j \in Ids
        PROVE  dropped'[j] <= posted'[j]
    <3>1. CASE t = "data" /\ j = i /\ dropped' = [dropped EXCEPT ![i] = @ + 1]
      <4>1. dropped[i] < n[1] /\ n[1] <= posted[i] /\ n[1] \in Nat
        <5>1. 1 \in 1..Len(inbox) /\ inbox[1].type = "data" /\ inbox[1].id = i
          BY <1>0, <2>2, <3>1
        <5>2. QED
          BY <1>1, <1>a, <5>1
      <4>2. dropped'[i] = dropped[i] + 1 /\ dropped[i] \in Nat /\ posted[i] \in Nat
        BY <1>0, <3>1
      <4>3. QED
        BY <2>3, <3>1, <4>1, <4>2
    <3>2. CASE dropped' = dropped \/ j # i
      BY <1>0, <2>3, <3>2
    <3>3. QED
      BY <2>3, <3>1, <3>2
  <2>9. QED
    BY <2>5, <2>6, <2>7, <2>8 DEF Numbered
<1>5. CASE Inner \/ UNCHANGED vars
  BY <1>0, <1>1, <1>5, InnerKeeps DEF Numbered, vars, connVars, historyVars
<1>6. QED
  BY <1>2, <1>3, <1>4, <1>5, StepCases

\* What the API knows of a stream, where the stream is connected and whether
\* the clean-up saw it: each action keeps them in step.
LEMMA StreamsKept ==
    ASSUME TypeOK, Sound, [Next]_vars, NEW j \in Ids
    PROVE  Asked(j)' /\ Connected(j)' /\ Left(j)'
<1>0. Asked(j) /\ Connected(j) /\ Left(j)
  BY DEF Sound
<1>1. /\ api \in [Ids -> {"unused", "asked", "ready", "closing", "ended"}]
      /\ opener \in [Ids -> {"none", "open", "register", "announce", "pump", "forget", "end"}]
      /\ socket \in [Ids -> {"none", "open", "closed"}]
  BY DEF TypeOK
<1>a. ASSUME inbox' = inbox
      PROVE  \A t \in {"open", "data", "close"} : Waiting(t, j)' <=> Waiting(t, j)
  BY <1>a DEF Waiting
<1>2. ASSUME NEW i \in Ids, ApiOpen(i) \/ ApiData(i) \/ ApiClose(i)
      PROVE  Asked(j)' /\ Connected(j)' /\ Left(j)'
  <2>1. Connected(j)' /\ Left(j)'
    BY <1>0, <1>2 DEF ApiOpen, ApiData, ApiClose, Connected, Left, streamVars, loopVars, historyVars
  <2>2. Asked(j)'
    <3>1. CASE ApiOpen(i)
      <4>0. Post("open", i)
        BY <3>1 DEF ApiOpen
      <4>1. /\ Waiting("open", j)' <=> Waiting("open", j) \/ j = i
            /\ Waiting("data", j)' <=> Waiting("data", j)
            /\ Waiting("close", j)' <=> Waiting("close", j)
        BY <4>0, Posted, Zenon
      <4>2. /\ opener' = opener /\ socket' = socket
            /\ j = i => api[j] = "unused" /\ api'[j] = "asked"
            /\ j # i => api'[j] = api[j]
        BY <1>1, <3>1 DEF ApiOpen, streamVars
      <4>3. CASE j = i
        BY <1>0, <4>1, <4>2, <4>3, Zenon DEF Asked, Connected
      <4>4. CASE j # i
        BY <1>0, <4>1, <4>2, <4>4, Zenon DEF Asked
      <4>5. QED
        BY <4>3, <4>4
    <3>2. CASE ApiData(i)
      <4>0. Post("data", i)
        BY <3>2 DEF ApiData
      <4>1. /\ Waiting("open", j)' <=> Waiting("open", j)
            /\ Waiting("data", j)' <=> Waiting("data", j) \/ j = i
            /\ Waiting("close", j)' <=> Waiting("close", j)
        BY <4>0, Posted, Zenon
      <4>2. /\ opener' = opener /\ socket' = socket /\ api' = api
            /\ j = i => api[j] = "ready"
        BY <3>2 DEF ApiData, streamVars
      <4>3. CASE j = i
        BY <1>0, <4>1, <4>2, <4>3, Zenon DEF Asked
      <4>4. CASE j # i
        BY <1>0, <4>1, <4>2, <4>4, Zenon DEF Asked
      <4>5. QED
        BY <4>3, <4>4
    <3>3. CASE ApiClose(i)
      <4>0. Post("close", i)
        BY <3>3 DEF ApiClose
      <4>1. /\ Waiting("open", j)' <=> Waiting("open", j)
            /\ Waiting("data", j)' <=> Waiting("data", j)
            /\ Waiting("close", j)' <=> Waiting("close", j) \/ j = i
        BY <4>0, Posted, Zenon
      <4>2. /\ opener' = opener /\ socket' = socket
            /\ j = i => api[j] = "ready" /\ api'[j] = "closing"
            /\ j # i => api'[j] = api[j]
        BY <1>1, <3>3 DEF ApiClose, streamVars
      <4>3. CASE j = i
        BY <1>0, <4>1, <4>2, <4>3, Zenon DEF Asked
      <4>4. CASE j # i
        BY <1>0, <4>1, <4>2, <4>4, Zenon DEF Asked
      <4>5. QED
        BY <4>3, <4>4
    <3>4. QED
      BY <1>2, <3>1, <3>2, <3>3
  <2>3. QED
    BY <2>1, <2>2
<1>3. ASSUME NEW i \in Ids, ReceiveOpen(i)
      PROVE  Asked(j)' /\ Connected(j)' /\ Left(j)'
  <2>1. /\ Waiting("open", i) /\ ~ Waiting("open", i)'
        /\ \A t \in {"open", "data", "close"} : Waiting(t, j)' => Waiting(t, j)
        /\ loop # "over"
    BY <1>3, Taken, OpenTaken DEF ReceiveOpen, Sound, Take
  <2>2. /\ opener' = [opener EXCEPT ![i] = "open"]
        /\ UNCHANGED <<api, loopVars, streams, socket>>
    BY <1>3 DEF ReceiveOpen
  <2>3. opener[i] = "none" /\ api[i] # "unused"
    BY <2>1 DEF Sound, Asked
  <2>4. QED
    BY <1>0, <1>1, <2>1, <2>2, <2>3 DEF Asked, Connected, Left, loopVars
<1>4. ASSUME NEW i \in Ids, ReceiveData(i)
      PROVE  Asked(j)' /\ Connected(j)' /\ Left(j)'
  <2>1. /\ \A t \in {"open", "data", "close"} : Waiting(t, j)' => Waiting(t, j)
        /\ loop # "over"
    BY <1>4, Taken DEF ReceiveData, Take
  <2>2. UNCHANGED <<api, streamVars, late>> /\ loop' # "over"
    BY <1>4, <2>1 DEF ReceiveData, loopVars
  <2>3. QED
    BY <1>0, <2>1, <2>2 DEF Asked, Connected, Left, streamVars
<1>5. ASSUME NEW i \in Ids, ReceiveClose(i)
      PROVE  Asked(j)' /\ Connected(j)' /\ Left(j)'
  <2>1. /\ Waiting("close", i)
        /\ \A t \in {"open", "data", "close"} : Waiting(t, j)' => Waiting(t, j)
        /\ loop # "over"
    BY <1>5, Taken DEF ReceiveClose, Take
  <2>2. /\ streams' = streams \ {i}
        /\ socket' = [socket EXCEPT ![i] = IF i \in streams THEN "closed" ELSE @]
        /\ UNCHANGED <<api, opener, loopVars>>
    BY <1>5 DEF ReceiveClose
  <2>3. socket[i] # "none"
    BY <2>1 DEF Sound, Asked
  <2>4. QED
    BY <1>0, <1>1, <2>1, <2>2, <2>3 DEF Asked, Connected, Left, loopVars
<1>6. CASE ReadFails
  <2>1. /\ inbox' = inbox
        /\ socket' = [i \in Ids |-> IF i \in streams THEN "closed" ELSE socket[i]]
        /\ late' = {i \in Ids : opener[i] \in {"open", "register"}}
        /\ UNCHANGED <<api, streams, opener>>
    BY <1>6 DEF ReadFails, connVars
  <2>2. Asked(j)' /\ Connected(j)'
    BY <1>0, <1>1, <1>a, <2>1 DEF Asked, Connected
  <2>3. Left(j)'
    BY <1>0, <1>1, <2>1 DEF Left, Connected
  <2>4. QED
    BY <2>2, <2>3
<1>7. ASSUME NEW i \in Ids, OpenStream(i)
      PROVE  Asked(j)' /\ Connected(j)' /\ Left(j)'
  <2>1. /\ inbox' = inbox /\ opener[i] = "open" /\ api[i] \in {"unused", "asked"}
        /\ UNCHANGED <<streams, loopVars, historyVars>>
    BY <1>7 DEF OpenStream, Sound, Asked
  <2>2. CASE /\ socket' = [socket EXCEPT ![i] = "open"]
             /\ opener' = [opener EXCEPT ![i] = "register"]
             /\ UNCHANGED api
    BY <1>0, <1>1, <1>a, <2>1, <2>2 DEF Asked, Connected, Left, loopVars, historyVars
  <2>3. CASE /\ Tell(i, {"asked", "closing"}, "ended")
             /\ opener' = [opener EXCEPT ![i] = "end"]
             /\ UNCHANGED socket
    BY <1>0, <1>1, <1>a, <2>1, <2>3 DEF Tell, Asked, Connected, Left, loopVars, historyVars
  <2>4. QED
    BY <1>7, <2>2, <2>3 DEF OpenStream
<1>8. ASSUME NEW i \in Ids, Register(i)
      PROVE  Asked(j)' /\ Connected(j)' /\ Left(j)'
  BY <1>0, <1>1, <1>8, <1>a DEF Register, Asked, Connected, Left, connVars, loopVars, historyVars
<1>9. ASSUME NEW i \in Ids, Announce(i)
      PROVE  Asked(j)' /\ Connected(j)' /\ Left(j)'
  BY <1>0, <1>1, <1>9, <1>a DEF Announce, Tell, Asked, Connected, Left, loopVars, historyVars
<1>10. ASSUME NEW i \in Ids, PumpEnds(i)
       PROVE  Asked(j)' /\ Connected(j)' /\ Left(j)'
  BY <1>0, <1>1, <1>10, <1>a DEF PumpEnds, Tell, Asked, Connected, Left, loopVars, historyVars
<1>11. ASSUME NEW i \in Ids, Forget(i)
       PROVE  Asked(j)' /\ Connected(j)' /\ Left(j)'
  BY <1>0, <1>1, <1>11, <1>a DEF Forget, Asked, Connected, Left, connVars, loopVars, historyVars
<1>12. CASE \/ \E i \in Ids : DockerEnds(i) \/ DockerStalls(i) \/ DockerResumes(i)
            \/ WriteReturns \/ ApiSilent \/ HeartbeatTimeout \/ Disconnect \/ UNCHANGED vars
  <2>1. UNCHANGED <<inbox, api, streams, opener, socket, late>> /\ (loop' = "over" => loop = "over")
    BY <1>12 DEF DockerEnds, DockerStalls, DockerResumes, WriteReturns, ApiSilent, HeartbeatTimeout,
       Disconnect, vars, connVars, loopVars, streamVars, historyVars
  <2>2. QED
    BY <1>0, <1>a, <2>1 DEF Asked, Connected, Left
<1>13. QED
  BY <1>2, <1>3, <1>4, <1>5, <1>6, <1>7, <1>8, <1>9, <1>10, <1>11, <1>12, StepCases DEF Inner, Stream

\* The invariant is kept.
LEMMA SoundKept ==
    ASSUME TypeOK, Sound, [Next]_vars
    PROVE  Sound'
BY OpenedOnceKept, NumberedKept, StreamsKept DEF Sound

\* What is dropped is bounded by what is sent; the rest of the types is clear.
LEMMA TypeKept ==
    ASSUME TypeOK, Sound, [Next]_vars
    PROVE  TypeOK'
<1> USE SessionAssumption
<1>1. inbox' \in Seq(Message) /\ Len(inbox') <= MaxInbox
  <2>1. ASSUME NEW i \in Ids, ApiOpen(i) \/ ApiData(i) \/ ApiClose(i)
        PROVE  inbox' \in Seq(Message) /\ Len(inbox') <= MaxInbox
    BY <2>1, Posted DEF ApiOpen, ApiData, ApiClose
  <2>2. ASSUME NEW i \in Ids, ReceiveOpen(i) \/ ReceiveData(i) \/ ReceiveClose(i)
        PROVE  inbox' \in Seq(Message) /\ Len(inbox') <= MaxInbox
    BY <2>2, Taken DEF ReceiveOpen, ReceiveData, ReceiveClose
  <2>3. CASE Inner \/ UNCHANGED vars
    BY <2>3, InnerKeeps DEF TypeOK, vars, connVars
  <2>4. QED
    BY <2>1, <2>2, <2>3, StepCases
<1>2. posted' \in [Ids -> 0..MaxData] /\ dropped' \in [Ids -> Nat]
  <2>1. posted' = posted \/ \E i \in Ids : posted[i] < MaxData /\ posted' = [posted EXCEPT ![i] = @ + 1]
    BY StepCases, InnerKeeps DEF ApiOpen, ApiData, ApiClose, ReceiveOpen, ReceiveData, ReceiveClose,
       vars, connVars
  <2>2. dropped' = dropped \/ \E i \in Ids : dropped' = [dropped EXCEPT ![i] = @ + 1]
    BY StepCases, InnerKeeps DEF ApiOpen, ApiData, ApiClose, ReceiveOpen, ReceiveData, ReceiveClose,
       vars, historyVars
  <2>3. posted \in [Ids -> 0..MaxData] /\ dropped \in [Ids -> 0..MaxData] /\ MaxData \in Nat
    BY DEF TypeOK
  <2>4. posted' \in [Ids -> 0..MaxData]
    BY <2>1, <2>3
  <2>5. dropped' \in [Ids -> Nat]
    BY <2>2, <2>3
  <2>6. QED
    BY <2>4, <2>5
<1>3. dropped' \in [Ids -> 0..MaxData]
  <2>1. \A i \in Ids : dropped'[i] <= posted'[i]
    BY NumberedKept DEF Numbered
  <2>2. QED
    BY <1>2, <2>1
<1>4. /\ conn' \in {"open", "closed"} /\ silent' \in BOOLEAN
      /\ loop' \in {"read", "write", "over"} /\ writing' \in Ids \union {None}
      /\ late' \in SUBSET Ids
  <2>1. conn' \in {"open", "closed"} /\ silent' \in BOOLEAN
    BY DEF Next, Loop, Receive, Stream, ReceiveOpen, ReceiveData, ReceiveClose, WriteReturns,
       ReadFails, OpenStream, Register, Announce, PumpEnds, Forget, ApiOpen, ApiData, ApiClose,
       DockerEnds, DockerStalls, DockerResumes, ApiSilent, HeartbeatTimeout, Disconnect, TypeOK,
       vars, connVars, loopVars, historyVars
  <2>2. loop' \in {"read", "write", "over"}
    BY DEF Next, Loop, Receive, Stream, ReceiveOpen, ReceiveData, ReceiveClose, WriteReturns,
       ReadFails, OpenStream, Register, Announce, PumpEnds, Forget, ApiOpen, ApiData, ApiClose,
       DockerEnds, DockerStalls, DockerResumes, ApiSilent, HeartbeatTimeout, Disconnect, TypeOK,
       vars, connVars, loopVars, historyVars
  <2>3. writing' \in Ids \union {None}
    BY DEF Next, Loop, Receive, Stream, ReceiveOpen, ReceiveData, ReceiveClose, WriteReturns,
       ReadFails, OpenStream, Register, Announce, PumpEnds, Forget, ApiOpen, ApiData, ApiClose,
       DockerEnds, DockerStalls, DockerResumes, ApiSilent, HeartbeatTimeout, Disconnect, TypeOK,
       vars, connVars, loopVars, historyVars
  <2>4. late' \in SUBSET Ids
    BY DEF Next, Loop, Receive, Stream, ReceiveOpen, ReceiveData, ReceiveClose, WriteReturns,
       ReadFails, OpenStream, Register, Announce, PumpEnds, Forget, ApiOpen, ApiData, ApiClose,
       DockerEnds, DockerStalls, DockerResumes, ApiSilent, HeartbeatTimeout, Disconnect, TypeOK,
       vars, connVars, loopVars, historyVars
  <2>5. QED
    BY <2>1, <2>2, <2>3, <2>4
<1>5. api' \in [Ids -> {"unused", "asked", "ready", "closing", "ended"}]
  <2> DEFINE Known == {"unused", "asked", "ready", "closing", "ended"}
  <2>1. \/ api' = api
        \/ \E i \in Ids, k \in Known : api' = [api EXCEPT ![i] = k]
        \/ \E i \in Ids : OpenStream(i) \/ Announce(i) \/ PumpEnds(i)
    BY DEF Next, Loop, Receive, Stream, ReceiveOpen, ReceiveData, ReceiveClose, WriteReturns,
       ReadFails, Register, Forget, ApiOpen, ApiData, ApiClose, DockerEnds, DockerStalls,
       DockerResumes, ApiSilent, HeartbeatTimeout, Disconnect, vars, connVars
  <2>2. ASSUME NEW i \in Ids, OpenStream(i) \/ Announce(i) \/ PumpEnds(i)
        PROVE  api' = api \/ \E k \in Known : api' = [api EXCEPT ![i] = k]
    BY <2>2 DEF OpenStream, Announce, PumpEnds, Tell
  <2>3. api \in [Ids -> Known]
    BY DEF TypeOK
  <2>4. api' = api \/ \E i \in Ids, k \in Known : api' = [api EXCEPT ![i] = k]
    BY <2>1, <2>2
  <2> HIDE DEF Known
  <2>5. api' \in [Ids -> Known]
    BY <2>3, <2>4
  <2>6. QED
    BY <2>5 DEF Known
<1>6. /\ streams' \in SUBSET Ids
      /\ opener' \in [Ids -> {"none", "open", "register", "announce", "pump", "forget", "end"}]
  <2> DEFINE Stage == {"none", "open", "register", "announce", "pump", "forget", "end"}
  <2>1. \/ UNCHANGED <<streams, opener>>
        \/ \E i \in Ids : ReceiveOpen(i) \/ ReceiveClose(i) \/ OpenStream(i) \/ Stream(i)
    BY DEF Next, Loop, Receive, ReceiveData, WriteReturns, ReadFails, ApiOpen,
       ApiData, ApiClose, DockerEnds, DockerStalls, DockerResumes, ApiSilent, HeartbeatTimeout,
       Disconnect, vars, streamVars
  <2>2. ASSUME NEW i \in Ids, ReceiveOpen(i) \/ ReceiveClose(i) \/ OpenStream(i) \/ Stream(i)
        PROVE  /\ streams' \in {streams, streams \union {i}, streams \ {i}}
               /\ opener' = opener \/ \E o \in Stage : opener' = [opener EXCEPT ![i] = o]
    BY <2>2 DEF ReceiveOpen, ReceiveClose, OpenStream, Stream, Register, Announce, PumpEnds, Forget,
       streamVars
  <2>3. streams \in SUBSET Ids /\ opener \in [Ids -> Stage]
    BY DEF TypeOK
  <2> HIDE DEF Stage
  <2>4. streams' \in SUBSET Ids
    BY <2>1, <2>2, <2>3
  <2>5. opener' \in [Ids -> Stage]
    BY <2>1, <2>2, <2>3
  <2>6. QED
    BY <2>4, <2>5 DEF Stage
<1>7. socket' \in [Ids -> {"none", "open", "closed"}]
  <2> DEFINE State == {"none", "open", "closed"}
  <2>1. \/ UNCHANGED socket
        \/ \E i \in Ids : ReceiveClose(i) \/ OpenStream(i) \/ PumpEnds(i)
        \/ ReadFails
    BY DEF Next, Loop, Receive, Stream, ReceiveOpen, ReceiveData, WriteReturns, Register,
       Announce, Forget, ApiOpen, ApiData, ApiClose, DockerEnds, DockerStalls, DockerResumes,
       ApiSilent, HeartbeatTimeout, Disconnect, vars, streamVars
  <2>2. socket \in [Ids -> State]
    BY DEF TypeOK
  <2>3. ASSUME NEW i \in Ids, ReceiveClose(i) \/ OpenStream(i) \/ PumpEnds(i)
        PROVE  socket' \in [Ids -> State]
    BY <2>2, <2>3 DEF ReceiveClose, OpenStream, PumpEnds
  <2>4. CASE ReadFails
    BY <2>2, <2>4 DEF ReadFails
  <2>5. QED
    BY <2>1, <2>2, <2>3, <2>4
<1>8. docker' \in [Ids -> {"none", "reading", "stalled", "gone"}]
  <2>1. docker' = docker \/ \E i \in Ids : OpenStream(i) \/ DockerEnds(i) \/ DockerStalls(i) \/ DockerResumes(i)
    BY DEF Next, Loop, Receive, Stream, ReceiveOpen, ReceiveData, ReceiveClose, WriteReturns,
       ReadFails, Register, Announce, PumpEnds, Forget, ApiOpen, ApiData, ApiClose, ApiSilent,
       HeartbeatTimeout, Disconnect, vars, streamVars
  <2>2. docker' = docker \/ \E i \in Ids, d \in {"reading", "stalled", "gone"} : docker' = [docker EXCEPT ![i] = d]
    BY <2>1 DEF OpenStream, DockerEnds, DockerStalls, DockerResumes
  <2>3. docker \in [Ids -> {"none", "reading", "stalled", "gone"}]
    BY DEF TypeOK
  <2>4. QED
    BY <2>2, <2>3
<1>9. QED
  BY <1>1, <1>2, <1>3, <1>4, <1>5, <1>6, <1>7, <1>8 DEF TypeOK

\* A session starts sound.
LEMMA InitSound == Init => TypeOK /\ Sound
<1> SUFFICES ASSUME Init PROVE TypeOK /\ Sound
  OBVIOUS
<1>1. inbox = <<>> /\ Len(inbox) = 0
  BY DEF Init
<1>2. TypeOK
  <2>1. 0 \in 0..MaxData /\ inbox \in Seq(Message) /\ Len(inbox) <= MaxInbox
    BY <1>1, SessionAssumption
  <2>2. QED
    BY <2>1 DEF Init, TypeOK
<1>3. \A k \in 1..Len(inbox) : FALSE
  BY <1>1
<1>4. Numbered
  <2>1. [k \in 1..Len(inbox) |-> 0] \in [1..Len(inbox) -> Nat]
    OBVIOUS
  <2>2. \A i \in Ids : dropped[i] <= posted[i]
    <3>1. \A i \in Ids : dropped[i] = 0 /\ posted[i] = 0
      BY DEF Init
    <3>2. 0 <= 0
      OBVIOUS
    <3>3. QED
      BY <3>1, <3>2
  <2>3. \E n \in [1..Len(inbox) -> Nat] : TRUE
    BY <2>1
  <2>4. QED
    BY <1>3, <2>2, <2>3, Zenon DEF Numbered
<1>5. OpenedOnce /\ \A i \in Ids : Asked(i) /\ Connected(i) /\ Left(i)
  BY <1>1 DEF OpenedOnce, Asked, Connected, Left, Waiting, Init
<1>6. QED
  BY <1>2, <1>4, <1>5 DEF Sound

-----------------------------------------------------------------------------
(* The theorems.                                                           *)

\* Type correctness of a session and soundness of its streams, for every set of
\* streams and every number of messages.
THEOREM SessionSound == Spec => [](TypeOK /\ Sound)
<1>1. TypeOK /\ Sound /\ [Next]_vars => (TypeOK /\ Sound)'
  BY TypeKept, SoundKept
<1>2. QED
  BY <1>1, InitSound, PTL DEF Spec

\* Every variable keeps its type; in particular no more data is dropped than
\* was sent.
THEOREM SessionTypeCorrect == Spec => []TypeOK
BY SessionSound, PTL

\* A stream that runs and is open is in the map streams, whatever the order of
\* the goroutines, the API's messages and the clean-up.
THEOREM StreamFound == Spec => []OpenStreamIsFound
<1>1. Sound => OpenStreamIsFound
  BY DEF Sound, Connected, OpenStreamIsFound
<1>2. QED
  BY <1>1, SessionSound, PTL

\* The deferred function of connectOnce leaves open only the streams whose
\* goroutine had not yet put them in the map.
THEOREM CleanedUp == Spec => []CleanupComplete
<1>1. Sound => CleanupComplete
  BY DEF Sound, Left, CleanupComplete
<1>2. QED
  BY <1>1, SessionSound, PTL

\* stream_data is dropped by no step of a session, unless its stream is closed.
THEOREM NothingLost == Spec => ReadyStreamLosesNothing
<1> DEFINE Lossless == \A i \in Ids : dropped'[i] # dropped[i] => socket[i] = "closed"
<1>1. TypeOK /\ Sound /\ [Next]_vars => [Lossless]_vars
  <2> SUFFICES ASSUME TypeOK, Sound, [Next]_vars, NEW i \in Ids, dropped'[i] # dropped[i]
               PROVE  socket[i] = "closed"
    OBVIOUS
  <2>1. PICK j \in Ids : ReceiveData(j) /\ j \notin streams /\ dropped' = [dropped EXCEPT ![j] = @ + 1]
    BY StepCases, InnerKeeps DEF ApiOpen, ApiData, ApiClose, ReceiveOpen, ReceiveData, ReceiveClose,
       vars, historyVars
  <2>2. j = i
    BY <2>1 DEF TypeOK
  <2>3. Waiting("data", i)
    BY <2>1, <2>2, Taken DEF ReceiveData
  <2>4. opener[i] \in {"pump", "forget", "end"} /\ socket[i] # "none"
    BY <2>3 DEF Sound, Asked, TypeOK
  <2>5. socket[i] # "open"
    BY <2>1, <2>2, <2>4 DEF Sound, Connected
  <2>6. QED
    BY <2>4, <2>5 DEF TypeOK
<1>2. QED
  BY <1>1, SessionSound, PTL DEF Spec, ReadyStreamLosesNothing

-----------------------------------------------------------------------------
(* The requests (AgentRequests), for every number of requests and of       *)
(* connections to Docker.                                                  *)

\* A request has nothing but its own answer, or an error, and from its result on
\* it has one; the connections to Docker are held by those that ask, each its own.
Holders == {r \in RequestIds : handler[r] = "ask"} \union {p \in {Pulse} : pulse = "ask"}

RequestsSound ==
    /\ handler \in [RequestIds -> {"none", "sent", "queue", "ask", "answer", "end"}]
    /\ result \in [RequestIds -> RequestIds \union {NoAnswer, Failure}]
    /\ reply \in [RequestIds -> RequestIds \union {NoAnswer, Failure}]
    /\ pulse \in {"wait", "queue", "ask", "over"}
    /\ \A r \in RequestIds : handler[r] = "answer" => result[r] \in {r, Failure}
    /\ pool = Holders

\* Before the first request.
LEMMA RequestsStart == RequestsInit => RequestsSound
<1> SUFFICES ASSUME RequestsInit PROVE RequestsSound
  OBVIOUS
<1>1. pool = Holders
  BY DEF RequestsInit, Holders
<1> QED
  BY <1>1 DEF RequestsInit, RequestsSound

\* A step of the goroutine of one request.
LEMMA HandlerStep ==
    ASSUME RequestsSound, NEW r \in RequestIds, NEW p,
           p \in {"none", "sent", "queue", "ask", "answer", "end"}, Goes(r, p),
           UNCHANGED pulse,
           pool' = IF p = "ask" THEN pool \union {r} ELSE pool \ {r},
           \/ UNCHANGED result /\ p # "answer"
           \/ \E a \in {r, Failure} : result' = [result EXCEPT ![r] = a],
           \/ UNCHANGED reply
           \/ handler[r] = "answer" /\ reply' = [reply EXCEPT ![r] = result[r]]
    PROVE  RequestsSound'
<1>1. handler' = [handler EXCEPT ![r] = p]
  BY DEF Goes
<1>2. handler' \in [RequestIds -> {"none", "sent", "queue", "ask", "answer", "end"}]
  BY <1>1 DEF RequestsSound
<1>3. result' \in [RequestIds -> RequestIds \union {NoAnswer, Failure}]
  BY DEF RequestsSound
<1>4. reply' \in [RequestIds -> RequestIds \union {NoAnswer, Failure}]
  BY DEF RequestsSound
<1>5. ASSUME NEW s \in RequestIds, handler'[s] = "answer" PROVE result'[s] \in {s, Failure}
  <2>1. CASE s = r
    BY <1>1, <1>5, <2>1 DEF RequestsSound
  <2>2. CASE s # r
    BY <1>1, <1>5, <2>2 DEF RequestsSound
  <2> QED
    BY <2>1, <2>2
<1>6. pool' = Holders'
  <2>1. r # Pulse
    BY RequestsAssumption DEF Pulse
  <2>2. \A s \in RequestIds : handler'[s] = IF s = r THEN p ELSE handler[s]
    BY <1>1 DEF RequestsSound
  <2> QED
    BY <2>1, <2>2 DEF RequestsSound, Holders
<1> QED
  BY <1>2, <1>3, <1>4, <1>5, <1>6 DEF RequestsSound

\* A step of the health check.
LEMMA PulseStep ==
    ASSUME RequestsSound, UNCHANGED <<handler, result, reply>>, pulse' \in {"wait", "queue", "ask", "over"},
           pool' = IF pulse' = "ask" THEN pool \union {Pulse} ELSE pool \ {Pulse}
    PROVE  RequestsSound'
<1>1. pool' = Holders'
  BY RequestsAssumption DEF RequestsSound, Holders, Pulse
<1> QED
  BY <1>1 DEF RequestsSound

\* Who waits holds nothing.
LEMMA NotHeld ==
    ASSUME RequestsSound
    PROVE  /\ \A r \in RequestIds : handler[r] # "ask" => r \notin pool
           /\ pulse # "ask" => Pulse \notin pool
BY RequestsAssumption DEF RequestsSound, Holders, Pulse

\* No step breaks it.
LEMMA RequestsStep == RequestsSound /\ [RequestsNext]_requestVars => RequestsSound'
<1> SUFFICES ASSUME RequestsSound, [RequestsNext]_requestVars PROVE RequestsSound'
  OBVIOUS
<1> USE DEF Goes, Has
<1>1. ASSUME NEW r \in RequestIds, ApiSends(r) PROVE RequestsSound'
  <2>1. pool' = pool \ {r} /\ UNCHANGED <<result, reply, pulse>>
    BY <1>1, NotHeld DEF ApiSends
  <2> QED
    BY <1>1, <2>1, HandlerStep DEF ApiSends
<1>2. ASSUME NEW r \in RequestIds, Accept(r) PROVE RequestsSound'
  <2>1. pool' = pool \ {r} /\ UNCHANGED <<reply, pulse>>
    BY <1>2, NotHeld DEF Accept
  <2>2. CASE Goes(r, "queue") /\ UNCHANGED result
    BY <2>1, <2>2, HandlerStep
  <2>3. CASE Has(r, Failure)
    BY <2>1, <2>3, HandlerStep
  <2> QED
    BY <1>2, <2>2, <2>3 DEF Accept
<1>3. ASSUME NEW r \in RequestIds, Connects(r) PROVE RequestsSound'
  BY <1>3, HandlerStep DEF Connects
<1>4. ASSUME NEW r \in RequestIds, DockerAnswers(r) PROVE RequestsSound'
  <2>1. PICK a \in {r, Failure} : Has(r, a)
    BY <1>4 DEF DockerAnswers
  <2> QED
    BY <1>4, <2>1, HandlerStep DEF DockerAnswers
<1>5. ASSUME NEW r \in RequestIds, TimesOut(r) PROVE RequestsSound'
  BY <1>5, HandlerStep DEF TimesOut
<1>6. ASSUME NEW r \in RequestIds, Respond(r) PROVE RequestsSound'
  <2>1. pool' = pool \ {r} /\ UNCHANGED <<result, pulse>> /\ Goes(r, "end") /\ handler[r] = "answer"
    BY <1>6, NotHeld DEF Respond
  <2>2. UNCHANGED reply \/ reply' = [reply EXCEPT ![r] = result[r]]
    BY <1>6 DEF Respond
  <2> QED
    BY <2>1, <2>2, HandlerStep
<1>7. CASE HealthCheck
  <2>1. CASE PulseStarts
    BY <2>1, NotHeld, PulseStep DEF PulseStarts, Pulses
  <2>2. CASE PulseConnects
    BY <2>2, PulseStep DEF PulseConnects, Pulses
  <2>3. CASE PulseAnswered
    BY <2>3, PulseStep DEF PulseAnswered, Pulses
  <2>4. CASE PulseFails
    BY <2>4, PulseStep DEF PulseFails, Pulses
  <2> QED
    BY <1>7, <2>1, <2>2, <2>3, <2>4 DEF HealthCheck
<1>8. CASE HeartbeatFails \/ LinkLost \/ DaemonHangs \/ DaemonRecovers \/ UNCHANGED requestVars
  <2>1. UNCHANGED <<handler, result, reply, pulse, pool>>
    BY <1>8 DEF HeartbeatFails, LinkLost, DaemonHangs, DaemonRecovers, requestVars
  <2> QED
    BY <2>1 DEF RequestsSound, Holders
<1> QED
  BY <1>1, <1>2, <1>3, <1>4, <1>5, <1>6, <1>7, <1>8 DEF RequestsNext, Handle

\* What a step of a goroutine may change of the replies.
ReplyIsOwn == \A r \in RequestIds : reply'[r] # reply[r] => reply'[r] \in {r, Failure}

\* What the health check may end.
EndIsMeant ==
    pulse' = "over" /\ pulse # "over" /\ daemon = "up" =>
        Cardinality({r \in RequestIds : handler[r] = "ask"}) >= PoolSize

\* Only the goroutine that has the result of a request replies under its ID.
LEMMA RepliesStep == RequestsSound /\ [RequestsNext]_requestVars => [ReplyIsOwn]_requestVars
<1> SUFFICES ASSUME RequestsSound, RequestsNext, NEW s \in RequestIds, reply'[s] # reply[s]
             PROVE  reply'[s] \in {s, Failure}
  BY DEF ReplyIsOwn
<1>1. PICK r \in RequestIds : Respond(r)
  BY DEF RequestsNext, Handle, ApiSends, Accept, Connects, TimesOut, DockerAnswers, HealthCheck, PulseStarts,
         PulseConnects, PulseAnswered, PulseFails, HeartbeatFails, LinkLost, DaemonHangs, DaemonRecovers
<1>2. handler[r] = "answer" /\ reply' = [reply EXCEPT ![r] = result[r]]
  BY <1>1 DEF Respond
<1>3. s = r /\ reply'[s] = result[r]
  BY <1>2 DEF RequestsSound
<1> QED
  BY <1>2, <1>3 DEF RequestsSound

\* The health check of a Docker that is well fails only in the queue.
LEMMA PulsesStep == RequestsSound /\ [RequestsNext]_requestVars => [EndIsMeant]_requestVars
<1> SUFFICES ASSUME RequestsSound, RequestsNext, pulse' = "over", pulse # "over", daemon = "up"
             PROVE  Cardinality({r \in RequestIds : handler[r] = "ask"}) >= PoolSize
  BY DEF EndIsMeant
<1>1. PulseFails
  BY DEF RequestsNext, Handle, ApiSends, Accept, Connects, TimesOut, DockerAnswers, Respond, HealthCheck,
         PulseStarts, PulseConnects, PulseAnswered, Pulses, HeartbeatFails, LinkLost, DaemonHangs, DaemonRecovers
<1>2. pulse = "queue" /\ Full
  BY <1>1 DEF PulseFails, Pulses
<1>3. pool = {r \in RequestIds : handler[r] = "ask"}
  BY <1>2 DEF RequestsSound, Holders
<1> QED
  BY <1>2, <1>3 DEF Full

-----------------------------------------------------------------------------
(* The agent as a whole (GalaxyAgent): streams and requests side by side.    *)

\* Each side begins as it does alone.
LEMMA SidesStart == AgentInit => Init /\ FleetInit /\ RequestsInit
BY DEF AgentInit

\* Each side makes its own steps.
LEMMA SidesStep ==
    [AgentNext]_agentVars => [Next]_vars /\ [FleetNext]_fleetVars /\ [RequestsNext]_requestVars
BY DEF AgentNext, agentVars

\* So every behaviour of the agent is one of the session, of the fleet and of the
\* requests: what is proved of these holds of the agent.
THEOREM AgentHasItsSides ==
    AgentSpec => Spec /\ FleetSpec /\ RequestsInit /\ [][RequestsNext]_requestVars
BY SidesStart, SidesStep, PTL DEF AgentSpec, Spec, FleetSpec

\* OwnReplies and HealthyIsKept: the API gets no answer under the ID of another
\* request, and requests that are over hold no connection that the health check
\* waits for.
THEOREM RequestsAnswered == AgentSpec => OwnReplies /\ HealthyIsKept
<1>1. AgentSpec => []RequestsSound /\ [][RequestsNext]_requestVars
  BY AgentHasItsSides, RequestsStart, RequestsStep, PTL
<1> QED
  BY <1>1, RepliesStep, PulsesStep, PTL DEF OwnReplies, HealthyIsKept, ReplyIsOwn, EndIsMeant

\* The streams of an agent: OpenStreamIsFound, CleanupComplete and
\* ReadyStreamLosesNothing, beside its fleet and its requests.
THEOREM AgentKeepsItsStreams ==
    AgentSpec => [](OpenStreamIsFound /\ CleanupComplete) /\ ReadyStreamLosesNothing
BY AgentHasItsSides, StreamFound, CleanedUp, NothingLost, PTL

=============================================================================
