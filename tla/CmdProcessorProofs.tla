-------------------------- MODULE CmdProcessorProofs --------------------------
(***************************************************************************)
(* Proofs about CmdProcessor, for every set of clients, every number of    *)
(* commands and every set of outcomes: the inductive invariant IInv, the   *)
(* safety properties that follow from it, and that CmdProcessor implements *)
(* ActiveObject.                                                           *)
(***************************************************************************)
EXTENDS CmdProcessor, SequenceTheorems, TLAPS

-------------------------------------------------------------------------------
(* Facts about the range of a sequence.                                    *)

(* What a sequence holds after an element was put at its back.             *)
LEMMA AppendFacts ==
  ASSUME NEW S, NEW s \in Seq(S), NEW e \in S
  PROVE  /\ Append(s, e) \in Seq(S)
         /\ DOMAIN s = 1..Len(s)
         /\ DOMAIN Append(s, e) = 1..(Len(s) + 1)
         /\ Len(Append(s, e)) = Len(s) + 1
         /\ \A i \in DOMAIN s : Append(s, e)[i] = s[i]
         /\ Append(s, e)[Len(s) + 1] = e
         /\ Range(Append(s, e)) = Range(s) \cup {e}
BY DEF Range

(* ... and after an element was put at its front.                          *)
LEMMA PushFacts ==
  ASSUME NEW S, NEW s \in Seq(S), NEW e \in S
  PROVE  /\ <<e>> \o s \in Seq(S)
         /\ DOMAIN (<<e>> \o s) = 1..(Len(s) + 1)
         /\ (<<e>> \o s)[1] = e
         /\ \A i \in 1..Len(s) : (<<e>> \o s)[i + 1] = s[i]
         /\ Range(<<e>> \o s) = Range(s) \cup {e}
<1> DEFINE t == <<e>> \o s
<1>1. t \in Seq(S) /\ Len(t) = Len(s) + 1
  OBVIOUS
<1>2. t[1] = e /\ \A i \in 1..Len(s) : t[i + 1] = s[i]
  OBVIOUS
<1>3. DOMAIN t = 1..(Len(s) + 1) /\ DOMAIN s = 1..Len(s)
  BY <1>1
<1>4. Range(t) = Range(s) \cup {e}
  <2>1. \A i \in 1..(Len(s) + 1) : i = 1 \/ (i - 1 \in 1..Len(s) /\ t[i] = s[i - 1])
    BY <1>2, \A i \in Int : (i - 1) + 1 = i
  <2> HIDE DEF t
  <2>2. Range(t) \subseteq Range(s) \cup {e}
    BY <1>2, <1>3, <2>1 DEF Range
  <2>3. e \in Range(t)
    BY <1>2, <1>3 DEF Range
  <2>4. Range(s) \subseteq Range(t)
    <3> SUFFICES ASSUME NEW i \in 1..Len(s) PROVE s[i] \in Range(t)
      BY <1>3 DEF Range
    <3>1. i + 1 \in DOMAIN t
      BY <1>3
    <3> QED BY <3>1, <1>2 DEF Range
  <2> QED BY <2>2, <2>3, <2>4
<1> QED BY <1>1, <1>2, <1>3, <1>4

(* What is left of a non-empty sequence without its first element.         *)
LEMMA PopFacts ==
  ASSUME NEW S, NEW s \in Seq(S), s # <<>>
  PROVE  /\ Head(s) \in S
         /\ Tail(s) \in Seq(S)
         /\ Head(s) = s[1]
         /\ DOMAIN s = 1..Len(s)
         /\ 1 \in DOMAIN s
         /\ DOMAIN Tail(s) = 1..(Len(s) - 1)
         /\ \A i \in DOMAIN Tail(s) : i + 1 \in DOMAIN s /\ Tail(s)[i] = s[i + 1]
         /\ Range(s) = {Head(s)} \cup Range(Tail(s))
<1> DEFINE t == Tail(s)
<1>1. /\ Len(s) \in Nat /\ Len(s) >= 1
      /\ DOMAIN s = 1..Len(s) /\ Head(s) = s[1] /\ Head(s) \in S
  OBVIOUS
<1>2. t \in Seq(S) /\ DOMAIN t = 1..(Len(s) - 1)
  OBVIOUS
<1>3. \A i \in DOMAIN t : i + 1 \in DOMAIN s /\ t[i] = s[i + 1]
  BY <1>1, <1>2
<1>4. \A i \in DOMAIN s : i = 1 \/ (i - 1 \in DOMAIN t /\ t[i - 1] = s[i])
  BY <1>1, <1>2
<1>5. Range(s) = {Head(s)} \cup Range(t)
  <2> HIDE DEF t
  <2>1. Range(s) \subseteq {Head(s)} \cup Range(t)
    BY <1>1, <1>4 DEF Range
  <2>2. {Head(s)} \cup Range(t) \subseteq Range(s)
    BY <1>1, <1>3 DEF Range
  <2> QED BY <2>1, <2>2
<1> QED BY <1>1, <1>2, <1>3, <1>5

-------------------------------------------------------------------------------
(* Enqueue, with or without a Rendezvous, keeps the invariant.             *)
LEMMA BackStep ==
  ASSUME IInv, NEW c \in Clients, Free(c), Put(Append(queue, issued + 1)),
         UNCHANGED fronts,
         \/ UNCHANGED blocked
         \/ blocked' = [blocked EXCEPT ![c] = issued + 1]
  PROVE  IInv'
<1> DEFINE e == issued + 1
<1> USE ConstAssumption
<1>1. e \in Cmd /\ e \in Nat /\ issued \in Nat /\ 1..e = 1..issued \cup {e}
      /\ e \notin 1..issued
  BY DEF IInv, TypeOK, Put, Cmd
<1>2. queue' = Append(queue, e) /\ issued' = e
  BY DEF Put
<1>3. UNCHANGED <<interrupted, worker, current, owner, notified, started, failed, fronts>>
  BY DEF Put
<1>4. queue \in Seq(Cmd) /\ started \in Seq(Cmd)
  BY DEF IInv, TypeOK
<1>5. /\ queue' \in Seq(Cmd)
      /\ DOMAIN queue = 1..Len(queue)
      /\ DOMAIN queue' = 1..(Len(queue) + 1)
      /\ \A i \in DOMAIN queue : queue'[i] = queue[i]
      /\ queue'[Len(queue) + 1] = e
      /\ Range(queue') = Range(queue) \cup {e}
  BY <1>1, <1>2, <1>4, AppendFacts
<1>6. Len(queue) \in Nat
  BY <1>4
<1>7. /\ \A i \in DOMAIN queue : queue[i] \in 1..issued
      /\ \A i \in DOMAIN started : started[i] \in 1..issued
  BY DEF IInv, EachAtMostOnce, Range
<1>8. \A i \in DOMAIN queue' : \/ i \in DOMAIN queue /\ queue'[i] = queue[i]
                               \/ i = Len(queue) + 1 /\ queue'[i] = e
  BY <1>5, <1>6
<1> HIDE DEF e
<1>a. TypeOK'
  <2>1. blocked' \in [Clients -> Cmd \cup {NoCmd}]
    BY <1>1 DEF IInv, TypeOK, e
  <2>2. issued' \in 0..MaxCmds
    BY <1>1, <1>2 DEF Cmd
  <2> QED BY <2>1, <2>2, <1>3, <1>5 DEF IInv, TypeOK
<1>b. EachAtMostOnce'
  <2>1. (Range(queue) \cup Range(started) = 1..issued)' /\ (Range(queue) \cap Range(started) = {})'
    BY <1>1, <1>2, <1>3, <1>5 DEF IInv, EachAtMostOnce
  <2>2. \A i, j \in DOMAIN queue' : queue'[i] = queue'[j] => i = j
    BY <1>1, <1>7, <1>8 DEF IInv, EachAtMostOnce
  <2> QED BY <2>1, <2>2, <1>3 DEF IInv, EachAtMostOnce
<1>c. QueueShape'
  <2>1. fronts \subseteq 1..issued /\ e \notin fronts
    BY <1>1 DEF IInv, QueueShape
  <2>2. (fronts \subseteq 1..issued)'
    BY <2>1, <1>1, <1>2, <1>3
  <2>3. ASSUME NEW i \in DOMAIN queue', NEW j \in DOMAIN queue', i < j
        PROVE  IF queue'[j] \in fronts
               THEN queue'[i] \in fronts /\ queue'[i] > queue'[j]
               ELSE queue'[i] \in fronts \/ queue'[i] < queue'[j]
    <3>1. i \in DOMAIN queue /\ queue'[i] = queue[i]
      BY <2>3, <1>5, <1>6
    <3>2. CASE j \in DOMAIN queue /\ queue'[j] = queue[j]
      BY <3>1, <3>2, <2>3 DEF IInv, QueueShape
    <3>3. CASE queue'[j] = e
      BY <3>1, <3>3, <2>1, <1>1, <1>7 DEF e
    <3> QED BY <3>2, <3>3, <1>8
  <2>4. \A i \in DOMAIN started, j \in DOMAIN queue' :
           \/ started[i] \in fronts
           \/ queue'[j] \in fronts
           \/ started[i] < queue'[j]
    BY <1>1, <1>7, <1>8 DEF IInv, QueueShape, e
  <2> QED BY <2>2, <2>3, <2>4, <1>3 DEF QueueShape
<1>d. BackInOrder' /\ ThreadState' /\ NoThreadOutlivesObject'
  BY <1>3 DEF IInv, BackInOrder, ThreadState, NoThreadOutlivesObject
<1>e. NoLostWakeup'
  BY <1>2, <1>3, <1>5 DEF IInv, NoLostWakeup, TypeOK, e
<1> QED BY <1>a, <1>b, <1>c, <1>d, <1>e DEF IInv

(* EnqueueFront keeps the invariant.                                       *)
LEMMA FrontStep ==
  ASSUME IInv, NEW c \in Clients, EnqueueFront(c)
  PROVE  IInv'
<1> DEFINE e == issued + 1
<1> USE ConstAssumption
<1>1. e \in Cmd /\ e \in Nat /\ issued \in Nat /\ 1..e = 1..issued \cup {e}
      /\ e \notin 1..issued
  BY DEF IInv, TypeOK, EnqueueFront, Put, Cmd
<1>2. queue' = <<e>> \o queue /\ issued' = e /\ fronts' = fronts \cup {e}
  BY DEF EnqueueFront, Put
<1>3. UNCHANGED <<interrupted, worker, current, owner, notified, started, failed, blocked>>
  BY DEF EnqueueFront, Put
<1>4. queue \in Seq(Cmd) /\ started \in Seq(Cmd)
  BY DEF IInv, TypeOK
<1>5. /\ queue' \in Seq(Cmd)
      /\ DOMAIN queue' = 1..(Len(queue) + 1)
      /\ queue'[1] = e
      /\ \A i \in 1..Len(queue) : queue'[i + 1] = queue[i]
      /\ Range(queue') = Range(queue) \cup {e}
  BY <1>1, <1>2, <1>4, PushFacts
<1>6. Len(queue) \in Nat /\ DOMAIN queue = 1..Len(queue)
  BY <1>4
<1>7. /\ \A i \in DOMAIN queue : queue[i] \in 1..issued
      /\ \A i \in DOMAIN started : started[i] \in 1..issued
  BY DEF IInv, EachAtMostOnce, Range
<1>8. \A i \in DOMAIN queue' : \/ i = 1 /\ queue'[i] = e
                               \/ i - 1 \in DOMAIN queue /\ queue'[i] = queue[i - 1]
  <2> TAKE i \in DOMAIN queue'
  <2>1. CASE i = 1
    BY <2>1, <1>5
  <2>2. CASE i # 1
    <3>1. i - 1 \in 1..Len(queue) /\ (i - 1) + 1 = i
      BY <2>2, <1>5, <1>6
    <3> QED BY <3>1, <1>5, <1>6
  <2> QED BY <2>1, <2>2
<1>9. fronts \subseteq 1..issued
  BY DEF IInv, QueueShape
<1> HIDE DEF e
<1>a. TypeOK'
  BY <1>1, <1>2, <1>3, <1>5 DEF IInv, TypeOK, Cmd, e, EnqueueFront, Put
<1>b. EachAtMostOnce'
  <2>1. (Range(queue) \cup Range(started) = 1..issued)' /\ (Range(queue) \cap Range(started) = {})'
    BY <1>1, <1>2, <1>3, <1>5 DEF IInv, EachAtMostOnce
  <2>2. ASSUME NEW i \in DOMAIN queue', NEW j \in DOMAIN queue', queue'[i] = queue'[j]
        PROVE  i = j
    <3>1. i \in Nat /\ j \in Nat
      BY <1>5, <1>6
    <3>2. \A k \in DOMAIN queue' : k # 1 => queue'[k] # e
      BY <1>1, <1>7, <1>8
    <3>3. CASE i = 1 \/ j = 1
      BY <3>2, <3>3, <2>2, <1>5
    <3>4. CASE i # 1 /\ j # 1
      <4>1. i - 1 = j - 1
        BY <3>4, <2>2, <1>8 DEF IInv, EachAtMostOnce
      <4> QED BY <4>1, <3>1
    <3> QED BY <3>3, <3>4
  <2> QED BY <2>1, <2>2, <1>3 DEF IInv, EachAtMostOnce
<1>c. QueueShape'
  <2>1. (fronts \subseteq 1..issued)'
    BY <1>1, <1>2, <1>9
  <2>2. ASSUME NEW i \in DOMAIN queue', NEW j \in DOMAIN queue', i < j
        PROVE  IF queue'[j] \in fronts'
               THEN queue'[i] \in fronts' /\ queue'[i] > queue'[j]
               ELSE queue'[i] \in fronts' \/ queue'[i] < queue'[j]
    <3>1. i \in Nat /\ j \in Nat /\ j # 1 /\ i >= 1
      BY <2>2, <1>5, <1>6
    <3>2. j - 1 \in DOMAIN queue /\ queue'[j] = queue[j - 1]
      BY <3>1, <1>8
    <3>3. CASE i = 1
      <4>1. queue'[i] = e /\ e \in fronts'
        BY <3>3, <1>2, <1>5
      <4>2. queue'[j] \in 1..issued
        BY <3>2, <1>7
      <4> QED BY <4>1, <4>2, <1>1 DEF e
    <3>4. CASE i # 1
      <4>1. i - 1 \in DOMAIN queue /\ queue'[i] = queue[i - 1]
        BY <3>4, <1>8
      <4>2. i - 1 < j - 1
        BY <3>1, <2>2
      <4>3. queue[i - 1] \in 1..issued /\ queue[j - 1] \in 1..issued
        BY <4>1, <3>2, <1>7
      <4> QED BY <4>1, <4>2, <4>3, <3>2, <1>1, <1>2 DEF IInv, QueueShape
    <3> QED BY <3>3, <3>4
  <2>3. ASSUME NEW i \in DOMAIN started, NEW j \in DOMAIN queue'
        PROVE  \/ started[i] \in fronts'
               \/ queue'[j] \in fronts'
               \/ started[i] < queue'[j]
    BY <1>2, <1>8 DEF IInv, QueueShape
  <2> QED BY <2>1, <2>2, <2>3, <1>3 DEF QueueShape
<1>d. BackInOrder'
  BY <1>2, <1>3 DEF IInv, BackInOrder
<1>e. ThreadState' /\ NoThreadOutlivesObject'
  BY <1>3 DEF IInv, ThreadState, NoThreadOutlivesObject
<1>f. NoLostWakeup'
  BY <1>2, <1>3, <1>5 DEF IInv, NoLostWakeup
<1> QED BY <1>a, <1>b, <1>c, <1>d, <1>e, <1>f DEF IInv

(* The thread takes the front command: the invariant is kept because what  *)
(* was at the front is, by QueueShape, younger than no other back command. *)
LEMMA DequeueStep ==
  ASSUME IInv, Dequeue
  PROVE  IInv'
<1> DEFINE e == Head(queue)
<1>1. /\ queue' = Tail(queue) /\ started' = Append(started, e) /\ current' = e
      /\ worker' = "execute" /\ worker = "dequeue" /\ queue # <<>>
      /\ UNCHANGED <<interrupted, owner, blocked, notified, issued, fronts, failed>>
  BY DEF Dequeue
<1>2. queue \in Seq(Cmd) /\ started \in Seq(Cmd)
  BY DEF IInv, TypeOK
<1>3. /\ e \in Cmd /\ queue' \in Seq(Cmd) /\ e = queue[1]
      /\ DOMAIN queue = 1..Len(queue) /\ 1 \in DOMAIN queue
      /\ DOMAIN queue' = 1..(Len(queue) - 1)
      /\ \A i \in DOMAIN queue' : i + 1 \in DOMAIN queue /\ queue'[i] = queue[i + 1]
      /\ Range(queue) = {e} \cup Range(queue')
  BY <1>1, <1>2, PopFacts
<1>4. /\ started' \in Seq(Cmd)
      /\ DOMAIN started = 1..Len(started)
      /\ DOMAIN started' = 1..(Len(started) + 1)
      /\ \A i \in DOMAIN started : started'[i] = started[i]
      /\ started'[Len(started) + 1] = e
      /\ Range(started') = Range(started) \cup {e}
  BY <1>1, <1>2, <1>3, AppendFacts
<1>5. Len(queue) \in Nat /\ Len(started) \in Nat
  BY <1>2
<1>6. \A i \in DOMAIN started' : \/ i \in DOMAIN started /\ started'[i] = started[i]
                                 \/ i = Len(started) + 1 /\ started'[i] = e
  BY <1>4, <1>5
<1>7. e \in Range(queue) /\ e \notin Range(started)
  BY <1>3 DEF IInv, EachAtMostOnce
<1>8. \A i \in DOMAIN queue' : queue'[i] # e /\ i + 1 # 1 /\ i \in Nat
  <2> TAKE i \in DOMAIN queue'
  <2>1. i \in Nat /\ i + 1 # 1
    BY <1>3, <1>5
  <2> QED BY <2>1, <1>3 DEF IInv, EachAtMostOnce
<1> HIDE DEF e
<1>a. TypeOK'
  BY <1>1, <1>3, <1>4 DEF IInv, TypeOK
<1>b. EachAtMostOnce'
  <2>1. e \notin Range(queue')
    BY <1>8 DEF Range
  <2>2. (Range(queue) \cup Range(started) = 1..issued)' /\ (Range(queue) \cap Range(started) = {})'
    BY <2>1, <1>1, <1>3, <1>4, <1>7 DEF IInv, EachAtMostOnce
  <2>3. ASSUME NEW i \in DOMAIN queue', NEW j \in DOMAIN queue', queue'[i] = queue'[j]
        PROVE  i = j
    <3>1. i + 1 = j + 1
      BY <2>3, <1>3 DEF IInv, EachAtMostOnce
    <3> QED BY <3>1, <1>8
  <2>4. \A i \in DOMAIN started : started[i] # e
    BY <1>7 DEF Range
  <2>5. \A i, j \in DOMAIN started' : started'[i] = started'[j] => i = j
    BY <2>4, <1>6 DEF IInv, EachAtMostOnce
  <2> QED BY <2>2, <2>3, <2>5 DEF EachAtMostOnce
<1>c. QueueShape'
  <2>1. (fronts \subseteq 1..issued)'
    BY <1>1 DEF IInv, QueueShape
  <2>2. ASSUME NEW i \in DOMAIN queue', NEW j \in DOMAIN queue', i < j
        PROVE  IF queue'[j] \in fronts
               THEN queue'[i] \in fronts /\ queue'[i] > queue'[j]
               ELSE queue'[i] \in fronts \/ queue'[i] < queue'[j]
    <3>1. i + 1 < j + 1
      BY <2>2, <1>8
    <3> QED BY <3>1, <1>3 DEF IInv, QueueShape
  <2>3. ASSUME NEW i \in DOMAIN started', NEW j \in DOMAIN queue'
        PROVE  \/ started'[i] \in fronts
               \/ queue'[j] \in fronts
               \/ started'[i] < queue'[j]
    <3>1. CASE i \in DOMAIN started /\ started'[i] = started[i]
      BY <3>1, <1>3 DEF IInv, QueueShape
    <3>2. CASE started'[i] = e
      <4>1. 1 < j + 1
        BY <1>8, <1>3, <1>5
      <4> QED BY <4>1, <3>2, <1>3 DEF IInv, QueueShape
    <3> QED BY <3>1, <3>2, <1>6
  <2> QED BY <2>1, <2>2, <2>3, <1>1 DEF QueueShape
<1>d. BackInOrder'
  <2> SUFFICES ASSUME NEW i \in DOMAIN started', NEW j \in DOMAIN started', i < j
               PROVE  \/ started'[i] \in fronts
                      \/ started'[j] \in fronts
                      \/ started'[i] < started'[j]
    BY <1>1 DEF BackInOrder
  <2>1. i \in DOMAIN started /\ started'[i] = started[i]
    BY <1>4, <1>5
  <2>2. CASE j \in DOMAIN started /\ started'[j] = started[j]
    BY <2>1, <2>2 DEF IInv, BackInOrder
  <2>3. CASE started'[j] = e
    BY <2>1, <2>3, <1>3 DEF IInv, QueueShape
  <2> QED BY <2>2, <2>3, <1>6
<1>e. ThreadState' /\ NoThreadOutlivesObject'
  BY <1>1, <1>4 DEF IInv, ThreadState, NoThreadOutlivesObject
<1>f. NoLostWakeup'
  BY <1>1, <1>3 DEF IInv, NoLostWakeup, ThreadState, TypeOK
<1> QED BY <1>a, <1>b, <1>c, <1>d, <1>e, <1>f DEF IInv

(* The steps that leave the queue and the history of begun commands alone. *)
LEMMA OtherSteps ==
  ASSUME IInv,
         \/ \E c \in Clients : WaitReturns(c)
         \/ DequeueThrows \/ NotifyOne \/ Continue \/ Quit \/ Terminate
         \/ ShutDown \/ Join
         \/ UNCHANGED vars
  PROVE  IInv'
<1>1. UNCHANGED <<queue, issued, fronts, started>>
  BY DEF WaitReturns, DequeueThrows, NotifyOne, Continue, Quit, Terminate,
         Ended, ShutDown, Join, vars
<1>2. EachAtMostOnce' /\ QueueShape' /\ BackInOrder'
  BY <1>1 DEF IInv, EachAtMostOnce, QueueShape, BackInOrder
<1> USE DEF IInv, TypeOK, ThreadState, NoThreadOutlivesObject, NoLostWakeup
<1>3. CASE \E c \in Clients : WaitReturns(c)
  BY <1>2, <1>3 DEF WaitReturns
<1>4. CASE DequeueThrows
  BY <1>2, <1>4 DEF DequeueThrows
<1>5. CASE NotifyOne
  <2>1. current \in Cmd
    BY <1>5, <1>1 DEF NotifyOne, EachAtMostOnce, Range
  <2> QED BY <1>2, <1>5, <2>1 DEF NotifyOne
<1>6. CASE Continue \/ Quit \/ Terminate
  <2>1. PICK outcome : Ended(outcome)
    BY <1>6 DEF Continue, Quit, Terminate
  <2>2. current \in Cmd
    BY <2>1 DEF Ended, Range
  <2>3. TypeOK'
    BY <1>6, <2>1, <2>2 DEF Continue, Quit, Terminate, Ended
  <2>4. ThreadState' /\ NoThreadOutlivesObject'
    BY <1>6, <2>1 DEF Continue, Quit, Terminate, Ended
  <2>5. NoLostWakeup'
    <3> SUFFICES ASSUME NEW c \in Clients, blocked[c] # NoCmd
                 PROVE  \/ blocked[c] \in Range(queue) \cup notified \cup failed'
                        \/ blocked[c] = current'
      BY <2>1, <1>1 DEF Ended
    <3>1. CASE blocked[c] = current
      <4>1. current \in Range(blocked)
        BY <3>1 DEF Range
      <4> QED BY <4>1, <3>1, <2>1 DEF Ended
    <3>2. CASE blocked[c] \in Range(queue) \cup notified \cup failed
      BY <3>2, <2>1 DEF Ended
    <3> QED BY <3>1, <3>2
  <2> QED BY <1>2, <2>3, <2>4, <2>5
<1>7. CASE ShutDown
  BY <1>2, <1>7 DEF ShutDown
<1>8. CASE Join
  BY <1>2, <1>8 DEF Join
<1>9. CASE UNCHANGED vars
  BY <1>2, <1>9 DEF vars
<1> QED BY <1>3, <1>4, <1>5, <1>6, <1>7, <1>8, <1>9

-------------------------------------------------------------------------------
(* IInv holds initially ...                                                *)
LEMMA InitIInv == Init => IInv
<1> SUFFICES ASSUME Init PROVE IInv
  OBVIOUS
<1>1. Range(queue) = {} /\ Range(started) = {} /\ DOMAIN queue = {} /\ DOMAIN started = {}
  BY DEF Init, Range
<1>2. TypeOK
  <2>1. issued \in 0..MaxCmds
    BY ConstAssumption DEF Init
  <2>2. queue \in Seq(Cmd) /\ started \in Seq(Cmd)
    BY EmptySeq DEF Init
  <2>3. blocked \in [Clients -> Cmd \cup {NoCmd}]
    BY DEF Init
  <2> QED BY <2>1, <2>2, <2>3 DEF Init, TypeOK
<1>3. EachAtMostOnce /\ QueueShape /\ BackInOrder
  BY <1>1 DEF Init, EachAtMostOnce, QueueShape, BackInOrder
<1>4. ThreadState /\ NoThreadOutlivesObject /\ NoLostWakeup
  BY DEF Init, ThreadState, NoThreadOutlivesObject, NoLostWakeup
<1> QED BY <1>2, <1>3, <1>4 DEF IInv

(* ... and every step keeps it.                                            *)
LEMMA NextIInv == IInv /\ [Next]_vars => IInv'
<1> SUFFICES ASSUME IInv, [Next]_vars PROVE IInv'
  OBVIOUS
<1>1. ASSUME NEW c \in Clients, Enqueue(c) PROVE IInv'
  BY <1>1, BackStep DEF Enqueue
<1>2. ASSUME NEW c \in Clients, EnqueueAndWait(c) PROVE IInv'
  BY <1>2, BackStep DEF EnqueueAndWait
<1>3. ASSUME NEW c \in Clients, EnqueueFront(c) PROVE IInv'
  BY <1>3, FrontStep
<1>4. CASE Dequeue
  BY <1>4, DequeueStep
<1> QED BY <1>1, <1>2, <1>3, <1>4, OtherSteps DEF Next, Worker, Client

(* Every reachable state satisfies the inductive invariant, whatever the   *)
(* number of clients and commands: the queue keeps its layout, the thread  *)
(* executes only what it dequeued, and blocked callers stay accounted for. *)
THEOREM Invariance == Spec => []IInv
BY InitIInv, NextIInv, PTL DEF Spec

(* Every variable keeps its type.                                          *)
THEOREM TypeCorrect == Spec => []TypeOK
BY Invariance, PTL DEF IInv

(* No command is lost, none is begun twice.                                *)
THEOREM NeverTwice == Spec => []EachAtMostOnce
BY Invariance, PTL DEF IInv

(* Commands put at the back are begun in the order of the Enqueue calls.   *)
THEOREM OrderKept == Spec => []BackInOrder
BY Invariance, PTL DEF IInv

(* The destructor returns only when the thread is done with the object.    *)
THEOREM ThreadJoined == Spec => []NoThreadOutlivesObject
BY Invariance, PTL DEF IInv

(* A blocked caller is still going to be notified, was notified, or waits  *)
(* for a command that failed.                                              *)
THEOREM WakeupsKept == Spec => []NoLostWakeup
BY Invariance, PTL DEF IInv

(* What a thread begins is the command put in front last, else the oldest. *)
THEOREM ServedInOrder == Spec => ServiceOrder
<1> DEFINE next  == started'[Len(started')]
           front == Range(queue) \cap fronts
           Fits  == /\ ~interrupted
                    /\ IF front # {}
                       THEN next \in front /\ \A f \in front : f <= next
                       ELSE \A b \in Range(queue) : next <= b
<1>1. IInv /\ [Next]_vars => [started' # started => Fits]_vars
  <2> SUFFICES ASSUME IInv, Next, started' # started PROVE Fits
    BY DEF vars
  <2>1. Dequeue
    BY DEF Next, Worker, Client, Enqueue, EnqueueFront, EnqueueAndWait, Put,
           WaitReturns, DequeueThrows, NotifyOne, Continue, Quit, Terminate,
           Ended, ShutDown, Join
  <2>2. queue \in Seq(Cmd) /\ started \in Seq(Cmd) /\ queue # <<>> /\ ~interrupted
    BY <2>1 DEF IInv, TypeOK, Dequeue
  <2>3. next = Head(queue)
    <3>1. started' = Append(started, Head(queue)) /\ Head(queue) \in Cmd
      BY <2>1, <2>2 DEF Dequeue
    <3> QED BY <3>1, <2>2
  <2>4. next = queue[1] /\ 1 \in DOMAIN queue /\ DOMAIN queue = 1..Len(queue)
    BY <2>2, <2>3, PopFacts
  <2>5. \A i \in DOMAIN queue : queue[i] \in Nat /\ (i = 1 \/ 1 < i)
    <3>1. Len(queue) \in Nat /\ \A i \in DOMAIN queue : queue[i] \in Cmd
      BY <2>2, <2>4
    <3>2. \A i \in 1..Len(queue) : i = 1 \/ 1 < i
      BY <3>1
    <3> QED BY <3>1, <3>2, <2>4, ConstAssumption DEF Cmd
  <2> HIDE DEF next
  <2>6. CASE next \in fronts
    <3>1. next \in front
      BY <2>4, <2>6 DEF Range
    <3>2. \A i \in DOMAIN queue : queue[i] \in fronts => queue[i] <= next
      BY <2>4, <2>5 DEF IInv, QueueShape
    <3> QED BY <3>1, <3>2, <2>2 DEF Range
  <2>7. CASE next \notin fronts
    <3>1. \A i \in DOMAIN queue : queue[i] \notin fronts /\ next <= queue[i]
      BY <2>4, <2>5, <2>7 DEF IInv, QueueShape
    <3> QED BY <3>1, <2>2 DEF Range
  <2> QED BY <2>6, <2>7
<1> QED BY <1>1, Invariance, PTL DEF Spec, ServiceOrder

-------------------------------------------------------------------------------
(* A step of Next maps to a step of ActiveObject, or changes none of its   *)
(* variables.                                                              *)
LEMMA StepRefines == IInv /\ [Next]_vars => [Abstract!ANext]_(Abstract!avars)
<1> SUFFICES ASSUME IInv, [Next]_vars
             PROVE  [Abstract!ANext]_(Abstract!avars)
  OBVIOUS
<1>0. NoCmd \notin Range(started)
  <2>1. Range(started) \subseteq 1..issued /\ issued \in Nat
    BY ConstAssumption DEF IInv, EachAtMostOnce, TypeOK
  <2> QED BY <2>1 DEF NoCmd
<1>1. ASSUME Put(Append(queue, issued + 1)) \/ Put(<<issued + 1>> \o queue)
      PROVE  Abstract!Submit
  <2> DEFINE e == issued + 1
  <2>1. queue \in Seq(Cmd) /\ e \in Cmd /\ e \notin 1..issued /\ e # NoCmd
    BY <1>1, ConstAssumption DEF IInv, TypeOK, Put, Cmd, NoCmd
  <2>2. Range(queue') = Range(queue) \cup {e}
    <3>1. Range(Append(queue, e)) = Range(queue) \cup {e}
      BY <2>1, AppendFacts
    <3>2. Range(<<e>> \o queue) = Range(queue) \cup {e}
      BY <2>1, PushFacts
    <3>3. queue' = Append(queue, e) \/ queue' = <<e>> \o queue
      BY <1>1 DEF Put
    <3> QED BY <3>1, <3>2, <3>3
  <2>3. e \notin Range(queue) /\ e \notin Range(started)
    BY <2>1 DEF IInv, EachAtMostOnce
  <2>4. e # current
    BY <2>1, <2>3 DEF IInv, ThreadState, TypeOK
  <2>5. UNCHANGED <<current, started, interrupted>>
    BY <1>1 DEF Put
  <2> HIDE DEF e
  <2> QED BY <2>1, <2>2, <2>3, <2>4, <2>5 DEF Abstract!Submit
<1>2. CASE Dequeue
  <2> DEFINE e == Head(queue)
  <2>1. queue \in Seq(Cmd) /\ started \in Seq(Cmd) /\ queue # <<>>
    BY <1>2 DEF IInv, TypeOK, Dequeue
  <2>2. /\ e \in Cmd /\ e = queue[1] /\ 1 \in DOMAIN queue
        /\ DOMAIN queue = 1..Len(queue) /\ Len(queue) \in Nat
        /\ Range(queue) = {e} \cup Range(queue')
        /\ DOMAIN queue' = 1..(Len(queue) - 1)
        /\ \A i \in DOMAIN queue' : i + 1 \in DOMAIN queue /\ queue'[i] = queue[i + 1]
    BY <1>2, <2>1, PopFacts DEF Dequeue
  <2>3. Range(started') = Range(started) \cup {e}
    BY <1>2, <2>1, <2>2, AppendFacts DEF Dequeue
  <2>4. e \notin Range(queue')
    <3> SUFFICES ASSUME NEW i \in DOMAIN queue', queue'[i] = e PROVE FALSE
      BY DEF Range
    <3>1. i + 1 = 1
      BY <2>2 DEF IInv, EachAtMostOnce
    <3> QED BY <3>1, <2>2
  <2>5. e \in Range(queue) /\ e \notin Range(started)
    BY <2>2 DEF IInv, EachAtMostOnce
  <2>6. current = NoCmd /\ current' = e /\ ~interrupted /\ UNCHANGED interrupted
    BY <1>2 DEF Dequeue, IInv, ThreadState
  <2> HIDE DEF e
  <2> QED BY <1>0, <2>2, <2>3, <2>4, <2>5, <2>6
          DEF Abstract!Begin, Abstract!ANext
<1>3. CASE Continue \/ Quit
  <2>1. worker = "execute" /\ current' = NoCmd /\ UNCHANGED <<queue, started, interrupted>>
    BY <1>3 DEF Continue, Quit, Ended
  <2>2. current \in Range(started) /\ NoCmd \notin Range(started)
    BY <2>1, <1>0 DEF IInv, ThreadState
  <2> QED BY <2>1, <2>2 DEF Abstract!End, Abstract!ANext
<1>4. CASE ShutDown
  BY <1>4 DEF ShutDown, IInv, ThreadState, Abstract!Close, Abstract!ANext
<1>5. CASE \/ \E c \in Clients : WaitReturns(c)
           \/ DequeueThrows \/ NotifyOne \/ Terminate \/ Join
           \/ UNCHANGED vars
  BY <1>5 DEF WaitReturns, DequeueThrows, NotifyOne, Terminate, Ended, Join,
              vars, Abstract!avars
<1> QED BY <1>1, <1>2, <1>3, <1>4, <1>5
        DEF Next, Worker, Client, Enqueue, EnqueueFront, EnqueueAndWait,
            Abstract!ANext

(* CmdProcessor implements the active object its comments promise.         *)
THEOREM Refinement == Spec => AbstractSpec
<1>1. Init => Abstract!AInit
  BY DEF Init, Abstract!AInit, Range
<1> QED BY <1>1, StepRefines, Invariance, PTL
        DEF Spec, AbstractSpec, Abstract!ASpec
===============================================================================
