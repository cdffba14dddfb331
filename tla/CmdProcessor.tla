----------------------------- MODULE CmdProcessor -----------------------------
(***************************************************************************)
(* The active object of src/src/EventManager/CmdProcessor.{h,cpp}: a queue *)
(* of commands, one thread that executes them, and a destructor that       *)
(* interrupts the queue and joins the thread.  Clients either enqueue and  *)
(* go on, or pass a Rendezvous and block on it (Cmd.h:55-82, and           *)
(* tests/CmdProcessorTest.cpp:136-161).                                    *)
(*                                                                         *)
(* A command is the number of the Enqueue call that built it: every call   *)
(* makes a fresh shared_ptr, so commands are never equal.  What a command  *)
(* does is abstracted to how its call ends (Outcomes).                     *)
(*                                                                         *)
(* ThreadSafeQueue and Rendezvous are in a submodule that is not part of   *)
(* this repository; they are modelled from how they are used here.         *)
(***************************************************************************)
EXTENDS Naturals, Sequences, Functions

CONSTANTS
    Clients,    \* threads that hand commands in
    MaxCmds,    \* bound: how many commands are handed in altogether
    Outcomes    \* how the call of a command may end

(***************************************************************************)
(* "returns", "exception" (derived from std::exception: caught and         *)
(* logged), "interrupted" (a ThreadInterruptedException out of the command *)
(* itself: caught by the clause meant for the shutdown signal) and         *)
(* "foreign" (anything else: leaves the thread function, so the runtime    *)
(* calls std::terminate).                                                  *)
(***************************************************************************)
AllOutcomes == {"returns", "exception", "interrupted", "foreign"}

ASSUME ConstAssumption == /\ MaxCmds \in Nat
                          /\ Outcomes \subseteq AllOutcomes

Cmd   == 1..MaxCmds
NoCmd == 0

VARIABLES
    queue,        \* _queue, next command to execute first
    interrupted,  \* _queue was interrupted
    worker,       \* where _thread is: in Dequeue, in a command, or gone
    current,      \* the command _thread executes, or NoCmd
    owner,        \* how far the thread that destroys the object is
    blocked,      \* per client: the command whose Rendezvous it waits on
    notified,     \* the commands whose Rendezvous was notified
    issued,       \* history: number of commands handed in
    fronts,       \* history: those handed in by EnqueueFront
    started,      \* history: commands in the order they were begun
    failed        \* history: commands whose call ended with an exception

vars == <<queue, interrupted, worker, current, owner, blocked, notified,
          issued, fronts, started, failed>>

Init ==
    /\ queue = <<>>
    /\ interrupted = FALSE
    /\ worker = "dequeue"
    /\ current = NoCmd
    /\ owner = "alive"
    /\ blocked = [c \in Clients |-> NoCmd]
    /\ notified = {}
    /\ issued = 0
    /\ fronts = {}
    /\ started = <<>>
    /\ failed = {}

-------------------------------------------------------------------------------
(* The process still runs, and the object still exists.                    *)
Usable == owner # "destroyed" /\ worker # "terminated"

Free(c) == blocked[c] = NoCmd

(* Building the next command and putting it on the queue.                  *)
Put(newQueue) ==
    /\ Usable
    /\ issued < MaxCmds
    /\ issued' = issued + 1
    /\ queue' = newQueue
    /\ UNCHANGED <<interrupted, worker, current, owner, notified, started,
                   failed>>

(* Deviations: operators whose names end in _ and a word are plausible     *)
(* mistakes in the definition that follows them; Next does not use them.   *)
Enqueue_AtFront(c) ==
    /\ Free(c)
    /\ Put(<<issued + 1>> \o queue)
    /\ UNCHANGED <<blocked, fronts>>

(* Enqueue and EnqueueLambda.                                              *)
Enqueue(c) ==
    /\ Free(c)
    /\ Put(Append(queue, issued + 1))
    /\ UNCHANGED <<blocked, fronts>>

EnqueueFront_AtBack(c) ==
    /\ Free(c)
    /\ Put(Append(queue, issued + 1))
    /\ fronts' = fronts \cup {issued + 1}
    /\ UNCHANGED blocked

EnqueueFront(c) ==
    /\ Free(c)
    /\ Put(<<issued + 1>> \o queue)
    /\ fronts' = fronts \cup {issued + 1}
    /\ UNCHANGED blocked

(* Enqueue a command that carries a Rendezvous, then Wait() on it.         *)
EnqueueAndWait(c) ==
    /\ Free(c)
    /\ Put(Append(queue, issued + 1))
    /\ blocked' = [blocked EXCEPT ![c] = issued + 1]
    /\ UNCHANGED fronts

(* Rendezvous::Wait() returns.  The Rendezvous is the client's own, so it  *)
(* does not matter whether the CmdProcessor still exists.                  *)
WaitReturns(c) ==
    /\ worker # "terminated"
    /\ blocked[c] \in notified
    /\ blocked' = [blocked EXCEPT ![c] = NoCmd]
    /\ UNCHANGED <<queue, interrupted, worker, current, owner, notified,
                   issued, fronts, started, failed>>

-------------------------------------------------------------------------------
Dequeue_Peeks ==
    /\ worker = "dequeue"
    /\ ~interrupted
    /\ queue # <<>>
    /\ current' = Head(queue)
    /\ started' = Append(started, Head(queue))
    /\ worker' = "execute"
    /\ UNCHANGED <<queue, interrupted, owner, blocked, notified, issued,
                   fronts, failed>>

Dequeue_IgnoresInterrupt ==
    /\ worker = "dequeue"
    /\ queue # <<>>
    /\ current' = Head(queue)
    /\ queue' = Tail(queue)
    /\ started' = Append(started, Head(queue))
    /\ worker' = "execute"
    /\ UNCHANGED <<interrupted, owner, blocked, notified, issued, fronts,
                   failed>>

(* operator(): _queue.Dequeue() hands the front command out ...            *)
Dequeue ==
    /\ worker = "dequeue"
    /\ ~interrupted
    /\ queue # <<>>
    /\ current' = Head(queue)
    /\ queue' = Tail(queue)
    /\ started' = Append(started, Head(queue))
    /\ worker' = "execute"
    /\ UNCHANGED <<interrupted, owner, blocked, notified, issued, fronts,
                   failed>>

(* ... or, interrupted, throws: what is still queued is skipped            *)
(* (CmdProcessor.cpp:44-48) and the thread function returns.               *)
DequeueThrows ==
    /\ worker = "dequeue"
    /\ interrupted
    /\ worker' = "exited"
    /\ UNCHANGED <<queue, interrupted, current, owner, blocked, notified,
                   issued, fronts, started, failed>>

(* A handler that was given a Rendezvous calls NotifyOne().                *)
NotifyOne ==
    /\ worker = "execute"
    /\ current \in Range(blocked)
    /\ current \notin notified
    /\ notified' = notified \cup {current}
    /\ UNCHANGED <<queue, interrupted, worker, current, owner, blocked,
                   issued, fronts, started, failed>>

Ended_Unnotified(outcome) ==
    /\ worker = "execute"
    /\ outcome \in Outcomes
    /\ failed' = IF outcome = "returns" THEN failed ELSE failed \cup {current}
    /\ UNCHANGED <<queue, interrupted, owner, blocked, notified, issued,
                   fronts, started>>

(* A handler that returns has notified its Rendezvous; one that throws may *)
(* have been cut short before.                                             *)
Ended(outcome) ==
    /\ worker = "execute"
    /\ outcome \in Outcomes
    /\ outcome = "returns" => \/ current \notin Range(blocked)
                              \/ current \in notified
    /\ failed' = IF outcome = "returns" THEN failed ELSE failed \cup {current}
    /\ UNCHANGED <<queue, interrupted, owner, blocked, notified, issued,
                   fronts, started>>

Continue_Flushes ==
    /\ worker = "execute"
    /\ worker' = "dequeue"
    /\ current' = NoCmd
    /\ \/ Ended("returns")
       \/ /\ failed' = failed \cup {current}
          /\ queue' = <<>>
          /\ UNCHANGED <<interrupted, owner, blocked, notified, issued, fronts,
                         started>>

Continue_KeepsCurrent ==
    /\ \E outcome \in {"returns", "exception"} : Ended(outcome)
    /\ worker' = "dequeue"
    /\ UNCHANGED current

(* The call returned, or its std::exception was logged: around the loop.   *)
Continue ==
    /\ \E outcome \in {"returns", "exception"} : Ended(outcome)
    /\ worker' = "dequeue"
    /\ current' = NoCmd

Quit ==
    /\ Ended("interrupted")
    /\ worker' = "exited"
    /\ current' = NoCmd

Terminate ==
    /\ Ended("foreign")
    /\ worker' = "terminated"
    /\ UNCHANGED current

-------------------------------------------------------------------------------
ShutDown_Silent ==
    /\ owner = "alive"
    /\ worker # "terminated"
    /\ owner' = "joining"
    /\ UNCHANGED <<queue, interrupted, worker, current, blocked, notified,
                   issued, fronts, started, failed>>

(* ~CmdProcessor(): ShutDown() interrupts the queue, then join().          *)
ShutDown ==
    /\ owner = "alive"
    /\ worker # "terminated"
    /\ interrupted' = TRUE
    /\ owner' = "joining"
    /\ UNCHANGED <<queue, worker, current, blocked, notified, issued, fronts,
                   started, failed>>

Join ==
    /\ owner = "joining"
    /\ worker = "exited"
    /\ owner' = "destroyed"
    /\ UNCHANGED <<queue, interrupted, worker, current, blocked, notified,
                   issued, fronts, started, failed>>

Worker == Dequeue \/ DequeueThrows \/ NotifyOne \/ Continue \/ Quit \/ Terminate

Client(c) == Enqueue(c) \/ EnqueueFront(c) \/ EnqueueAndWait(c) \/ WaitReturns(c)

Next == Worker \/ (\E c \in Clients : Client(c)) \/ ShutDown \/ Join

(* The scheduler runs the worker thread and a destructor in progress, and  *)
(* commands end: nothing here obliges a client to call or an owner to      *)
(* destroy.                                                                *)
Fairness == /\ WF_vars(Worker)
            /\ WF_vars(Join)
            /\ \A c \in Clients : WF_vars(WaitReturns(c))

Spec == Init /\ [][Next]_vars /\ Fairness

-------------------------------------------------------------------------------
TypeOK ==
    /\ queue \in Seq(Cmd)
    /\ interrupted \in BOOLEAN
    /\ worker \in {"dequeue", "execute", "exited", "terminated"}
    /\ current \in Cmd \cup {NoCmd}
    /\ owner \in {"alive", "joining", "destroyed"}
    /\ blocked \in [Clients -> Cmd \cup {NoCmd}]
    /\ notified \subseteq Cmd
    /\ issued \in 0..MaxCmds
    /\ fronts \subseteq Cmd
    /\ started \in Seq(Cmd)
    /\ failed \subseteq Cmd

(* No command is lost and none is executed twice: each command handed in   *)
(* is either still queued or was begun, never both, and at one place only. *)
(* (Enqueue from many threads against Dequeue, exceptions and shutdown.)   *)
EachAtMostOnce ==
    /\ Range(queue) \cup Range(started) = 1..issued
    /\ Range(queue) \cap Range(started) = {}
    /\ \A i, j \in DOMAIN queue : queue[i] = queue[j] => i = j
    /\ \A i, j \in DOMAIN started : started[i] = started[j] => i = j

(* Commands put at the back are begun in the order in which they were      *)
(* handed in, however EnqueueFront and exceptions intervene: an active     *)
(* object serializes the requests of its clients (Cmd.h:16-23).            *)
BackInOrder ==
    \A i, j \in DOMAIN started :
        i < j => \/ started[i] \in fronts
                 \/ started[j] \in fronts
                 \/ started[i] < started[j]

(* A thread begins the command that was put in front last, if there is one *)
(* ("next to execute", CmdProcessor.h:78), otherwise the oldest one, and   *)
(* begins none after ShutDown: what is queued then is skipped.             *)
ServiceOrder ==
    [][ started' # started =>
          LET next  == started'[Len(started')]
              front == Range(queue) \cap fronts
          IN  /\ ~interrupted
              /\ IF front # {}
                 THEN next \in front /\ \A f \in front : f <= next
                 ELSE \A b \in Range(queue) : next <= b ]_vars

(* The object is gone only after its thread: join() orders the destruction *)
(* of the queue after the last access of the thread to it, and no command  *)
(* is being executed.                                                      *)
NoThreadOutlivesObject ==
    owner = "destroyed" => worker = "exited" /\ current = NoCmd

(* A client blocked on a Rendezvous whose command is neither queued nor    *)
(* running, and was not notified, is one whose handler threw: no wake-up   *)
(* is lost otherwise (Cmd.h:81).                                           *)
NoLostWakeup ==
    \A c \in Clients :
        blocked[c] # NoCmd =>
            \/ blocked[c] \in Range(queue) \cup notified \cup failed
            \/ blocked[c] = current

(* How the queue is laid out: the commands put in front, last one first,   *)
(* then the others, oldest first; and no command put at the back has       *)
(* overtaken one that is still queued.  BackInOrder and ServiceOrder rest  *)
(* on it.                                                                  *)
QueueShape ==
    /\ fronts \subseteq 1..issued
    /\ \A i, j \in DOMAIN queue :
          i < j => IF queue[j] \in fronts
                   THEN queue[i] \in fronts /\ queue[i] > queue[j]
                   ELSE queue[i] \in fronts \/ queue[i] < queue[j]
    /\ \A i \in DOMAIN started, j \in DOMAIN queue :
          \/ started[i] \in fronts
          \/ queue[j] \in fronts
          \/ started[i] < queue[j]

(* Where the thread is, against what it executes; ShutDown is what         *)
(* interrupts the queue, and nothing else does.                            *)
ThreadState ==
    /\ worker \in {"dequeue", "exited"} => current = NoCmd
    /\ worker \in {"execute", "terminated"} => current \in Range(started)
    /\ interrupted <=> owner # "alive"

(* The inductive invariant behind the safety properties above.             *)
IInv == /\ TypeOK
        /\ EachAtMostOnce
        /\ QueueShape
        /\ BackInOrder
        /\ ThreadState
        /\ NoThreadOutlivesObject
        /\ NoLostWakeup

(* Every command handed in is begun, unless the object is being destroyed  *)
(* or a command took the thread down: what an earlier one did, or its      *)
(* std::exception, is no excuse (CmdProcessor.cpp:86-89).  An endless      *)
(* stream of EnqueueFronts would starve the back of the queue; MaxCmds     *)
(* makes it end.                                                           *)
EveryCommandBegun ==
    \A k \in Cmd :
        k \in Range(queue) ~> \/ k \in Range(started)
                             \/ interrupted
                             \/ worker \in {"exited", "terminated"}

(* The destructor returns: the interrupt reaches the thread wherever it is.*)
DestructorReturns ==
    owner = "joining" ~> owner = "destroyed" \/ worker = "terminated"

(* A client that waits is released, unless its handler threw, or the       *)
(* thread is gone or told to go before it reaches the command.             *)
CallerReleased ==
    \A c \in Clients :
        blocked[c] # NoCmd ~> \/ blocked[c] = NoCmd
                              \/ blocked[c] \in failed
                              \/ interrupted
                              \/ worker \in {"exited", "terminated"}

-------------------------------------------------------------------------------
(* Refinement: the queue is one way to keep the waiting commands.          *)
Abstract == INSTANCE ActiveObject
              WITH waiting <- Range(queue),
                   busy    <- current,
                   served  <- Range(started) \ {current},
                   open    <- ~interrupted

AbstractSpec == Abstract!ASpec
===============================================================================
