--------------------------- MODULE CommandQueue ---------------------------
(***************************************************************************)
(* CommandQueue (bluetooth/rate_limiter.go): callers put commands in a     *)
(* slice, a goroutine started by Start takes the first on every tick of    *)
(* its timer when the limiter allows it, sends it without the lock, and    *)
(* puts it back at the head when sending failed.                           *)
(*                                                                         *)
(* When the limiter allows is RateLimiter's subject: here a refusal is the *)
(* command not taken yet. Start and Stop unlock before they start the      *)
(* goroutine or close the channel: those are steps of their own.           *)
(***************************************************************************)
EXTENDS Integers, Sequences, FiniteSets, SequencesExt

CONSTANTS
    Urgent,      \* commands given to EnqueuePriority
    Regular,     \* commands given to Enqueue
    Absent,      \* "no command"
    MaxStarts,   \* bound on effective calls of Start
    MayDiscard   \* whether ClearQueue and RemoveExpiredCommands are called

Cmds == Urgent \cup Regular

MaxAttempts == 3

ASSUME QueueAssumption ==
    /\ Urgent \cap Regular = {}
    /\ Absent \notin Cmds
    /\ MaxStarts \in Nat \ {0}
    /\ MayDiscard \in BOOLEAN

Workers == 1 .. MaxStarts

VARIABLES
    queue,      \* CommandQueue.queue
    retries,    \* Command.Retries
    isRunning,  \* CommandQueue.isRunning
    closed,     \* stopChan is closed
    starting,   \* calls of Start about to start their goroutine
    stopping,   \* calls of Stop about to close stopChan
    pc,         \* per goroutine: "off", "idle", "sending", "done"
    holds,      \* per goroutine, the command it is sending
    panicked,   \* stopChan was closed twice
    enqueued,   \* commands in the order of their Timestamp
    sent,       \* commands sent, in order
    gone        \* commands given up, cleared or expired

lifecycle == <<isRunning, closed, starting, stopping, panicked>>
workers   == <<pc, holds>>
queueVars      == <<queue, retries, lifecycle, workers, enqueued, sent, gone>>

QueueTypeOK ==
    /\ queue \in Seq(Cmds)
    /\ retries \in [Cmds -> 0 .. MaxAttempts]
    /\ isRunning \in BOOLEAN
    /\ closed \in BOOLEAN
    /\ starting \in Nat
    /\ stopping \in Nat
    /\ pc \in [Workers -> {"off", "idle", "sending", "done"}]
    /\ holds \in [Workers -> Cmds \cup {Absent}]
    /\ panicked \in BOOLEAN
    /\ enqueued \in Seq(Cmds)
    /\ sent \in Seq(Cmds)
    /\ gone \subseteq Cmds

QueueInit ==
    /\ queue = <<>>
    /\ retries = [c \in Cmds |-> 0]
    /\ isRunning = FALSE
    /\ closed = FALSE
    /\ starting = 0
    /\ stopping = 0
    /\ pc = [w \in Workers |-> "off"]
    /\ holds = [w \in Workers |-> Absent]
    /\ panicked = FALSE
    /\ enqueued = <<>>
    /\ sent = <<>>
    /\ gone = {}

-----------------------------------------------------------------------------
(***************************************************************************)
(* Callers.                                                                *)
(***************************************************************************)
Started == Cardinality({w \in Workers : pc[w] # "off"}) + starting

Start ==
    /\ ~isRunning /\ Started < MaxStarts
    /\ isRunning' = TRUE
    /\ starting' = starting + 1
    /\ UNCHANGED <<queue, retries, closed, stopping, workers, panicked, enqueued, sent, gone>>

Spawn ==
    /\ starting > 0
    /\ starting' = starting - 1
    /\ \E w \in Workers : pc[w] = "off" /\ pc' = [pc EXCEPT ![w] = "idle"]
    /\ UNCHANGED <<queue, retries, isRunning, closed, stopping, holds, panicked, enqueued, sent, gone>>

Stop ==
    /\ isRunning
    /\ isRunning' = FALSE
    /\ stopping' = stopping + 1
    /\ UNCHANGED <<queue, retries, closed, starting, workers, panicked, enqueued, sent, gone>>

CloseStop ==
    /\ stopping > 0
    /\ stopping' = stopping - 1
    /\ closed' = TRUE
    /\ panicked' = closed
    /\ UNCHANGED <<queue, retries, isRunning, starting, workers, enqueued, sent, gone>>

New(c) == ~Contains(enqueued, c)

Enqueue(c) ==
    /\ c \in Regular /\ New(c)
    /\ enqueued' = Append(enqueued, c)
    /\ queue' = Append(queue, c)
    /\ UNCHANGED <<retries, lifecycle, workers, sent, gone>>

EnqueuePriority(c) ==
    /\ c \in Urgent /\ New(c)
    /\ enqueued' = Append(enqueued, c)
    /\ queue' = <<c>> \o queue
    /\ UNCHANGED <<retries, lifecycle, workers, sent, gone>>

Kept(S) == {i \in DOMAIN queue : queue[i] \notin S}

\* The commands kept close up in their order.
CloseUp(S) ==
    LET n == Cardinality(Kept(S)) IN
    \E place \in [1 .. n -> Kept(S)] :
      /\ \A i, j \in 1 .. n : i < j => place[i] < place[j]
      /\ queue' = [i \in 1 .. n |-> queue[place[i]]]

Discard(S) ==
    /\ MayDiscard
    /\ CloseUp(S)
    /\ gone' = gone \cup (ToSet(queue) \cap S)
    /\ UNCHANGED <<retries, lifecycle, workers, enqueued, sent>>

ClearQueue == queue # <<>> /\ Discard(Cmds)

\* The commands older than maxAge are the first ones by Timestamp.
RemoveExpiredCommands ==
    \E n \in 1 .. Len(enqueued) :
        /\ \E i \in 1 .. n : Contains(queue, enqueued[i])
        /\ Discard({enqueued[i] : i \in 1 .. n})

GetOldestCommand == Head(queue)

-----------------------------------------------------------------------------
(***************************************************************************)
(* processQueue.                                                           *)
(***************************************************************************)
WorkerExits(w) ==
    /\ pc[w] = "idle" /\ closed
    /\ pc' = [pc EXCEPT ![w] = "done"]
    /\ UNCHANGED <<queue, retries, lifecycle, holds, enqueued, sent, gone>>

\* Mutant: the command stays in the queue while it is sent.
ProcessNextCommandPeeks(w) ==
    /\ pc[w] = "idle" /\ queue # <<>>
    /\ pc' = [pc EXCEPT ![w] = "sending"]
    /\ holds' = [holds EXCEPT ![w] = Head(queue)]
    /\ UNCHANGED <<queue, retries, lifecycle, enqueued, sent, gone>>

\* select may choose the timer although stopChan is closed too.
ProcessNextCommand(w) ==
    /\ pc[w] = "idle" /\ queue # <<>>
    /\ pc' = [pc EXCEPT ![w] = "sending"]
    /\ holds' = [holds EXCEPT ![w] = Head(queue)]
    /\ queue' = Tail(queue)
    /\ UNCHANGED <<retries, lifecycle, enqueued, sent, gone>>

Return(w) ==
    /\ pc[w] = "sending"
    /\ pc' = [pc EXCEPT ![w] = "idle"]
    /\ holds' = [holds EXCEPT ![w] = Absent]
    /\ UNCHANGED <<lifecycle, enqueued>>

SendOk(w) ==
    /\ Return(w)
    /\ sent' = Append(sent, holds[w])
    /\ UNCHANGED <<queue, retries, gone>>

\* Mutant: the retry goes to the end of the queue.
SendFailsToTail(w) ==
    /\ Return(w)
    /\ LET c == holds[w] IN
         /\ retries' = [retries EXCEPT ![c] = @ + 1]
         /\ IF retries'[c] < MaxAttempts
            THEN queue' = Append(queue, c) /\ UNCHANGED gone
            ELSE gone' = gone \cup {c} /\ UNCHANGED queue
    /\ UNCHANGED sent

\* Mutant: a failed command is not counted.
SendFailsUncounted(w) ==
    /\ Return(w)
    /\ queue' = <<holds[w]>> \o queue
    /\ UNCHANGED <<retries, sent, gone>>

SendFails(w) ==
    /\ Return(w)
    /\ LET c == holds[w] IN
         /\ retries' = [retries EXCEPT ![c] = @ + 1]
         /\ IF retries'[c] < MaxAttempts
            THEN queue' = <<c>> \o queue /\ UNCHANGED gone
            ELSE gone' = gone \cup {c} /\ UNCHANGED queue
    /\ UNCHANGED sent

ProcessQueue(w) ==
    WorkerExits(w) \/ ProcessNextCommand(w) \/ SendOk(w) \/ SendFails(w)

-----------------------------------------------------------------------------
\* A panic ends the process.
QueueNext ==
    /\ ~panicked
    /\ \/ Start \/ Spawn \/ Stop \/ CloseStop
       \/ \E c \in Cmds : Enqueue(c) \/ EnqueuePriority(c)
       \/ ClearQueue \/ RemoveExpiredCommands
       \/ \E w \in Workers : ProcessQueue(w)

QueueSpec == QueueInit /\ [][QueueNext]_queueVars

(***************************************************************************)
(* Calls of Start and Stop return, the goroutine runs and the limiter lets *)
(* a waiting command through in time (RateLimiter!NeverStarved).           *)
(***************************************************************************)
FairSpec ==
    /\ QueueSpec
    /\ WF_queueVars(~panicked /\ Spawn)
    /\ WF_queueVars(~panicked /\ CloseStop)
    /\ \A w \in Workers : WF_queueVars(~panicked /\ ProcessQueue(w))

-----------------------------------------------------------------------------
Holding == {w \in Workers : holds[w] # Absent}

\* The variables keep their types (no command fails more than three times), and a
\* command is in one place: not enqueued, in the queue once, in the hands of one
\* goroutine, sent once or gone.
InOnePlace ==
    /\ QueueTypeOK
    /\ Len(queue) + Cardinality(Holding) + Len(sent) + Cardinality(gone) = Len(enqueued)
    /\ ToSet(enqueued) = ToSet(queue) \cup {holds[w] : w \in Holding} \cup ToSet(sent) \cup gone

\* Regular commands are sent in the order they were enqueued, retries included
\* and urgent ones in between.
InOrder ==
    LET rank(c) == CHOOSE i \in DOMAIN enqueued : enqueued[i] = c
    IN  \A i, j \in DOMAIN sent :
          i < j /\ {sent[i], sent[j]} \subseteq Regular => rank(sent[i]) < rank(sent[j])

\* While the queue runs, every command ends sent, given up, cleared or expired:
\* retries at the head block the others for a while only.
Drains == isRunning /\ queue # <<>> ~> queue = <<>> \/ ~isRunning

\* Start and Stop can be called again (rate_limiter.go:172).
NoPanic == ~panicked

\* GetOldestCommand returns the oldest (rate_limiter.go:270).
OldestIsOldest ==
    queue # <<>> =>
        LET first == CHOOSE i \in DOMAIN enqueued :
                        /\ Contains(queue, enqueued[i])
                        /\ \A j \in 1 .. i - 1 : ~Contains(queue, enqueued[j])
        IN  GetOldestCommand = enqueued[first]
=============================================================================
