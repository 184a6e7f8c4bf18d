------------------------------ MODULE JobQueue ------------------------------
(***************************************************************************)
(* InMemoryJobQueue (runtime/queue.py) at the grain it runs at: the API's  *)
(* event loop and the worker thread share a deque and a set of ids with no *)
(* lock, so every statement of enqueue and dequeue is a step of its own.   *)
(* The worker takes a job, runs its turn, and may enqueue it again.        *)
(***************************************************************************)
EXTENDS Naturals, Sequences

CONSTANTS
    Jobs,
    Null,
    MaxQueue   \* bound: length of the deque

Callers == {"api", "worker"}

VARIABLES
    queue,    \* _queue, the deque
    ids,      \* _queued_job_ids
    pc,       \* per caller: idle, in enqueue (append, add), in dequeue
              \* (discard), or in a turn
    item,     \* per caller: the job it carries
    owed      \* history: jobs whose last enqueue call no turn has followed

vars == <<queue, ids, pc, item, owed>>

Init ==
    /\ queue = <<>>
    /\ ids = {}
    /\ pc = [c \in Callers |-> "idle"]
    /\ item = [c \in Callers |-> Null]
    /\ owed = {}

\* Caller c continues at l with job j.
Goto(c, l, j) ==
    /\ pc' = [pc EXCEPT ![c] = l]
    /\ item' = [item EXCEPT ![c] = j]

\* enqueue: the membership test; a job already in the set is refused.
Enqueue(c, j) ==
    /\ Len(queue) < MaxQueue
    /\ owed' = owed \cup {j}
    /\ IF j \in ids THEN Goto(c, "idle", Null) ELSE Goto(c, "append", j)
    /\ UNCHANGED <<queue, ids>>

ApiEnqueue(j)    == pc["api"] = "idle" /\ Enqueue("api", j)
WorkerRequeue    == pc["worker"] = "turn" /\ Enqueue("worker", item["worker"])

AppendJob(c) ==
    /\ pc[c] = "append"
    /\ queue' = Append(queue, item[c])
    /\ Goto(c, "add", item[c])
    /\ UNCHANGED <<ids, owed>>

AddId(c) ==
    /\ pc[c] = "add"
    /\ ids' = ids \cup {item[c]}
    /\ Goto(c, "idle", Null)
    /\ UNCHANGED <<queue, owed>>

\* dequeue: popleft, then discard; then the worker reads the job (owed).
PopLeft ==
    /\ pc["worker"] = "idle"
    /\ queue # <<>>
    /\ queue' = Tail(queue)
    /\ Goto("worker", "discard", Head(queue))
    /\ UNCHANGED <<ids, owed>>

DiscardId ==
    /\ pc["worker"] = "discard"
    /\ ids' = ids \ {item["worker"]}
    /\ owed' = owed \ {item["worker"]}
    /\ Goto("worker", "turn", item["worker"])
    /\ UNCHANGED queue

EndTurn ==
    /\ pc["worker"] = "turn"
    /\ Goto("worker", "idle", Null)
    /\ UNCHANGED <<queue, ids, owed>>

WorkerStep ==
    \/ WorkerRequeue \/ AppendJob("worker") \/ AddId("worker")
    \/ PopLeft \/ DiscardId \/ EndTurn
ApiStep == AppendJob("api") \/ AddId("api")

Next == WorkerStep \/ ApiStep \/ \E j \in Jobs : ApiEnqueue(j)

\* Threads keep running; nobody is obliged to enqueue.
Spec == Init /\ [][Next]_vars /\ WF_vars(WorkerStep) /\ WF_vars(ApiStep)

-----------------------------------------------------------------------------
(* Properties.                                                             *)

\* "Queue a job once and return true if this call added it." (queue.py): a job
\* whose enqueue returned, true or false, gets a turn after the call.  It does
\* not: AddId may come after DiscardId, which leaves an id without an entry,
\* and from then on every call for the job is refused.
EveryCallIsServed == \A j \in Jobs : j \in owed ~> j \notin owed
=============================================================================
