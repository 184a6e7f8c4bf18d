-------------------------- MODULE SharedRepository --------------------------
(***************************************************************************)
(* JsonExecutionRepository (persistence/repositories.py): the file behind  *)
(* the jobs.  Each process (the API, entrypoints/worker_main.py,           *)
(* entrypoints/reconciler_main.py) reads the file once, when it starts,    *)
(* into a snapshot its threads share.  A save changes the snapshot and     *)
(* rewrites the file with all of it, in place, under a lock of the         *)
(* process; nothing keeps two processes apart.                             *)
(*                                                                         *)
(* The threads make moves (_transition of api/service.py and of            *)
(* runtime/worker.py): a move saves the job, then its observation, then    *)
(* its audit event.  A snapshot is the set of saves it reflects.           *)
(***************************************************************************)
EXTENDS Naturals

CONSTANTS
    Processes,
    Threads,     \* threads that make moves
    Home,        \* the process of each thread
    MaxMoves,    \* bound: moves begun
    MaxMishaps   \* bound: crashes and writes that fail

ASSUME RepositoryAssumption ==
    /\ Home \in [Threads -> Processes]
    /\ MaxMoves \in Nat /\ MaxMishaps \in Nat

VARIABLES
    file,     \* [rows, by, whole]: not whole while it is being written, or torn
    up,       \* the processes that run
    snap,     \* per process: _snapshot
    thread,   \* per thread: the move it makes, the save it is at, and its payload
    raced,    \* processes whose write another process has cut into
    moves, mishaps,
    kept      \* history, per process: what it loaded and what was saved since

vars == <<file, up, snap, thread, raced, moves, mishaps, kept>>

Saves == 1..3
Rows == (1..MaxMoves) \X {"job", "observation", "audit"}

\* Fault: the audit event is saved before what it is about.
AuditFirst == <<"audit", "job", "observation">>
SaveOrder == <<"job", "observation", "audit">>

Doing(pc, move, at) == [pc |-> pc, move |-> move, at |-> at, payload |-> {}]
Resting == Doing("idle", 0, 1)
RowOf(t) == <<thread[t].move, SaveOrder[thread[t].at]>>

\* Fault: the file is written outside the lock.
Unguarded(t) == TRUE

\* RLock: no other thread of the process is between its change and its write.
Unlocked(t) == \A u \in Threads : Home[u] = Home[t] => thread[u].pc \notin {"open", "write"}

Init ==
    /\ file = [rows |-> {}, by |-> "nobody", whole |-> TRUE]
    /\ up = {}
    /\ snap = [p \in Processes |-> {}]
    /\ thread = [t \in Threads |-> Resting]
    /\ raced = {}
    /\ moves = 0 /\ mishaps = 0
    /\ kept = [p \in Processes |-> {}]

(* _load: a file that is no JSON ends the start of the process.             *)
Start(p) ==
    /\ p \notin up
    /\ file.whole
    /\ up' = up \cup {p}
    /\ snap' = [snap EXCEPT ![p] = file.rows]
    /\ kept' = [kept EXCEPT ![p] = file.rows]
    /\ UNCHANGED <<file, thread, raced, moves, mishaps>>

Move(t) ==
    /\ Home[t] \in up
    /\ thread[t].pc = "idle"
    /\ moves < MaxMoves
    /\ moves' = moves + 1
    /\ thread' = [thread EXCEPT ![t] = Doing("save", moves + 1, 1)]
    /\ UNCHANGED <<file, up, snap, raced, mishaps, kept>>

(* The change of the snapshot, and the text to write.                       *)
Save(t) ==
    LET p == Home[t]
    IN /\ thread[t].pc = "save"
       /\ Unlocked(t)
       /\ snap' = [snap EXCEPT ![p] = @ \cup {RowOf(t)}]
       /\ thread' = [thread EXCEPT ![t].pc = "open", ![t].payload = snap[p] \cup {RowOf(t)}]
       /\ UNCHANGED <<file, up, raced, moves, mishaps, kept>>

(* Processes other than p that are writing.                                 *)
OtherWriters(p) == {q \in Processes \ {p} : \E u \in Threads : Home[u] = q /\ thread[u].pc = "write"}

(* write_text opens the file, which empties it ...                          *)
Open(t) ==
    /\ thread[t].pc = "open"
    /\ file' = [file EXCEPT !.whole = FALSE]
    /\ raced' = raced \cup OtherWriters(Home[t])
    /\ thread' = [thread EXCEPT ![t].pc = "write"]
    /\ UNCHANGED <<up, snap, moves, mishaps, kept>>

AfterWrite(t) == IF thread[t].at = 3 THEN Resting ELSE Doing("save", thread[t].move, thread[t].at + 1)

(* ... and writes the text; two that write at once may leave a mixture.     *)
Write(t) ==
    LET p == Home[t]
    IN /\ thread[t].pc = "write"
       /\ \E whole \in BOOLEAN : /\ p \notin raced => whole
                                 /\ file' = [rows |-> thread[t].payload, by |-> p, whole |-> whole]
       /\ raced' = (raced \ {p}) \cup OtherWriters(p)
       /\ kept' = [kept EXCEPT ![p] = @ \cup {RowOf(t)}]
       /\ thread' = [thread EXCEPT ![t] = AfterWrite(t)]
       /\ UNCHANGED <<up, snap, moves, mishaps>>

(* The write raises: the move is given up half way, the snapshot keeps the  *)
(* change.                                                                  *)
WriteFails(t) ==
    /\ thread[t].pc \in {"open", "write"}
    /\ mishaps < MaxMishaps
    /\ mishaps' = mishaps + 1
    /\ raced' = raced \ {Home[t]}
    /\ thread' = [thread EXCEPT ![t] = Resting]
    /\ UNCHANGED <<file, up, snap, moves, kept>>

\* Fault: the threads outlive their process.
CrashLeavesThreads(p) ==
    /\ p \in up
    /\ mishaps < MaxMishaps
    /\ mishaps' = mishaps + 1
    /\ up' = up \ {p}
    /\ UNCHANGED <<file, snap, thread, raced, moves, kept>>

Crash(p) ==
    /\ p \in up
    /\ mishaps < MaxMishaps
    /\ mishaps' = mishaps + 1
    /\ up' = up \ {p}
    /\ raced' = raced \ {p}
    /\ thread' = [t \in Threads |-> IF Home[t] = p THEN Resting ELSE thread[t]]
    /\ UNCHANGED <<file, snap, moves, kept>>

Next ==
    \/ \E p \in Processes : Start(p) \/ Crash(p)
    \/ \E t \in Threads : Move(t) \/ Save(t) \/ Open(t) \/ Write(t) \/ WriteFails(t)

Spec == Init /\ [][Next]_vars

-----------------------------------------------------------------------------
(* The variables keep their types, and only running processes have threads  *)
(* at work.                                                                 *)
TypeOK ==
    /\ file \in [rows : SUBSET Rows, by : Processes \cup {"nobody"}, whole : BOOLEAN]
    /\ up \subseteq Processes
    /\ snap \in [Processes -> SUBSET Rows]
    /\ thread \in [Threads -> [pc : {"idle", "save", "open", "write"}, move : 0..MaxMoves,
                               at : Saves, payload : SUBSET Rows]]
    /\ \A t \in Threads : thread[t].pc # "idle" => Home[t] \in up /\ thread[t].move # 0
    /\ raced \subseteq Processes
    /\ moves \in 0..MaxMoves /\ mishaps \in 0..MaxMishaps
    /\ kept \in [Processes -> SUBSET Rows]

(* Whenever the file can be read, it holds all that the process which wrote *)
(* it last had loaded and has saved since, whichever of its threads saved   *)
(* it, and whatever failed or crashed meanwhile (the lock around _flush).   *)
OwnSavesStand == file.whole /\ file.by # "nobody" => kept[file.by] \subseteq file.rows

(* Wherever a process crashed and whichever save failed, no file and no     *)
(* snapshot tells of a move in the audit trail that the stored job did not  *)
(* make (_transition saves the job first and the audit event last).         *)
Told(rows) ==
    \A m \in 1..MaxMoves :
        /\ <<m, "audit">> \in rows => <<m, "observation">> \in rows
        /\ <<m, "observation">> \in rows => <<m, "job">> \in rows
TrailOrdered == Told(file.rows) /\ \A p \in Processes : Told(snap[p])

(* "File-backed repository for restart-safe [...] persistence": a process   *)
(* can start unless the file is being written at that moment.               *)
RestartSafe == file.whole \/ \E t \in Threads : thread[t].pc = "write"

(* What any process saved stays in the file.                                *)
AllSavesStand == file.whole => \A p \in Processes : kept[p] \subseteq file.rows
=============================================================================
