----------------------- MODULE SharedRepository_proofs -----------------------
(***************************************************************************)
(* Proofs about SharedRepository for every set of processes and threads    *)
(* and any number of moves, crashes and failing writes.                    *)
(***************************************************************************)
EXTENDS SharedRepository, TLAPS

USE RepositoryAssumption

\* A row in the making is a row.
LEMMA RowOfType == TypeOK => \A t \in Threads : thread[t].pc # "idle" => RowOf(t) \in Rows
  BY DEF TypeOK, RowOf, Rows, Saves, SaveOrder

\* The repository's state keeps its types, and threads work only in processes
\* that run.
THEOREM TypeCorrect == Spec => []TypeOK
<1>1. Init => TypeOK
  BY DEF Init, TypeOK, Resting, Doing, Saves, Rows
<1>2. TypeOK /\ [Next]_vars => TypeOK'
  <2> SUFFICES ASSUME TypeOK, [Next]_vars PROVE TypeOK'
    OBVIOUS
  <2> USE DEF TypeOK, Saves
  <2>1. ASSUME NEW p \in Processes, Start(p) PROVE TypeOK'
    BY <2>1 DEF Start
  <2>2. ASSUME NEW p \in Processes, Crash(p) PROVE TypeOK'
    BY <2>2 DEF Crash, Resting, Doing
  <2>3. ASSUME NEW t \in Threads, Move(t) PROVE TypeOK'
    <3>1. thread' = [thread EXCEPT ![t] = Doing("save", moves + 1, 1)]
      BY <2>3 DEF Move
    <3>2. moves + 1 \in 1..MaxMoves
      BY <2>3 DEF Move
    <3>3. Doing("save", moves + 1, 1) \in [pc : {"idle", "save", "open", "write"}, move : 0..MaxMoves,
                                           at : Saves, payload : SUBSET Rows]
      BY <3>2 DEF Doing
    <3>4. Doing("save", moves + 1, 1).move # 0
      BY <3>2 DEF Doing
    <3> QED
      BY <2>3, <3>1, <3>2, <3>3, <3>4 DEF Move
  <2>4. ASSUME NEW t \in Threads, Save(t) PROVE TypeOK'
    <3>1. RowOf(t) \in Rows /\ Home[t] \in Processes
      BY <2>4, RowOfType DEF Save
    <3>2. snap[Home[t]] \cup {RowOf(t)} \in SUBSET Rows
      BY <3>1
    <3>3. snap' \in [Processes -> SUBSET Rows]
      BY <2>4, <3>1, <3>2 DEF Save
    <3>4. thread' = [thread EXCEPT ![t].pc = "open",
                                   ![t].payload = snap[Home[t]] \cup {RowOf(t)}]
      BY <2>4 DEF Save
    <3>5. thread' \in [Threads -> [pc : {"idle", "save", "open", "write"}, move : 0..MaxMoves,
                                   at : Saves, payload : SUBSET Rows]]
      <4>1. [[thread[t] EXCEPT !.pc = "open"] EXCEPT !.payload = snap[Home[t]] \cup {RowOf(t)}]
              \in [pc : {"idle", "save", "open", "write"}, move : 0..MaxMoves,
                   at : Saves, payload : SUBSET Rows]
        BY <3>2
      <4>2. thread' = [thread EXCEPT ![t] =
                         [[thread[t] EXCEPT !.pc = "open"]
                            EXCEPT !.payload = snap[Home[t]] \cup {RowOf(t)}]]
        BY <3>4
      <4> QED
        BY <4>1, <4>2
    <3>6. \A u \in Threads : thread'[u].pc # "idle" => Home[u] \in up' /\ thread'[u].move # 0
      BY <2>4, <3>4 DEF Save
    <3> QED
      BY <2>4, <3>3, <3>5, <3>6 DEF Save
  <2>5. ASSUME NEW t \in Threads, Open(t) PROVE TypeOK'
    BY <2>5 DEF Open, OtherWriters
  <2>6. ASSUME NEW t \in Threads, Write(t) PROVE TypeOK'
    <3>1. RowOf(t) \in Rows /\ Home[t] \in Processes
      BY <2>6, RowOfType DEF Write
    <3>2. OtherWriters(Home[t]) \subseteq Processes
      BY DEF OtherWriters
    <3>3. thread' = [thread EXCEPT ![t] = AfterWrite(t)]
      BY <2>6 DEF Write
    <3>4. /\ AfterWrite(t) \in [pc : {"idle", "save", "open", "write"}, move : 0..MaxMoves,
                              at : Saves, payload : SUBSET Rows]
          /\ AfterWrite(t).pc # "idle" => Home[t] \in up /\ AfterWrite(t).move # 0
      <4>1. CASE thread[t].at = 3
        BY <4>1 DEF AfterWrite, Resting, Doing
      <4>2. CASE thread[t].at # 3
        BY <4>2, <2>6 DEF AfterWrite, Doing, Write
      <4> QED
        BY <4>1, <4>2
    <3>6. file'.rows \subseteq Rows /\ file' \in [rows : SUBSET Rows, by : Processes \cup {"nobody"}, whole : BOOLEAN]
      BY <2>6, <3>1 DEF Write
    <3>7. kept' \in [Processes -> SUBSET Rows] /\ raced' \subseteq Processes
      BY <2>6, <3>1, <3>2 DEF Write
    <3> QED
      BY <2>6, <3>3, <3>4, <3>6, <3>7 DEF Write
  <2>7. ASSUME NEW t \in Threads, WriteFails(t) PROVE TypeOK'
    BY <2>7 DEF WriteFails, Resting, Doing
  <2>8. CASE UNCHANGED vars
    BY <2>8 DEF vars
  <2> QED
    BY <2>1, <2>2, <2>3, <2>4, <2>5, <2>6, <2>7, <2>8 DEF Next
<1> QED
  BY <1>1, <1>2, PTL DEF Spec

-----------------------------------------------------------------------------
\* The lock of a process admits one thread between its change and its write.
Flushing(t) == thread[t].pc \in {"open", "write"}
OneFlush == \A t, u \in Threads : Flushing(t) /\ Flushing(u) /\ Home[t] = Home[u] => t = u

\* So the text a thread is about to write is the snapshot of its process.
TextIsSnapshot == \A t \in Threads : Flushing(t) =>
                    thread[t].payload = snap[Home[t]] /\ RowOf(t) \in thread[t].payload

\* The snapshot has all that was loaded and saved.
KeptInMemory == \A p \in Processes : kept[p] \subseteq snap[p]

\* The inductive invariant of OwnSavesStand.
FileInv == TypeOK /\ OneFlush /\ TextIsSnapshot /\ KeptInMemory /\ OwnSavesStand

\* Nothing is written at first.
LEMMA InitFileInv == Init => OneFlush /\ TextIsSnapshot /\ KeptInMemory /\ OwnSavesStand
  BY DEF Init, Resting, Doing, OneFlush, TextIsSnapshot, KeptInMemory, OwnSavesStand, Flushing

\* Each step keeps the text of a flush equal to the snapshot.
LEMMA NextFileInv == FileInv /\ TypeOK' /\ [Next]_vars => FileInv'
<1> SUFFICES ASSUME FileInv, TypeOK', [Next]_vars
             PROVE  OneFlush' /\ TextIsSnapshot' /\ KeptInMemory' /\ OwnSavesStand'
  BY DEF FileInv
<1> USE DEF FileInv, TypeOK, OneFlush, TextIsSnapshot, KeptInMemory, OwnSavesStand, Flushing, Resting, Doing
<1>1. ASSUME NEW p \in Processes, Start(p)
      PROVE  OneFlush' /\ TextIsSnapshot' /\ KeptInMemory' /\ OwnSavesStand'
  <2>1. \A t \in Threads : Home[t] = p => ~Flushing(t)
    BY <1>1 DEF Start
  <2>2. OneFlush' /\ KeptInMemory' /\ OwnSavesStand'
    BY <1>1 DEF Start
  <2>3. TextIsSnapshot'
    BY <1>1, <2>1 DEF Start, RowOf
  <2> QED
    BY <2>2, <2>3
<1>2. ASSUME NEW p \in Processes, Crash(p)
      PROVE  OneFlush' /\ TextIsSnapshot' /\ KeptInMemory' /\ OwnSavesStand'
  BY <1>2 DEF Crash, RowOf
<1>3. ASSUME NEW t \in Threads, Move(t)
      PROVE  OneFlush' /\ TextIsSnapshot' /\ KeptInMemory' /\ OwnSavesStand'
  BY <1>3 DEF Move, RowOf
<1>4. ASSUME NEW t \in Threads, Save(t)
      PROVE  OneFlush' /\ TextIsSnapshot' /\ KeptInMemory' /\ OwnSavesStand'
  BY <1>4, SMTT(30) DEF Save, Unlocked, RowOf
<1>5. ASSUME NEW t \in Threads, Open(t)
      PROVE  OneFlush' /\ TextIsSnapshot' /\ KeptInMemory' /\ OwnSavesStand'
  <2>1. \A u \in Threads : /\ thread'[u].payload = thread[u].payload
                            /\ thread'[u].move = thread[u].move /\ thread'[u].at = thread[u].at
                            /\ thread'[u].pc \in {"open", "write"} <=> thread[u].pc \in {"open", "write"}
    BY <1>5 DEF Open
  <2>2. OneFlush' /\ TextIsSnapshot'
    BY <1>5, <2>1, SMTT(30) DEF Open, RowOf
  <2>3. KeptInMemory' /\ OwnSavesStand'
    BY <1>5 DEF Open
  <2> QED
    BY <2>2, <2>3
<1>6. ASSUME NEW t \in Threads, Write(t)
      PROVE  OneFlush' /\ TextIsSnapshot' /\ KeptInMemory' /\ OwnSavesStand'
  <2>1. /\ ~Flushing(t)'
        /\ \A u \in Threads \ {t} : thread'[u] = thread[u]
    <3>1. thread' = [thread EXCEPT ![t] = AfterWrite(t)]
      BY <1>6 DEF Write
    <3>2. AfterWrite(t).pc \notin {"open", "write"}
      BY DEF AfterWrite
    <3> QED
      BY <3>1, <3>2
  <2>2. \A u \in Threads \ {t} : Flushing(u)' = Flushing(u) /\ RowOf(u)' = RowOf(u)
    BY <2>1 DEF RowOf
  <2>3. OneFlush' /\ TextIsSnapshot'
    BY <1>6, <2>1, <2>2 DEF Write
  <2>4. kept' = [kept EXCEPT ![Home[t]] = @ \cup {RowOf(t)}]
    BY <1>6 DEF Write
  <2>5. thread[t].payload = snap[Home[t]] /\ RowOf(t) \in snap[Home[t]]
    BY <1>6 DEF Write
  <2>6. KeptInMemory'
    BY <1>6, <2>4, <2>5 DEF Write
  <2>7. OwnSavesStand'
    BY <1>6, <2>4, <2>5 DEF Write
  <2> QED
    BY <2>3, <2>6, <2>7
<1>7. ASSUME NEW t \in Threads, WriteFails(t)
      PROVE  OneFlush' /\ TextIsSnapshot' /\ KeptInMemory' /\ OwnSavesStand'
  BY <1>7 DEF WriteFails, RowOf
<1>8. CASE UNCHANGED vars
  BY <1>8 DEF vars, RowOf
<1> QED
  BY <1>1, <1>2, <1>3, <1>4, <1>5, <1>6, <1>7, <1>8 DEF Next

\* A file that can be read holds what its last writer loaded and saved.
THEOREM SavesStand == Spec => []OwnSavesStand
<1>1. Init => FileInv
  BY InitFileInv, TypeCorrect DEF FileInv, Init, TypeOK, Resting, Doing, Saves, Rows
<1>2. FileInv => OwnSavesStand
  BY DEF FileInv
<1> QED
  BY <1>1, <1>2, NextFileInv, TypeCorrect, PTL DEF Spec

-----------------------------------------------------------------------------
\* Before a save its earlier ones are in the snapshot.
InOrder ==
    \A t \in Threads : thread[t].pc # "idle" =>
        LET rows == snap[Home[t]]
            m == thread[t].move
        IN /\ thread[t].at >= 2 => <<m, "job">> \in rows
           /\ thread[t].at = 3 => <<m, "observation">> \in rows

\* The inductive invariant of TrailOrdered.
TrailInv == FileInv /\ InOrder /\ TrailOrdered

\* A snapshot with one more row in its order still tells the truth.
LEMMA ToldOneMore ==
  ASSUME NEW rows, NEW m \in 1..MaxMoves, NEW at \in Saves,
         Told(rows),
         at >= 2 => <<m, "job">> \in rows,
         at = 3 => <<m, "observation">> \in rows
  PROVE  Told(rows \cup {<<m, SaveOrder[at]>>})
<1>1. CASE at = 1
  BY <1>1 DEF Told, SaveOrder
<1>2. CASE at = 2
  <2>1. SaveOrder[at] = "observation"
    BY <1>2 DEF SaveOrder
  <2>2. <<m, "job">> \in rows
    BY <1>2
  <2> SUFFICES ASSUME NEW n \in 1..MaxMoves
               PROVE  /\ <<n, "audit">> \in rows \cup {<<m, "observation">>}
                            => <<n, "observation">> \in rows \cup {<<m, "observation">>}
                      /\ <<n, "observation">> \in rows \cup {<<m, "observation">>}
                            => <<n, "job">> \in rows \cup {<<m, "observation">>}
    BY <2>1 DEF Told
  <2> QED
    BY <2>2 DEF Told
<1>3. CASE at = 3
  BY <1>3 DEF Told, SaveOrder
<1> QED
  BY <1>1, <1>2, <1>3 DEF Saves

\* Each step keeps the order of the trail.
LEMMA NextTrailInv == TrailInv /\ FileInv' /\ [Next]_vars => TrailInv'
<1> SUFFICES ASSUME TrailInv, FileInv', [Next]_vars PROVE InOrder' /\ TrailOrdered'
  BY DEF TrailInv
<1> USE DEF TrailInv, FileInv, TypeOK, InOrder, TrailOrdered, Resting, Doing, Saves
<1>1. ASSUME NEW p \in Processes, Start(p) PROVE InOrder' /\ TrailOrdered'
  BY <1>1 DEF Start, Told
<1>2. ASSUME NEW p \in Processes, Crash(p) PROVE InOrder' /\ TrailOrdered'
  BY <1>2 DEF Crash, Told
<1>3. ASSUME NEW t \in Threads, Move(t) PROVE InOrder' /\ TrailOrdered'
  BY <1>3 DEF Move, Told
<1>4. ASSUME NEW t \in Threads, Save(t) PROVE InOrder' /\ TrailOrdered'
  <2>1. Told(snap[Home[t]] \cup {RowOf(t)})
    <3>1. thread[t].move \in 1..MaxMoves /\ thread[t].at \in Saves /\ Told(snap[Home[t]])
      BY <1>4 DEF Save
    <3>2. /\ thread[t].at >= 2 => <<thread[t].move, "job">> \in snap[Home[t]]
          /\ thread[t].at = 3 => <<thread[t].move, "observation">> \in snap[Home[t]]
      BY <1>4 DEF Save
    <3> QED
      BY <3>1, <3>2, ToldOneMore DEF RowOf
  <2>2. \A p \in Processes : snap'[p] = IF p = Home[t] THEN snap[p] \cup {RowOf(t)} ELSE snap[p]
    BY <1>4 DEF Save
  <2>3. TrailOrdered'
    BY <1>4, <2>1, <2>2 DEF Save, Told
  <2>4. InOrder'
    <3>1. \A u \in Threads : thread'[u].move = thread[u].move /\ thread'[u].at = thread[u].at
                              /\ (thread'[u].pc # "idle" => thread[u].pc # "idle")
      BY <1>4 DEF Save
    <3> QED
      BY <2>2, <3>1
  <2> QED
    BY <2>3, <2>4
<1>5. ASSUME NEW t \in Threads, Open(t) PROVE InOrder' /\ TrailOrdered'
  BY <1>5 DEF Open, Told
<1>6. ASSUME NEW t \in Threads, Write(t) PROVE InOrder' /\ TrailOrdered'
  <2>1. thread[t].payload = snap[Home[t]] /\ RowOf(t) \in snap[Home[t]]
    BY <1>6 DEF Write, TextIsSnapshot, Flushing
  <2>2. thread' = [thread EXCEPT ![t] = AfterWrite(t)] /\ snap' = snap
    BY <1>6 DEF Write
  <2>3. thread[t].at \in {1, 2, 3}
    BY <1>6 DEF Write
  <2>4. AfterWrite(t).pc # "idle" =>
            /\ AfterWrite(t).at >= 2 => <<AfterWrite(t).move, "job">> \in snap[Home[t]]
            /\ AfterWrite(t).at = 3 => <<AfterWrite(t).move, "observation">> \in snap[Home[t]]
    <3>1. CASE thread[t].at = 1
      <4>1. AfterWrite(t) = Doing("save", thread[t].move, 2)
        BY <3>1 DEF AfterWrite
      <4>2. <<thread[t].move, "job">> \in snap[Home[t]]
        BY <3>1, <2>1 DEF RowOf, SaveOrder
      <4> QED
        BY <4>1, <4>2 DEF Doing
    <3>2. CASE thread[t].at = 2
      <4>1. AfterWrite(t) = Doing("save", thread[t].move, 3)
        BY <3>2 DEF AfterWrite
      <4>2. <<thread[t].move, "observation">> \in snap[Home[t]] /\ <<thread[t].move, "job">> \in snap[Home[t]]
        BY <3>2, <2>1, <1>6 DEF RowOf, SaveOrder, Write
      <4> QED
        BY <4>1, <4>2 DEF Doing
    <3>3. CASE thread[t].at = 3
      BY <3>3 DEF AfterWrite, Resting, Doing
    <3> QED
      BY <2>3, <3>1, <3>2, <3>3
  <2>5. InOrder'
    <3> SUFFICES ASSUME NEW u \in Threads, thread'[u].pc # "idle"
                 PROVE  /\ thread'[u].at >= 2 => <<thread'[u].move, "job">> \in snap[Home[u]]
                        /\ thread'[u].at = 3 => <<thread'[u].move, "observation">> \in snap[Home[u]]
      BY <2>2
    <3>1. CASE u = t
      BY <2>2, <2>4, <3>1
    <3>2. CASE u # t
      BY <2>2, <3>2
    <3> QED
      BY <3>1, <3>2
  <2>6. TrailOrdered'
    <3>1. file'.rows = snap[Home[t]] /\ Home[t] \in Processes
      BY <1>6, <2>1 DEF Write
    <3>2. \A p \in Processes : Told(snap[p])
      OBVIOUS
    <3> QED
      BY <2>2, <3>1, <3>2 DEF Told
  <2> QED
    BY <2>5, <2>6
<1>7. ASSUME NEW t \in Threads, WriteFails(t) PROVE InOrder' /\ TrailOrdered'
  BY <1>7 DEF WriteFails, Told
<1>8. CASE UNCHANGED vars
  BY <1>8 DEF vars, Told
<1> QED
  BY <1>1, <1>2, <1>3, <1>4, <1>5, <1>6, <1>7, <1>8 DEF Next

\* No file and no snapshot is ahead of the moves it tells of.
THEOREM TrailStands == Spec => []TrailOrdered
<1>1. Init => TrailInv
  BY InitFileInv DEF TrailInv, FileInv, InOrder, TrailOrdered, Told, Init, TypeOK, Resting, Doing, Saves, Rows
<1>2. FileInv /\ TypeOK' /\ [Next]_vars => FileInv'
  BY NextFileInv
<1>3. TrailInv => TrailOrdered /\ FileInv
  BY DEF TrailInv
<1> QED
  BY <1>1, <1>2, <1>3, NextTrailInv, TypeCorrect, PTL DEF Spec
=============================================================================
