-------------------------- MODULE PlanBindingProofs --------------------------
(***************************************************************************)
(* Proofs about PlanBinding for any files, contents, reading orders and    *)
(* any number of executes and edits.  What carries them: as long as nobody *)
(* edits, what a process has read so far is what is on disk, so its store  *)
(* and its fingerprint agree when it has read everything twice; and the    *)
(* context of the record, and of every copy, is the planner's fingerprint. *)
(***************************************************************************)
EXTENDS PlanBinding, TLAPS

\* What has been read of an order at position n.
ReadUpTo(snapshot, order, n) ==
    \A i \in 1..Len(order) : i < n => snapshot[order[i]] = disk[order[i]]

PositionInv ==
    \A p \in Process :
        /\ at[p] >= 1
        /\ pc[p] = "load" => at[p] <= Len(LoadOrder)
        /\ pc[p] = "hash" => at[p] <= Len(HashOrder)
        /\ pc[p] \in {"idle", "resolve"} => at[p] = 1

Read(p) == pc[p] \in {"record", "planned", "decide", "mark", "accepted",
                      "stale_plan_context", "plan_already_committed"}

Current(p) ==
    /\ pc[p] = "load" => ReadUpTo(loaded[p], LoadOrder, at[p])
    /\ pc[p] \in {"resolve", "hash"} => loaded[p] = disk
    /\ pc[p] = "hash" => ReadUpTo(hashed[p], HashOrder, at[p])
    /\ Read(p) => hashed[p] = loaded[p]

ReadingInv == \A p \in Process : ~disturbed[p] => Current(p)

RecordInv ==
    /\ pc["planner"] \in {"idle", "load", "hash", "record", "planned",
                          "config_error", "store_error", "crashed"}
    /\ record.status # "absent" => /\ pc["planner"] = "planned"
                                   /\ record.context = hashed["planner"]
    /\ pc["planner"] = "planned" => record.status # "absent"
    /\ \A e \in Executor :
          /\ copy[e].status # "absent" =>
                 /\ pc["planner"] = "planned"
                 /\ copy[e].context = hashed["planner"]
          /\ pc[e] \in {"hash", "decide"} \/ Compared(e) =>
                 copy[e].status # "absent"
          /\ pc[e] \notin {"record", "planned"}
          /\ pc[e] \notin {"idle", "crashed"} => pc["planner"] = "planned"

DecisionInv ==
    \A e \in Executor : Compared(e) => (Bound(e) <=> ContextMatches(e))

LateInv ==
    \A e \in Executor :
        late[e] => /\ record.status = "committed"
                   /\ pc[e] \in {"hash", "decide"} =>
                          copy[e].status = "committed"
                   /\ pc[e] \notin {"mark", "accepted"}

BindingInv ==
    /\ TypeOK
    /\ PositionInv
    /\ ReadingInv
    /\ RecordInv
    /\ DecisionInv
    /\ LateInv

-----------------------------------------------------------------------------
USE DEF Process, Goto

\* What FilesAssumption says of the positions of the two orders.
LEMMA Orders ==
  /\ "planner" \in Process /\ "planner" \notin Executor
  /\ Executor \subseteq Process
  /\ Len(LoadOrder) \in Nat /\ Len(LoadOrder) >= 1
  /\ Len(HashOrder) \in Nat /\ Len(HashOrder) >= 1
  /\ LoadOrder \in Seq(File) /\ HashOrder \in Seq(File)
<1>1. ASSUME NEW order, Enumerates(order)
      PROVE  /\ Len(order) \in Nat /\ Len(order) >= 1
             /\ order \in Seq(File)
  <2>1. PICK f \in File : TRUE
    BY FilesAssumption
  <2>2. PICK i \in 1..Len(order) : order[i] = f
    BY <1>1, <2>1 DEF Enumerates
  <2>3. order \in Seq(File)
    BY <1>1 DEF Enumerates
  <2> QED BY <2>2, <2>3
<1> QED BY <1>1, FilesAssumption

\* Whoever has read a whole order holds what is on disk.
LEMMA ReadAll ==
  ASSUME NEW order, Enumerates(order), NEW snapshot \in Snapshot,
         disk \in Snapshot, ReadUpTo(snapshot, order, Len(order) + 1)
  PROVE  snapshot = disk
<1>1. ASSUME NEW f \in File
      PROVE  snapshot[f] = disk[f]
  <2>1. PICK i \in 1..Len(order) : order[i] = f
    BY DEF Enumerates
  <2>2. i < Len(order) + 1
    BY DEF Enumerates
  <2> QED BY <2>1, <2>2 DEF ReadUpTo
<1> QED BY <1>1 DEF Snapshot

\* Reading one more file of an order keeps what was read current.
LEMMA ReadOneMore ==
  ASSUME NEW order, order \in Seq(File), NEW snapshot \in Snapshot,
         disk \in Snapshot, NEW n \in 1..Len(order)
  PROVE  /\ [snapshot EXCEPT ![order[n]] = disk[order[n]]] \in Snapshot
         /\ ReadUpTo(snapshot, order, n) =>
              ReadUpTo([snapshot EXCEPT ![order[n]] = disk[order[n]]],
                       order, n + 1)
<1>1. order[n] \in File
  OBVIOUS
<1>2. [snapshot EXCEPT ![order[n]] = disk[order[n]]] \in Snapshot
  BY <1>1 DEF Snapshot
<1>3. ASSUME ReadUpTo(snapshot, order, n), NEW i \in 1..Len(order), i < n + 1
      PROVE  [snapshot EXCEPT ![order[n]] = disk[order[n]]][order[i]]
                = disk[order[i]]
  <2>1. order[i] \in File
    OBVIOUS
  <2>2. i < n \/ i = n
    BY <1>3
  <2>3. CASE i = n
    BY <2>3, <2>1 DEF Snapshot
  <2>4. CASE i < n
    <3>1. snapshot[order[i]] = disk[order[i]]
      BY <1>3, <2>4 DEF ReadUpTo
    <3> QED BY <3>1, <2>1 DEF Snapshot
  <2> QED BY <2>2, <2>3, <2>4
<1> QED BY <1>2, <1>3 DEF ReadUpTo

\* The types survive a step.
LEMMA TypeStep ==
  ASSUME TypeOK, PositionInv, [Next]_vars
  PROVE  TypeOK'
<1>1. ASSUME NEW p \in Process, Begin(p)
      PROVE  TypeOK'
  BY <1>1, Orders DEF TypeOK, Record, Pc, Refused, local, Begin
<1>2. ASSUME NEW p \in Process, Load(p)
      PROVE  TypeOK'
  <2>1. at[p] \in 1..Len(LoadOrder) /\ LoadOrder \in Seq(File)
    BY <1>2, Orders DEF TypeOK, PositionInv, Load, ReadNext
  <2>2. [loaded[p] EXCEPT ![LoadOrder[at[p]]] = disk[LoadOrder[at[p]]]] \in Snapshot
    BY <2>1, ReadOneMore DEF TypeOK
  <2>3. loaded' \in [Process -> Snapshot]
    BY <1>2, <2>2 DEF TypeOK, Load
  <2>4. at' \in [Process -> Nat]
    BY <1>2, <2>1 DEF TypeOK, Load, ReadNext
  <2>5. pc' \in [Process -> Pc]
    BY <1>2 DEF TypeOK, Pc, Refused, Load, ReadNext
  <2>6. UNCHANGED <<disk, edits, record, hashed, copy, late, disturbed>>
    BY <1>2 DEF Load
  <2> QED BY <2>3, <2>4, <2>5, <2>6 DEF TypeOK
<1>3. ASSUME NEW p \in Process, LoadFails(p)
      PROVE  TypeOK'
  BY <1>3, Orders DEF TypeOK, Record, Pc, Refused, local, LoadFails
<1>4. ASSUME NEW p \in Process, Hash(p)
      PROVE  TypeOK'
  <2>1. at[p] \in 1..Len(HashOrder) /\ HashOrder \in Seq(File)
    BY <1>4, Orders DEF TypeOK, PositionInv, Hash, ReadNext
  <2>2. [hashed[p] EXCEPT ![HashOrder[at[p]]] = disk[HashOrder[at[p]]]] \in Snapshot
    BY <2>1, ReadOneMore DEF TypeOK
  <2>3. hashed' \in [Process -> Snapshot]
    BY <1>4, <2>2 DEF TypeOK, Hash
  <2>4. at' \in [Process -> Nat]
    BY <1>4, <2>1 DEF TypeOK, Hash, ReadNext
  <2>5. pc' \in [Process -> Pc]
    BY <1>4 DEF TypeOK, Pc, Refused, Hash, ReadNext
  <2>6. UNCHANGED <<disk, edits, record, loaded, copy, late, disturbed>>
    BY <1>4 DEF Hash
  <2> QED BY <2>3, <2>4, <2>5, <2>6 DEF TypeOK
<1>5. ASSUME NEW p \in Process, WriteFails(p)
      PROVE  TypeOK'
  BY <1>5, Orders DEF TypeOK, Record, Pc, Refused, local, WriteFails
<1>6. ASSUME NEW p \in Process, Crash(p)
      PROVE  TypeOK'
  BY <1>6, Orders DEF TypeOK, Record, Pc, Refused, local, Crash
<1>7. ASSUME RecordPlan
      PROVE  TypeOK'
  BY <1>7, Orders DEF TypeOK, Record, Pc, Refused, local, RecordPlan
<1>8. ASSUME NEW e \in Executor, Resolve(e)
      PROVE  TypeOK'
  BY <1>8, Orders DEF TypeOK, Record, Pc, Refused, local, Resolve
<1>9. ASSUME NEW e \in Executor, Decide(e)
      PROVE  TypeOK'
  BY <1>9, Orders DEF TypeOK, Record, Pc, Refused, local, Decide
<1>10. ASSUME NEW e \in Executor, MarkCommitted(e)
      PROVE  TypeOK'
  BY <1>10, Orders DEF TypeOK, Record, Pc, Refused, local, MarkCommitted
<1>11. ASSUME NEW f \in File, NEW c \in Content, Edit(f, c)
      PROVE  TypeOK'
  <2>1. disk' \in Snapshot
    BY <1>11 DEF TypeOK, Snapshot, Edit
  <2>2. edits' \in 0..MaxEdits
    BY <1>11, FilesAssumption DEF TypeOK, Edit
  <2> QED BY <1>11, <2>1, <2>2 DEF TypeOK, Edit, local, Reading
<1>12. CASE UNCHANGED vars
  BY <1>12 DEF TypeOK, vars, local
<1> QED
  BY <1>1, <1>2, <1>3, <1>4, <1>5, <1>6, <1>7, <1>8, <1>9, <1>10, <1>11, <1>12 DEF Next

\* So do the positions.
LEMMA PositionStep ==
  ASSUME TypeOK, PositionInv, [Next]_vars
  PROVE  PositionInv'
<1>1. ASSUME NEW p \in Process, Begin(p)
      PROVE  PositionInv'
  BY <1>1, Orders DEF TypeOK, PositionInv, Pc, Refused, local, Begin
<1>2. ASSUME NEW p \in Process, Load(p)
      PROVE  PositionInv'
  BY <1>2, Orders DEF TypeOK, PositionInv, Pc, Refused, local, Load, ReadNext
<1>3. ASSUME NEW p \in Process, LoadFails(p)
      PROVE  PositionInv'
  BY <1>3, Orders DEF TypeOK, PositionInv, Pc, Refused, local, LoadFails
<1>4. ASSUME NEW p \in Process, Hash(p)
      PROVE  PositionInv'
  BY <1>4, Orders DEF TypeOK, PositionInv, Pc, Refused, local, Hash, ReadNext
<1>5. ASSUME NEW p \in Process, WriteFails(p)
      PROVE  PositionInv'
  BY <1>5, Orders DEF TypeOK, PositionInv, Pc, Refused, local, WriteFails
<1>6. ASSUME NEW p \in Process, Crash(p)
      PROVE  PositionInv'
  BY <1>6, Orders DEF TypeOK, PositionInv, Pc, Refused, local, Crash
<1>7. ASSUME RecordPlan
      PROVE  PositionInv'
  BY <1>7, Orders DEF TypeOK, PositionInv, Pc, Refused, local, RecordPlan
<1>8. ASSUME NEW e \in Executor, Resolve(e)
      PROVE  PositionInv'
  BY <1>8, Orders DEF TypeOK, PositionInv, Pc, Refused, local, Resolve
<1>9. ASSUME NEW e \in Executor, Decide(e)
      PROVE  PositionInv'
  BY <1>9, Orders DEF TypeOK, PositionInv, Pc, Refused, local, Decide
<1>10. ASSUME NEW e \in Executor, MarkCommitted(e)
      PROVE  PositionInv'
  BY <1>10, Orders DEF TypeOK, PositionInv, Pc, Refused, local, MarkCommitted
<1>11. ASSUME NEW f \in File, NEW c \in Content, Edit(f, c)
      PROVE  PositionInv'
  BY <1>11, Orders DEF TypeOK, PositionInv, Pc, Refused, local, Edit
<1>12. CASE UNCHANGED vars
  BY <1>12 DEF PositionInv, vars, local
<1> QED
  BY <1>1, <1>2, <1>3, <1>4, <1>5, <1>6, <1>7, <1>8, <1>9, <1>10, <1>11, <1>12 DEF Next

(* As long as nobody edits, what a process has read so far stays current;  *)
(* an edit disturbs whoever has read something of what it compares.        *)
LEMMA ReadingStep ==
  ASSUME TypeOK, PositionInv, ReadingInv, [Next]_vars
  PROVE  ReadingInv'
<1>1. ASSUME NEW p \in Process, Begin(p)
      PROVE  ReadingInv'
  <2> SUFFICES ASSUME NEW q \in Process, ~disturbed'[q]
               PROVE  Current(q)'
    BY DEF ReadingInv
  <2>1. Current(q)
    BY <1>1 DEF TypeOK, ReadingInv, Begin
  <2>2. CASE q # p
    BY <1>1, <2>1, <2>2, Orders DEF TypeOK, Current, ReadUpTo, Read, Begin
  <2>3. CASE q = p
    BY <1>1, <2>1, <2>3, Orders
       DEF TypeOK, PositionInv, Current, ReadUpTo, Read, Begin
  <2> QED BY <2>2, <2>3
<1>2. ASSUME NEW p \in Process, Load(p)
      PROVE  ReadingInv'
  <2> SUFFICES ASSUME NEW q \in Process, ~disturbed'[q]
               PROVE  Current(q)'
    BY DEF ReadingInv
  <2>1. Current(q)
    BY <1>2 DEF TypeOK, ReadingInv, Load
  <2>2. CASE q # p
    BY <1>2, <2>1, <2>2 DEF TypeOK, Current, ReadUpTo, Read, Load, ReadNext
  <2>3. CASE q = p
    <3>1. at[p] \in 1..Len(LoadOrder) /\ LoadOrder \in Seq(File)
      BY <1>2, Orders DEF TypeOK, PositionInv, Load, ReadNext
    <3>2. ReadUpTo(loaded[p], LoadOrder, at[p])
      BY <1>2, <2>1, <2>3 DEF Current, Load, ReadNext
    <3> DEFINE one == [loaded[p] EXCEPT ![LoadOrder[at[p]]] =
                                          disk[LoadOrder[at[p]]]]
    <3>3. one \in Snapshot /\ ReadUpTo(one, LoadOrder, at[p] + 1)
      BY <3>1, <3>2, ReadOneMore DEF TypeOK
    <3>4. loaded'[p] = one
      BY <1>2 DEF TypeOK, Load
    <3>5. UNCHANGED <<disk, hashed>>
      BY <1>2 DEF Load
    <3> HIDE DEF one
    <3>6. CASE at[p] = Len(LoadOrder)
      <4>1. one = disk
        BY <3>3, <3>6, ReadAll, FilesAssumption DEF TypeOK
      <4>2. at'[p] = 1 /\ pc'[p] \in {"hash", "resolve"}
        BY <1>2, <3>6 DEF TypeOK, Load, ReadNext
      <4>3. TRUE
        BY <1>2, <2>1, <2>3, <3>5 DEF Current, Load, ReadNext
      <4> QED BY <2>3, <3>4, <3>5, <4>1, <4>2, <4>3, Orders
              DEF Current, ReadUpTo, Read
    <3>7. CASE at[p] # Len(LoadOrder)
      <4>1. at'[p] = at[p] + 1 /\ pc'[p] = "load" /\ pc[p] = "load"
        BY <1>2, <3>7 DEF TypeOK, Load, ReadNext
      <4> QED BY <2>1, <2>3, <3>3, <3>4, <3>5, <4>1
              DEF Current, ReadUpTo, Read
    <3> QED BY <3>6, <3>7
  <2> QED BY <2>2, <2>3
<1>3. ASSUME NEW p \in Process, LoadFails(p)
      PROVE  ReadingInv'
  <2> SUFFICES ASSUME NEW q \in Process, ~disturbed'[q]
               PROVE  Current(q)'
    BY DEF ReadingInv
  <2>1. Current(q)
    BY <1>3 DEF TypeOK, ReadingInv, LoadFails
  <2>2. CASE q # p
    BY <1>3, <2>1, <2>2, Orders DEF TypeOK, Current, ReadUpTo, Read, LoadFails
  <2>3. CASE q = p
    BY <1>3, <2>1, <2>3, Orders
       DEF TypeOK, PositionInv, Current, ReadUpTo, Read, LoadFails
  <2> QED BY <2>2, <2>3
<1>4. ASSUME NEW p \in Process, Hash(p)
      PROVE  ReadingInv'
  <2> SUFFICES ASSUME NEW q \in Process, ~disturbed'[q]
               PROVE  Current(q)'
    BY DEF ReadingInv
  <2>1. Current(q)
    BY <1>4 DEF TypeOK, ReadingInv, Hash
  <2>2. CASE q # p
    BY <1>4, <2>1, <2>2 DEF TypeOK, Current, ReadUpTo, Read, Hash, ReadNext
  <2>3. CASE q = p
    <3>1. at[p] \in 1..Len(HashOrder) /\ HashOrder \in Seq(File)
      BY <1>4, Orders DEF TypeOK, PositionInv, Hash, ReadNext
    <3>2. ReadUpTo(hashed[p], HashOrder, at[p])
      BY <1>4, <2>1, <2>3 DEF Current, Hash, ReadNext
    <3> DEFINE one == [hashed[p] EXCEPT ![HashOrder[at[p]]] =
                                          disk[HashOrder[at[p]]]]
    <3>3. one \in Snapshot /\ ReadUpTo(one, HashOrder, at[p] + 1)
      BY <3>1, <3>2, ReadOneMore DEF TypeOK
    <3>4. hashed'[p] = one
      BY <1>4 DEF TypeOK, Hash
    <3>5. UNCHANGED <<disk, loaded>>
      BY <1>4 DEF Hash
    <3> HIDE DEF one
    <3>6. CASE at[p] = Len(HashOrder)
      <4>1. one = disk
        BY <3>3, <3>6, ReadAll, FilesAssumption DEF TypeOK
      <4>2. at'[p] = 1 /\ pc'[p] \in {"record", "decide"}
        BY <1>4, <3>6 DEF TypeOK, Hash, ReadNext
      <4>3. loaded[p] = disk
        BY <1>4, <2>1, <2>3, <3>5 DEF Current, Hash, ReadNext
      <4> QED BY <2>3, <3>4, <3>5, <4>1, <4>2, <4>3, Orders
              DEF Current, ReadUpTo, Read
    <3>7. CASE at[p] # Len(HashOrder)
      <4>1. at'[p] = at[p] + 1 /\ pc'[p] = "hash" /\ pc[p] = "hash"
        BY <1>4, <3>7 DEF TypeOK, Hash, ReadNext
      <4> QED BY <2>1, <2>3, <3>3, <3>4, <3>5, <4>1
              DEF Current, ReadUpTo, Read
    <3> QED BY <3>6, <3>7
  <2> QED BY <2>2, <2>3
<1>5. ASSUME NEW p \in Process, WriteFails(p)
      PROVE  ReadingInv'
  <2> SUFFICES ASSUME NEW q \in Process, ~disturbed'[q]
               PROVE  Current(q)'
    BY DEF ReadingInv
  <2>1. Current(q)
    BY <1>5 DEF TypeOK, ReadingInv, WriteFails
  <2>2. CASE q # p
    BY <1>5, <2>1, <2>2, Orders DEF TypeOK, Current, ReadUpTo, Read, WriteFails
  <2>3. CASE q = p
    BY <1>5, <2>1, <2>3, Orders
       DEF TypeOK, PositionInv, Current, ReadUpTo, Read, WriteFails
  <2> QED BY <2>2, <2>3
<1>6. ASSUME NEW p \in Process, Crash(p)
      PROVE  ReadingInv'
  <2> SUFFICES ASSUME NEW q \in Process, ~disturbed'[q]
               PROVE  Current(q)'
    BY DEF ReadingInv
  <2>1. Current(q)
    BY <1>6 DEF TypeOK, ReadingInv, Crash
  <2>2. CASE q # p
    BY <1>6, <2>1, <2>2, Orders DEF TypeOK, Current, ReadUpTo, Read, Crash
  <2>3. CASE q = p
    BY <1>6, <2>1, <2>3, Orders
       DEF TypeOK, PositionInv, Current, ReadUpTo, Read, Crash
  <2> QED BY <2>2, <2>3
<1>7. ASSUME RecordPlan
      PROVE  ReadingInv'
  <2> SUFFICES ASSUME NEW q \in Process, ~disturbed'[q]
               PROVE  Current(q)'
    BY DEF ReadingInv
  <2>1. Current(q)
    BY <1>7 DEF TypeOK, ReadingInv, RecordPlan
  <2>2. CASE q # "planner"
    BY <1>7, <2>1, <2>2, Orders DEF TypeOK, Current, ReadUpTo, Read, RecordPlan
  <2>3. CASE q = "planner"
    BY <1>7, <2>1, <2>3, Orders
       DEF TypeOK, PositionInv, Current, ReadUpTo, Read, RecordPlan
  <2> QED BY <2>2, <2>3
<1>8. ASSUME NEW e \in Executor, Resolve(e)
      PROVE  ReadingInv'
  <2> SUFFICES ASSUME NEW q \in Process, ~disturbed'[q]
               PROVE  Current(q)'
    BY DEF ReadingInv
  <2>1. Current(q)
    BY <1>8 DEF TypeOK, ReadingInv, Resolve
  <2>2. CASE q # e
    BY <1>8, <2>1, <2>2, Orders DEF TypeOK, Current, ReadUpTo, Read, Resolve
  <2>3. CASE q = e
    <3>1. pc[q] = "resolve" /\ pc'[q] = "hash" /\ at[q] = 1
      BY <1>8, <2>3, Orders DEF TypeOK, PositionInv, Resolve
    <3>2. UNCHANGED <<disk, at, loaded, hashed>>
      BY <1>8 DEF Resolve
    <3> QED BY <2>1, <3>1, <3>2, Orders DEF Current, ReadUpTo, Read
  <2> QED BY <2>2, <2>3
<1>9. ASSUME NEW e \in Executor, Decide(e)
      PROVE  ReadingInv'
  <2> SUFFICES ASSUME NEW q \in Process, ~disturbed'[q]
               PROVE  Current(q)'
    BY DEF ReadingInv
  <2>1. Current(q)
    BY <1>9 DEF TypeOK, ReadingInv, Decide
  <2>2. CASE q # e
    BY <1>9, <2>1, <2>2, Orders DEF TypeOK, Current, ReadUpTo, Read, Decide
  <2>3. CASE q = e
    BY <1>9, <2>1, <2>3, Orders
       DEF TypeOK, PositionInv, Current, ReadUpTo, Read, Decide
  <2> QED BY <2>2, <2>3
<1>10. ASSUME NEW e \in Executor, MarkCommitted(e)
      PROVE  ReadingInv'
  <2> SUFFICES ASSUME NEW q \in Process, ~disturbed'[q]
               PROVE  Current(q)'
    BY DEF ReadingInv
  <2>1. Current(q)
    BY <1>10 DEF TypeOK, ReadingInv, MarkCommitted
  <2>2. CASE q # e
    BY <1>10, <2>1, <2>2, Orders DEF TypeOK, Current, ReadUpTo, Read, MarkCommitted
  <2>3. CASE q = e
    BY <1>10, <2>1, <2>3, Orders
       DEF TypeOK, PositionInv, Current, ReadUpTo, Read, MarkCommitted
  <2> QED BY <2>2, <2>3
<1>11. ASSUME NEW f \in File, NEW c \in Content, Edit(f, c)
      PROVE  ReadingInv'
  <2> SUFFICES ASSUME NEW q \in Process, ~disturbed'[q]
               PROVE  Current(q)'
    BY DEF ReadingInv
  <2>1. Current(q)
    BY <1>11 DEF TypeOK, ReadingInv, Edit
  <2>2. ~Reading(q) /\ UNCHANGED local
    BY <1>11 DEF TypeOK, Edit
  <2>3. pc[q] = "load" => at[q] = 1
    BY <2>2 DEF Reading, TypeOK, PositionInv
  <2> QED BY <2>1, <2>2, <2>3 DEF Reading, Current, ReadUpTo, Read, local
<1>12. CASE UNCHANGED vars
  BY <1>12 DEF ReadingInv, Current, ReadUpTo, Read, vars, local
<1> QED
  BY <1>1, <1>2, <1>3, <1>4, <1>5, <1>6, <1>7, <1>8, <1>9, <1>10, <1>11, <1>12 DEF Next

(* Once the plan is recorded its context never changes: every copy has it. *)
LEMMA RecordStep ==
  ASSUME TypeOK, PositionInv, RecordInv, [Next]_vars
  PROVE  RecordInv'
<1>1. ASSUME NEW p \in Process, Begin(p)
      PROVE  RecordInv'
  BY <1>1, Orders
     DEF TypeOK, Pc, Refused, Record, RecordInv, Compared, Begin
<1>2. ASSUME NEW p \in Process, Load(p)
      PROVE  RecordInv'
  BY <1>2, Orders
     DEF TypeOK, Pc, Refused, Record, RecordInv, Compared, Load, ReadNext
<1>3. ASSUME NEW p \in Process, LoadFails(p)
      PROVE  RecordInv'
  BY <1>3, Orders
     DEF TypeOK, Pc, Refused, Record, RecordInv, Compared, LoadFails
<1>4. ASSUME NEW p \in Process, Hash(p)
      PROVE  RecordInv'
  BY <1>4, Orders
     DEF TypeOK, Pc, Refused, Record, RecordInv, Compared, Hash, ReadNext
<1>5. ASSUME NEW p \in Process, WriteFails(p)
      PROVE  RecordInv'
  BY <1>5, Orders
     DEF TypeOK, Pc, Refused, Record, RecordInv, Compared, WriteFails
<1>6. ASSUME NEW p \in Process, Crash(p)
      PROVE  RecordInv'
  BY <1>6, Orders
     DEF TypeOK, RecordInv, Compared, Crash, Done, Refused
<1>7. ASSUME RecordPlan
      PROVE  RecordInv'
  BY <1>7, Orders
     DEF TypeOK, Pc, Refused, Record, RecordInv, Compared, RecordPlan
<1>8. ASSUME NEW e \in Executor, Resolve(e)
      PROVE  RecordInv'
  BY <1>8, Orders
     DEF TypeOK, Pc, Refused, Record, RecordInv, Compared, Resolve
<1>9. ASSUME NEW e \in Executor, Decide(e)
      PROVE  RecordInv'
  BY <1>9, Orders
     DEF TypeOK, Pc, Refused, Record, RecordInv, Compared, Decide
<1>10. ASSUME NEW e \in Executor, MarkCommitted(e)
      PROVE  RecordInv'
  BY <1>10, Orders
     DEF TypeOK, Pc, Refused, Record, RecordInv, Compared, MarkCommitted
<1>11. ASSUME NEW f \in File, NEW c \in Content, Edit(f, c)
      PROVE  RecordInv'
  BY <1>11 DEF RecordInv, Compared, Edit, local
<1>12. CASE UNCHANGED vars
  BY <1>12 DEF RecordInv, Compared, vars, local
<1> QED
  BY <1>1, <1>2, <1>3, <1>4, <1>5, <1>6, <1>7, <1>8, <1>9, <1>10, <1>11, <1>12 DEF Next

\* An execute is bound by what it compared.
LEMMA DecisionStep ==
  ASSUME TypeOK, DecisionInv, [Next]_vars
  PROVE  DecisionInv'
<1>1. ASSUME NEW p \in Process, Begin(p)
      PROVE  DecisionInv'
  BY <1>1, Orders
     DEF TypeOK, Pc, Refused, Record, DecisionInv, Compared, Bound,
         ContextMatches, Begin
<1>2. ASSUME NEW p \in Process, Load(p)
      PROVE  DecisionInv'
  BY <1>2, Orders
     DEF TypeOK, Pc, Refused, Record, DecisionInv, Compared, Bound,
         ContextMatches, Load, ReadNext
<1>3. ASSUME NEW p \in Process, LoadFails(p)
      PROVE  DecisionInv'
  BY <1>3, Orders
     DEF TypeOK, Pc, Refused, Record, DecisionInv, Compared, Bound,
         ContextMatches, LoadFails
<1>4. ASSUME NEW p \in Process, Hash(p)
      PROVE  DecisionInv'
  BY <1>4, Orders
     DEF TypeOK, Pc, Refused, Record, DecisionInv, Compared, Bound,
         ContextMatches, Hash, ReadNext
<1>5. ASSUME NEW p \in Process, WriteFails(p)
      PROVE  DecisionInv'
  BY <1>5, Orders
     DEF TypeOK, Pc, Refused, Record, DecisionInv, Compared, Bound,
         ContextMatches, WriteFails
<1>6. ASSUME NEW p \in Process, Crash(p)
      PROVE  DecisionInv'
  BY <1>6, Orders
     DEF TypeOK, Pc, Refused, Record, DecisionInv, Compared, Bound,
         ContextMatches, Crash
<1>7. ASSUME RecordPlan
      PROVE  DecisionInv'
  BY <1>7, Orders
     DEF TypeOK, Pc, Refused, Record, DecisionInv, Compared, Bound,
         ContextMatches, RecordPlan
<1>8. ASSUME NEW e \in Executor, Resolve(e)
      PROVE  DecisionInv'
  BY <1>8, Orders
     DEF TypeOK, Pc, Refused, Record, DecisionInv, Compared, Bound,
         ContextMatches, Resolve
<1>9. ASSUME NEW e \in Executor, Decide(e)
      PROVE  DecisionInv'
  <2>1. pc[e] = "decide"
    BY <1>9 DEF Decide
  <2>2. /\ ~ContextMatches(e) => pc'[e] = "stale_plan_context"
        /\ ContextMatches(e) /\ copy[e].status = "committed" =>
              pc'[e] = "plan_already_committed"
        /\ ContextMatches(e) /\ copy[e].status # "committed" =>
              pc'[e] = "mark"
    BY <1>9, Orders DEF TypeOK, Decide
  <2>3. /\ \A q \in Process : q # e => pc'[q] = pc[q]
        /\ UNCHANGED <<record, copy, hashed, late>>
    BY <1>9, Orders DEF TypeOK, Decide
  <2> QED BY <2>1, <2>2, <2>3, Orders DEF DecisionInv, Compared, Bound,
                                      ContextMatches
<1>10. ASSUME NEW e \in Executor, MarkCommitted(e)
      PROVE  DecisionInv'
  BY <1>10, Orders
     DEF TypeOK, Pc, Refused, Record, DecisionInv, Compared, Bound,
         ContextMatches, MarkCommitted
<1>11. ASSUME NEW f \in File, NEW c \in Content, Edit(f, c)
      PROVE  DecisionInv'
  BY <1>11 DEF DecisionInv, Compared, Bound, ContextMatches, Edit, local
<1>12. CASE UNCHANGED vars
  BY <1>12 DEF DecisionInv, Compared, Bound, ContextMatches, vars, local
<1> QED
  BY <1>1, <1>2, <1>3, <1>4, <1>5, <1>6, <1>7, <1>8, <1>9, <1>10, <1>11, <1>12 DEF Next

(* An execute that begins after the commit resolves a committed record.    *)
LEMMA LateStep ==
  ASSUME TypeOK, RecordInv, LateInv, [Next]_vars
  PROVE  LateInv'
<1>1. ASSUME NEW p \in Process, Begin(p)
      PROVE  LateInv'
  BY <1>1, Orders
     DEF TypeOK, Pc, Refused, Record, RecordInv, LateInv, Compared,
         ContextMatches, Begin
<1>2. ASSUME NEW p \in Process, Load(p)
      PROVE  LateInv'
  BY <1>2, Orders
     DEF TypeOK, Pc, Refused, Record, RecordInv, LateInv, Compared,
         ContextMatches, Load, ReadNext
<1>3. ASSUME NEW p \in Process, LoadFails(p)
      PROVE  LateInv'
  BY <1>3, Orders
     DEF TypeOK, Pc, Refused, Record, RecordInv, LateInv, Compared,
         ContextMatches, LoadFails
<1>4. ASSUME NEW p \in Process, Hash(p)
      PROVE  LateInv'
  BY <1>4, Orders
     DEF TypeOK, Pc, Refused, Record, RecordInv, LateInv, Compared,
         ContextMatches, Hash, ReadNext
<1>5. ASSUME NEW p \in Process, WriteFails(p)
      PROVE  LateInv'
  BY <1>5, Orders
     DEF TypeOK, Pc, Refused, Record, RecordInv, LateInv, Compared,
         ContextMatches, WriteFails
<1>6. ASSUME NEW p \in Process, Crash(p)
      PROVE  LateInv'
  BY <1>6, Orders
     DEF TypeOK, Pc, Refused, Record, RecordInv, LateInv, Compared,
         ContextMatches, Crash
<1>7. ASSUME RecordPlan
      PROVE  LateInv'
  BY <1>7, Orders
     DEF TypeOK, Pc, Refused, Record, RecordInv, LateInv, Compared,
         ContextMatches, RecordPlan
<1>8. ASSUME NEW e \in Executor, Resolve(e)
      PROVE  LateInv'
  BY <1>8, Orders
     DEF TypeOK, Pc, Refused, Record, RecordInv, LateInv, Compared,
         ContextMatches, Resolve
<1>9. ASSUME NEW e \in Executor, Decide(e)
      PROVE  LateInv'
  <2>1. pc[e] = "decide"
    BY <1>9 DEF Decide
  <2>2. /\ ~ContextMatches(e) => pc'[e] = "stale_plan_context"
        /\ ContextMatches(e) /\ copy[e].status = "committed" =>
              pc'[e] = "plan_already_committed"
        /\ ContextMatches(e) /\ copy[e].status # "committed" =>
              pc'[e] = "mark"
    BY <1>9, Orders DEF TypeOK, Decide
  <2>3. /\ \A q \in Process : q # e => pc'[q] = pc[q]
        /\ UNCHANGED <<record, copy, hashed, late>>
    BY <1>9, Orders DEF TypeOK, Decide
  <2> QED BY <2>1, <2>2, <2>3, Orders DEF LateInv
<1>10. ASSUME NEW e \in Executor, MarkCommitted(e)
      PROVE  LateInv'
  BY <1>10, Orders
     DEF TypeOK, Pc, Refused, Record, RecordInv, LateInv, Compared,
         ContextMatches, MarkCommitted
<1>11. ASSUME NEW f \in File, NEW c \in Content, Edit(f, c)
      PROVE  LateInv'
  BY <1>11 DEF LateInv, Edit, local
<1>12. CASE UNCHANGED vars
  BY <1>12 DEF LateInv, vars, local
<1> QED
  BY <1>1, <1>2, <1>3, <1>4, <1>5, <1>6, <1>7, <1>8, <1>9, <1>10, <1>11, <1>12 DEF Next

(* The strengthening of QuietBinding and SequentialOneShot: BindingInv      *)
(* holds in every reachable state.                                         *)
THEOREM BindingInvariant == Spec => []BindingInv
<1>1. Init => BindingInv
  <2> SUFFICES ASSUME Init PROVE BindingInv
    OBVIOUS
  <2>1. TypeOK
    BY Orders, FilesAssumption DEF Init, TypeOK, Record, Pc
  <2>2. PositionInv
    BY Orders DEF Init, PositionInv
  <2>3. ReadingInv
    BY DEF Init, ReadingInv, Current, Read
  <2>4. RecordInv /\ DecisionInv
    BY Orders DEF Init, RecordInv, DecisionInv, Compared
  <2>5. LateInv
    BY DEF Init, LateInv
  <2> QED BY <2>1, <2>2, <2>3, <2>4, <2>5 DEF BindingInv
<1>2. BindingInv /\ [Next]_vars => BindingInv'
  BY TypeStep, PositionStep, ReadingStep, RecordStep, DecisionStep, LateStep
     DEF BindingInv
<1> QED BY <1>1, <1>2, PTL DEF Spec

(* However many executes there are, whatever the files and the orders they *)
(* are read in: an execute that was not disturbed by an edit, of a plan    *)
(* whose making was not, is bound exactly if it runs on the configuration  *)
(* the plan was made from.                                                 *)
THEOREM QuietExecuteIsBound == Spec => []QuietBinding
<1>1. BindingInv => QuietBinding
  <2> SUFFICES ASSUME BindingInv, NEW e \in Executor, Compared(e),
                      ~disturbed[e], ~disturbed["planner"]
               PROVE  Bound(e) <=> SameSurface(e)
    BY DEF QuietBinding
  <2>1. hashed[e] = loaded[e]
    BY Orders DEF BindingInv, ReadingInv, Current, Read, Compared
  <2>2. pc["planner"] = "planned" /\ copy[e].context = hashed["planner"]
    BY DEF BindingInv, RecordInv
  <2>3. hashed["planner"] = loaded["planner"]
    BY <2>2, Orders DEF BindingInv, ReadingInv, Current, Read
  <2>4. Bound(e) <=> ContextMatches(e)
    BY DEF BindingInv, DecisionInv
  <2> QED BY <2>1, <2>2, <2>3, <2>4 DEF ContextMatches, SameSurface
<1> QED BY <1>1, BindingInvariant, PTL

(* However many executes there are: one that begins after the plan was     *)
(* committed is not accepted.                                              *)
THEOREM LateExecuteIsRefused == Spec => []SequentialOneShot
<1>1. BindingInv => SequentialOneShot
  BY DEF BindingInv, LateInv, SequentialOneShot
<1> QED BY <1>1, BindingInvariant, PTL

=============================================================================
