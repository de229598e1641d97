--------------------------- MODULE ContextProofs ---------------------------
(***************************************************************************)
(* The safety of ice::context for every set of threads and coroutines.     *)
(***************************************************************************)
EXTENDS ContextMC, SequenceTheorems, FiniteSetTheorems, TLAPS

(* A thread has a batch only while it dispatches it, and epoll lists the   *)
(* eventfd at most once.                                                   *)
Tidy ==
  /\ \A t \in Threads : pc[t] \notin {"dispatch", "resuming"} => batch[t] = <<>>
  /\ \A i, j \in DOMAIN ready : ready[i] = Note /\ ready[j] = Note => i = j

(* EntriesSuspended, slot by slot.                                         *)
Entries ==
  \A c \in Coroutines :
    /\ \A i \in DOMAIN ready : Carries(i, c) => co[c] \in {"scheduled", "signalled"}
    /\ \A t \in Threads : \A i \in DOMAIN batch[t] :
         batch[t][i] = c => co[c] \in {"scheduled", "signalled"}
    /\ \A i \in DOMAIN ready : \A t \in Threads : \A j \in DOMAIN batch[t] :
         ~ (Carries(i, c) /\ batch[t][j] = c)
    /\ \A i, j \in DOMAIN ready : Carries(i, c) /\ Carries(j, c) => i = j
    /\ \A t, u \in Threads : \A i \in DOMAIN batch[t], j \in DOMAIN batch[u] :
         batch[t][i] = c /\ batch[u][j] = c => t = u /\ i = j

Inv == TypeOK /\ Tidy /\ CountCoversRunning /\ Entries

LEMMA EntriesSlots == Tidy => (Entries <=> EntriesSuspended)
  BY DEF Tidy, Entries, EntriesSuspended, Queued, Held

(* A sequence with one more element.                                       *)
LEMMA AppendOne ==
  ASSUME NEW S, NEW q \in Seq(S), NEW x \in S, NEW r, r = Append(q, x)
  PROVE  /\ r \in Seq(S)
         /\ Len(q) + 1 \in DOMAIN r /\ r[Len(q) + 1] = x
         /\ \A i \in DOMAIN q : i \in DOMAIN r /\ r[i] = q[i]
         /\ \A i \in DOMAIN r : i \in DOMAIN q \/ i = Len(q) + 1
<1>1. /\ r \in Seq(S)
      /\ Len(r) = Len(q) + 1
      /\ \A i \in 1 .. Len(q) : r[i] = q[i]
      /\ r[Len(q) + 1] = x
  BY AppendProperties
<1>2. DOMAIN q = 1 .. Len(q) /\ Len(q) \in Nat /\ DOMAIN r = 1 .. Len(q) + 1
  BY <1>1, LenProperties
<1>3. QED
  BY <1>1, <1>2

(* What Post(e) does to the queue, on either back end.                     *)
LEMMA PostAppends ==
  ASSUME TypeOK, Tidy, NEW e \in Entry, Post(e) \/ Losing!Post(e)
  PROVE  /\ ready' \in Seq(Entry \cup {Note})
         /\ noteData' \in Entry
         /\ \A i, j \in DOMAIN ready' : ready'[i] = Note /\ ready'[j] = Note => i = j
         /\ Queued(e)'
         /\ \A i \in DOMAIN ready : i \in DOMAIN ready' /\ ready'[i] = ready[i]
         /\ \A i \in DOMAIN ready', d \in Entry :
              d # e /\ Carries(i, d)' => i \in DOMAIN ready /\ Carries(i, d)
         /\ ~Queued(e) => \A i, j \in DOMAIN ready' : Carries(i, e)' /\ Carries(j, e)' => i = j
<1>1. /\ ready \in Seq(Entry \cup {Note}) /\ noteData \in Entry
      /\ \A i, j \in DOMAIN ready : ready[i] = Note /\ ready[j] = Note => i = j
      /\ Note \notin Entry
  BY ContextConstants DEF TypeOK, Tidy, Entry
<1>2. CASE ready' = Append(ready, e) /\ noteData' = noteData
  <2> DEFINE k == Len(ready) + 1
  <2>1. /\ ready' \in Seq(Entry \cup {Note})
        /\ k \in DOMAIN ready' /\ ready'[k] = e
        /\ \A i \in DOMAIN ready : i \in DOMAIN ready' /\ ready'[i] = ready[i]
        /\ \A i \in DOMAIN ready' : i \in DOMAIN ready \/ i = k
    BY <1>1, <1>2, AppendOne
  <2> HIDE DEF k
  <2>2. QED
    BY <1>1, <1>2, <2>1 DEF Queued, Carries
<1>3. CASE ready' = ready /\ noteData' = e /\ Note \in ToSet(ready)
  <2>1. PICK k \in DOMAIN ready : ready[k] = Note
    BY <1>3 DEF ToSet
  <2>2. QED
    BY <1>1, <1>3, <2>1 DEF Queued, Carries
<1>4. CASE ready' = Append(ready, Note) /\ noteData' = e /\ Note \notin ToSet(ready)
  <2> DEFINE k == Len(ready) + 1
  <2>1. /\ ready' \in Seq(Entry \cup {Note})
        /\ k \in DOMAIN ready' /\ ready'[k] = Note
        /\ \A i \in DOMAIN ready : i \in DOMAIN ready' /\ ready'[i] = ready[i]
        /\ \A i \in DOMAIN ready' : i \in DOMAIN ready \/ i = k
    BY <1>1, <1>4, AppendOne
  <2>2. \A i \in DOMAIN ready : ready[i] # Note
    BY <1>4 DEF ToSet
  <2> HIDE DEF k
  <2>3. QED
    BY <1>1, <1>4, <2>1, <2>2 DEF Queued, Carries
<1>5. \/ ready' = Append(ready, e) /\ noteData' = noteData
      \/ noteData' = e /\ ready' = IF Note \in ToSet(ready) THEN ready ELSE Append(ready, Note)
  <2>1. Post(e) => \/ ready' = Append(ready, e) /\ noteData' = noteData
                   \/ noteData' = e /\ ready' = IF Note \in ToSet(ready) THEN ready ELSE Append(ready, Note)
    BY DEF Post
  <2>2. Losing!Post(e) =>
          \/ ready' = Append(ready, e) /\ noteData' = noteData
          \/ noteData' = e /\ ready' = IF Note \in ToSet(ready) THEN ready ELSE Append(ready, Note)
    BY DEF Losing!Post, ToSet, Losing!ToSet
  <2>3. QED
    BY <2>1, <2>2
<1>6. QED
  BY <1>2, <1>3, <1>4, <1>5

LEMMA InitInv == Init => Inv
<1> SUFFICES ASSUME Init PROVE Inv
  OBVIOUS
<1> USE ContextConstants DEF Init
<1>1. TypeOK
  <2>1. ready \in Seq(Entry \cup {Note}) /\ batch \in [Threads -> Seq(Entry)]
    BY EmptySeq
  <2>2. noteData \in Entry /\ calls \in [Coroutines -> 0 .. MaxCalls]
    BY DEF Entry
  <2>3. QED
    BY <2>1, <2>2 DEF TypeOK
<1>2. Tidy
  BY DEF Tidy
<1>3. CountCoversRunning
  <2>1. Counted = {}
    BY DEF Counted
  <2>2. QED
    BY <2>1, FS_EmptySet DEF CountCoversRunning
<1>4. Entries
  BY DEF Entries, Carries
<1>5. QED
  BY <1>1, <1>2, <1>3, <1>4 DEF Inv

(* The actions that leave the queue, the batches and the coroutines alone. *)
LEMMA EnterPreserves == ASSUME Inv, NEW t \in Threads, Enter(t) PROVE Inv'
<1> USE ContextConstants DEF Inv, Enter, kernel, TypeOK
<1>1. TypeOK'
  OBVIOUS
<1>2. Tidy'
  BY DEF Tidy
<1>3. CountCoversRunning'
  <2>1. Counted' = Counted \cup {t} /\ t \notin Counted /\ IsFiniteSet(Counted)
    BY FS_Subset DEF Counted
  <2>2. threadCount' = Cardinality(Counted')
    BY <2>1, FS_AddElement DEF CountCoversRunning
  <2>3. QED
    BY <2>2 DEF CountCoversRunning
<1>4. Entries'
  BY DEF Entries, Carries
<1>5. QED
  BY <1>1, <1>2, <1>3, <1>4

LEMMA LeavePreserves == ASSUME Inv, NEW t \in Threads, Leave(t) PROVE Inv'
<1> USE ContextConstants DEF Inv, Leave, kernel, TypeOK
<1>1. Counted' = Counted \ {t} /\ t \in Counted /\ IsFiniteSet(Counted)
  BY FS_Subset DEF Counted
<1>2. threadCount' = Cardinality(Counted') /\ threadCount' \in Nat
  <2>1. Cardinality(Counted \ {t}) = Cardinality(Counted) - 1
    BY <1>1, FS_RemoveElement
  <2>2. Cardinality(Counted \ {t}) \in Nat
    BY <1>1, FS_RemoveElement, FS_CardinalityType
  <2>3. QED
    BY <1>1, <2>1, <2>2 DEF CountCoversRunning
<1>3. TypeOK'
  BY <1>2
<1>4. Tidy'
  BY DEF Tidy
<1>5. CountCoversRunning'
  BY <1>2 DEF CountCoversRunning
<1>6. Entries'
  BY DEF Entries, Carries
<1>7. QED
  BY <1>3, <1>4, <1>5, <1>6

LEMMA TurnPreserves ==
  ASSUME Inv, NEW t \in Threads, WaitFails(t) \/ EndBatch(t) \/ Failing!WaitFails(t)
  PROVE  Inv'
<1> USE ContextConstants DEF Inv, WaitFails, Failing!WaitFails, EndBatch, kernel, Failing!kernel, TypeOK
<1>1. TypeOK'
  OBVIOUS
<1>2. Tidy'
  BY DEF Tidy
<1>3. CountCoversRunning'
  <2>1. Counted' = Counted
    BY DEF Counted
  <2>2. QED
    BY <2>1 DEF CountCoversRunning
<1>4. Entries'
  BY DEF Entries, Carries
<1>5. QED
  BY <1>1, <1>2, <1>3, <1>4

LEMMA PassOnPreserves == ASSUME Inv, NEW t \in Threads, PassOn(t) \/ Losing!PassOn(t) PROVE Inv'
<1> USE ContextConstants DEF Inv, PassOn, Losing!PassOn
<1> Nil \in Entry
  BY DEF Entry
<1>1. TypeOK'
  <2>1. ready' \in Seq(Entry \cup {Note}) /\ noteData' \in Entry
    BY PostAppends
  <2>2. QED
    BY <2>1 DEF TypeOK
<1>2. Tidy'
  BY PostAppends DEF Tidy, TypeOK
<1>3. CountCoversRunning'
  <2>1. Counted' = Counted
    BY DEF Counted, TypeOK
  <2>2. QED
    BY <2>1 DEF CountCoversRunning, TypeOK
<1>4. Entries'
  <2>1. \A c \in Coroutines : \A i \in DOMAIN ready' :
          Carries(i, c)' => i \in DOMAIN ready /\ Carries(i, c)
    BY PostAppends DEF Entry
  <2>2. QED
    BY <2>1 DEF Entries
<1>5. QED
  BY <1>1, <1>2, <1>3, <1>4

LEMMA InterruptPreserves ==
  ASSUME Inv, NEW c \in Coroutines,
         StopInterrupt(c) \/ Interrupt(c) \/ Losing!StopInterrupt(c) \/ Losing!Interrupt(c)
  PROVE  Inv'
<1> USE ContextConstants DEF Inv
<1>0. /\ Nil \in Entry /\ (Post(Nil) \/ Losing!Post(Nil))
      /\ \/ UNCHANGED calls /\ co' = [co EXCEPT ![c] = "running"]
         \/ /\ calls[c] < MaxCalls /\ calls' = [calls EXCEPT ![c] = @ + 1]
            /\ UNCHANGED co
      /\ co[c] \in {"running", "stopping"}
      /\ UNCHANGED <<stopRequested, threadCount, pc, batch, interrupted, host>>
  BY DEF Entry, StopInterrupt, Interrupt, Losing!StopInterrupt, Losing!Interrupt, loop, Losing!loop
<1>1. TypeOK'
  <2>1. ready' \in Seq(Entry \cup {Note}) /\ noteData' \in Entry
    BY <1>0, PostAppends
  <2>2. co' \in [Coroutines -> {"running", "stopping", "scheduled", "armed", "signalled", "finished"}]
    BY <1>0 DEF TypeOK
  <2>3. calls' \in [Coroutines -> 0 .. MaxCalls]
    <3>1. calls[c] < MaxCalls => calls[c] + 1 \in 0 .. MaxCalls
      BY DEF TypeOK
    <3>2. QED
      BY <1>0, <3>1 DEF TypeOK
  <2>4. QED
    BY <1>0, <2>1, <2>2, <2>3 DEF TypeOK
<1>2. Tidy'
  BY <1>0, PostAppends DEF Tidy, TypeOK
<1>3. CountCoversRunning'
  BY <1>0 DEF Counted, CountCoversRunning
<1>4. Entries'
  <2>1. \A d \in Coroutines : \A i \in DOMAIN ready' :
          Carries(i, d)' => i \in DOMAIN ready /\ Carries(i, d)
    BY <1>0, PostAppends DEF Entry
  <2>2. QED
    BY <1>0, <2>1 DEF Entries, TypeOK
<1>5. QED
  BY <1>1, <1>2, <1>3, <1>4

LEMMA StopPreserves == ASSUME Inv, NEW c \in Coroutines, Stop(c) PROVE Inv'
<1> USE ContextConstants DEF Inv, Stop, loop, kernel
<1>1. TypeOK'
  BY DEF TypeOK
<1>2. Tidy' /\ CountCoversRunning'
  BY DEF Tidy, CountCoversRunning, Counted
<1>3. Entries'
  BY DEF Entries, Carries, TypeOK
<1>4. QED
  BY <1>1, <1>2, <1>3

(* The thread of a coroutine that suspends or ends goes back to its batch. *)
LEMMA GiveBackPreserves ==
  ASSUME Inv, NEW c \in Coroutines, NEW s, GiveBackThread(c, s),
         UNCHANGED <<threadCount, batch>>
  PROVE  /\ pc' \in [Threads -> {"outside", "wait", "dispatch", "resuming",
                                 "leave", "interrupt", "returned"}]
         /\ \A t \in Threads : pc'[t] # pc[t] => pc[t] = "resuming" /\ pc'[t] = "dispatch"
         /\ host' \in [Coroutines -> Threads \cup {Nil}]
         /\ CountCoversRunning'
<1> USE ContextConstants DEF Inv, GiveBackThread, TypeOK
<1>1. \A t \in Threads : pc'[t] # pc[t] => pc[t] = "resuming" /\ pc'[t] = "dispatch"
  BY DEF CountCoversRunning
<1>2. Counted' = Counted
  BY <1>1 DEF Counted
<1>3. CountCoversRunning'
  BY <1>2 DEF CountCoversRunning
<1>4. QED
  BY <1>1, <1>3

LEMMA SuspendPreserves ==
  ASSUME Inv, NEW c \in Coroutines, AwaitIo(c) \/ Finish(c)
  PROVE  Inv'
<1> USE ContextConstants DEF Inv, AwaitIo, Finish, kernel
<1>0. PICK s \in {"armed", "finished"} :
        GiveBackThread(c, s) /\ UNCHANGED <<threadCount, batch>>
  OBVIOUS
<1>1. TypeOK'
  BY <1>0, GiveBackPreserves DEF TypeOK, GiveBackThread
<1>2. Tidy'
  BY <1>0, GiveBackPreserves DEF Tidy
<1>3. Entries'
  BY <1>0 DEF Entries, Carries, TypeOK, GiveBackThread
<1>4. QED
  BY <1>0, <1>1, <1>2, <1>3, GiveBackPreserves

LEMMA SchedulePreserves ==
  ASSUME Inv, NEW c \in Coroutines, Schedule(c) \/ Losing!Schedule(c)
  PROVE  Inv'
<1> USE ContextConstants DEF Inv
<1>0. /\ c \in Entry /\ co[c] = "running"
      /\ Post(c) \/ Losing!Post(c)
      /\ GiveBackThread(c, "scheduled")
      /\ UNCHANGED <<stopRequested, threadCount, batch, interrupted, calls>>
  BY DEF Entry, Schedule, Losing!Schedule, GiveBackThread, Losing!GiveBackThread
<1>1. TypeOK'
  BY <1>0, PostAppends, GiveBackPreserves DEF TypeOK, GiveBackThread
<1>2. Tidy'
  BY <1>0, PostAppends, GiveBackPreserves DEF Tidy
<1>3. Entries'
  <2>1. ~Queued(c) /\ \A t \in Threads : \A i \in DOMAIN batch[t] : batch[t][i] # c
    BY <1>0 DEF Entries, Queued
  <2>2. \A d \in Coroutines : \A i \in DOMAIN ready' :
          d # c /\ Carries(i, d)' => i \in DOMAIN ready /\ Carries(i, d)
    BY <1>0, PostAppends DEF Entry
  <2>3. \A i, j \in DOMAIN ready' : Carries(i, c)' /\ Carries(j, c)' => i = j
    BY <1>0, <2>1, PostAppends
  <2>4. QED
    BY <1>0, <2>1, <2>2, <2>3 DEF Entries, TypeOK, GiveBackThread
<1>4. QED
  BY <1>0, <1>1, <1>2, <1>3, GiveBackPreserves

LEMMA IoReadyPreserves == ASSUME Inv, NEW c \in Coroutines, IoReady(c) PROVE Inv'
<1> USE ContextConstants DEF Inv, IoReady, loop
<1>1. /\ ready' \in Seq(Entry \cup {Note})
      /\ DOMAIN ready' = 1 .. Len(ready) + 1
      /\ \A i \in 1 .. Len(ready) : ready'[i] = ready[i]
      /\ ready'[Len(ready) + 1] = c
      /\ DOMAIN ready = 1 .. Len(ready)
      /\ Len(ready) \in Nat
  <2>1. c \in Entry \cup {Note} /\ ready \in Seq(Entry \cup {Note})
    BY DEF Entry, TypeOK
  <2>2. QED
    BY <2>1, AppendProperties, LenProperties
<1>2. TypeOK'
  BY <1>1 DEF TypeOK
<1>3. Tidy'
  BY <1>1 DEF Tidy
<1>4. CountCoversRunning'
  BY DEF Counted, CountCoversRunning
<1>5. Entries'
  <2>1. /\ \A i \in DOMAIN ready : ~Carries(i, c)
        /\ \A t \in Threads : \A i \in DOMAIN batch[t] : batch[t][i] # c
    BY DEF Entries
  <2>2. \A i \in DOMAIN ready', d \in Coroutines :
          Carries(i, d)' => \/ i = Len(ready) + 1 /\ d = c
                            \/ i \in DOMAIN ready /\ Carries(i, d)
    <3> SUFFICES ASSUME NEW i \in DOMAIN ready', NEW d \in Coroutines, Carries(i, d)'
                 PROVE  \/ i = Len(ready) + 1 /\ d = c
                        \/ i \in DOMAIN ready /\ Carries(i, d)
      OBVIOUS
    <3>1. i = Len(ready) + 1 \/ i \in DOMAIN ready
      BY <1>1
    <3>2. CASE i = Len(ready) + 1
      BY <1>1, <3>2 DEF Carries
    <3>3. CASE i \in DOMAIN ready
      BY <1>1, <3>3 DEF Carries
    <3>4. QED
      BY <3>1, <3>2, <3>3
  <2>3. QED
    BY <1>1, <2>1, <2>2 DEF Entries, TypeOK
<1>6. QED
  BY <1>2, <1>3, <1>4, <1>5

(* The first entries of the queue become the batch of a waiting thread.    *)
LEMMA WaitMoves ==
  ASSUME Inv, NEW t \in Threads, Wait(t) \/ Failing!Wait(t)
  PROVE  \E n \in Nat :
           /\ n <= Len(ready)
           /\ ready' \in Seq(Entry \cup {Note})
           /\ batch' \in [Threads -> Seq(Entry)]
           /\ \A u \in Threads : u # t => batch'[u] = batch[u]
           /\ DOMAIN ready = 1 .. Len(ready) /\ Len(ready) \in Nat
           /\ DOMAIN ready' = 1 .. Len(ready) - n
           /\ \A i \in DOMAIN ready' : ready'[i] = ready[n + i]
           /\ DOMAIN batch'[t] = 1 .. n
           /\ \A i \in 1 .. n :
                batch'[t][i] = IF ready[i] = Note THEN noteData ELSE ready[i]
<1>0. BufferSize[t] \in Nat /\ NoneAndTwo[t] \in Nat
  BY ContextConstants DEF NoneAndTwo
<1>1. PICK n \in 1 .. BufferSize[t] \cup 1 .. NoneAndTwo[t] :
        /\ n <= Len(ready)
        /\ batch' = [batch EXCEPT ![t] =
                       [i \in 1 .. n |-> IF ready[i] = Note THEN noteData ELSE ready[i]]]
        /\ ready' = SubSeq(ready, n + 1, Len(ready))
  BY DEF Wait, Failing!Wait
<1>2. n \in Nat /\ Len(ready) \in Nat /\ DOMAIN ready = 1 .. Len(ready)
      /\ ready \in Seq(Entry \cup {Note})
  BY <1>0, LenProperties DEF Inv, TypeOK
<1>3. /\ ready' \in Seq(Entry \cup {Note})
      /\ Len(ready') = Len(ready) - n
      /\ \A i \in 1 .. Len(ready) - n : ready'[i] = ready[n + i]
  <2>1. \A i \in n + 1 .. Len(ready) : ready[i] \in Entry \cup {Note}
    BY <1>2, ElementOfSeq
  <2>2. /\ SubSeq(ready, n + 1, Len(ready)) \in Seq(Entry \cup {Note})
        /\ Len(SubSeq(ready, n + 1, Len(ready)))
             = IF n + 1 <= Len(ready) THEN Len(ready) - (n + 1) + 1 ELSE 0
        /\ \A i \in 1 .. Len(ready) - (n + 1) + 1 :
             SubSeq(ready, n + 1, Len(ready))[i] = ready[(n + 1) + i - 1]
    BY <1>2, <2>1, SubSeqProperties
  <2>3. /\ n <= Len(ready)
        /\ Len(ready) - (n + 1) + 1 = Len(ready) - n
        /\ \A i \in 1 .. Len(ready) - n : (n + 1) + i - 1 = n + i
    BY <1>1, <1>2
  <2>4. Len(SubSeq(ready, n + 1, Len(ready))) = Len(ready) - n
    BY <1>2, <2>2, <2>3
  <2>5. \A i \in 1 .. Len(ready) - n : SubSeq(ready, n + 1, Len(ready))[i] = ready[n + i]
    BY <2>2, <2>3
  <2>6. QED
    BY <1>1, <2>2, <2>4, <2>5
<1>4. DOMAIN ready' = 1 .. Len(ready) - n
  BY <1>3, LenProperties
<1> DEFINE b == [i \in 1 .. n |-> IF ready[i] = Note THEN noteData ELSE ready[i]]
<1>5. b \in Seq(Entry)
  <2>1. \A i \in 1 .. n : b[i] \in Entry
    BY <1>1, <1>2, ElementOfSeq DEF Inv, TypeOK
  <2>2. b \in [1 .. n -> Entry]
    BY <2>1
  <2>3. QED
    BY <1>2, <2>2, SeqDef
<1>6. batch' \in [Threads -> Seq(Entry)] /\ batch'[t] = b
      /\ \A u \in Threads : u # t => batch'[u] = batch[u]
  BY <1>1, <1>5 DEF Inv, TypeOK
<1>7. QED
  BY <1>1, <1>2, <1>3, <1>4, <1>6

LEMMA WaitPreserves ==
  ASSUME Inv, NEW t \in Threads, Wait(t) \/ Failing!Wait(t)
  PROVE  Inv'
<1> USE ContextConstants DEF Inv
<1>1. /\ pc[t] = "wait" /\ pc' = [pc EXCEPT ![t] = "dispatch"]
      /\ UNCHANGED <<stopRequested, threadCount, noteData, interrupted, co, host, calls>>
  BY DEF Wait, Failing!Wait
<1>2. PICK n \in Nat :
           /\ n <= Len(ready)
           /\ ready' \in Seq(Entry \cup {Note})
           /\ batch' \in [Threads -> Seq(Entry)]
           /\ \A u \in Threads : u # t => batch'[u] = batch[u]
           /\ DOMAIN ready = 1 .. Len(ready) /\ Len(ready) \in Nat
           /\ DOMAIN ready' = 1 .. Len(ready) - n
           /\ \A i \in DOMAIN ready' : ready'[i] = ready[n + i]
           /\ DOMAIN batch'[t] = 1 .. n
           /\ \A i \in 1 .. n :
                batch'[t][i] = IF ready[i] = Note THEN noteData ELSE ready[i]
  BY WaitMoves
<1>3. TypeOK'
  BY <1>1, <1>2 DEF TypeOK
<1>4. Tidy'
  <2>1. \A u \in Threads : pc'[u] \notin {"dispatch", "resuming"} => batch'[u] = <<>>
    BY <1>1, <1>2 DEF Tidy, TypeOK
  <2>2. \A i, j \in DOMAIN ready' : ready'[i] = Note /\ ready'[j] = Note => n + i = n + j
    <3>1. \A i \in DOMAIN ready' : n + i \in DOMAIN ready /\ ready'[i] = ready[n + i]
      BY <1>2
    <3>2. QED
      BY <3>1 DEF Tidy
  <2>3. \A i, j \in DOMAIN ready' : ready'[i] = Note /\ ready'[j] = Note => i = j
    BY <1>2, <2>2
  <2>4. QED
    BY <2>1, <2>3 DEF Tidy
<1>5. CountCoversRunning'
  <2>1. Counted' = Counted
    BY <1>1 DEF Counted, TypeOK
  <2>2. QED
    BY <1>1, <2>1 DEF CountCoversRunning, TypeOK
<1>6. Entries'
  <2>1. \A c \in Coroutines : \A i \in DOMAIN ready' :
          Carries(i, c)' => n + i \in DOMAIN ready /\ Carries(n + i, c)
    BY <1>1, <1>2 DEF Carries
  <2>2. \A c \in Coroutines : \A i \in DOMAIN batch'[t] :
          batch'[t][i] = c => i \in DOMAIN ready /\ Carries(i, c)
    BY <1>1, <1>2 DEF Carries
  <2>3. ASSUME NEW c \in Coroutines
        PROVE  /\ \A i \in DOMAIN ready' : Carries(i, c)' => co'[c] \in {"scheduled", "signalled"}
               /\ \A u \in Threads : \A i \in DOMAIN batch'[u] :
                    batch'[u][i] = c => co'[c] \in {"scheduled", "signalled"}
    <3>1. \A i \in DOMAIN ready' : Carries(i, c)' => co'[c] \in {"scheduled", "signalled"}
      BY <1>1, <2>1 DEF Entries
    <3>2. \A i \in DOMAIN batch'[t] : batch'[t][i] = c => co'[c] \in {"scheduled", "signalled"}
      BY <1>1, <2>2 DEF Entries
    <3>3. \A u \in Threads \ {t} : \A i \in DOMAIN batch'[u] :
            batch'[u][i] = c => co'[c] \in {"scheduled", "signalled"}
      BY <1>1, <1>2 DEF Entries
    <3>4. QED
      BY <3>1, <3>2, <3>3
  <2>4. ASSUME NEW c \in Coroutines
        PROVE  \A i \in DOMAIN ready' : \A u \in Threads : \A j \in DOMAIN batch'[u] :
                 ~ (Carries(i, c)' /\ batch'[u][j] = c)
    <3> SUFFICES ASSUME NEW i \in DOMAIN ready', NEW u \in Threads, NEW j \in DOMAIN batch'[u],
                        Carries(i, c)', batch'[u][j] = c
                 PROVE  FALSE
      OBVIOUS
    <3>1. n + i \in DOMAIN ready /\ Carries(n + i, c)
      BY <2>1
    <3>2. CASE u = t
      <4>1. j \in 1 .. n /\ j \in DOMAIN ready /\ Carries(j, c)
        BY <1>2, <2>2, <3>2
      <4>2. n + i = j
        BY <3>1, <4>1 DEF Entries
      <4>3. QED
        BY <1>2, <4>1, <4>2
    <3>3. CASE u # t
      BY <1>2, <3>1, <3>3 DEF Entries
    <3>4. QED
      BY <3>2, <3>3
  <2>5. ASSUME NEW c \in Coroutines
        PROVE  \A i, j \in DOMAIN ready' : Carries(i, c)' /\ Carries(j, c)' => i = j
    <3>1. \A i, j \in DOMAIN ready' : Carries(i, c)' /\ Carries(j, c)' => n + i = n + j
      BY <2>1 DEF Entries
    <3>2. QED
      BY <1>2, <3>1
  <2>6. ASSUME NEW c \in Coroutines
        PROVE  \A u, v \in Threads : \A i \in DOMAIN batch'[u], j \in DOMAIN batch'[v] :
                 batch'[u][i] = c /\ batch'[v][j] = c => u = v /\ i = j
    <3> SUFFICES ASSUME NEW u \in Threads, NEW v \in Threads,
                        NEW i \in DOMAIN batch'[u], NEW j \in DOMAIN batch'[v],
                        batch'[u][i] = c, batch'[v][j] = c
                 PROVE  u = v /\ i = j
      OBVIOUS
    <3>1. CASE u = t /\ v = t
      <4>1. i \in DOMAIN ready /\ Carries(i, c) /\ j \in DOMAIN ready /\ Carries(j, c)
        BY <2>2, <3>1
      <4>2. QED
        BY <3>1, <4>1 DEF Entries
    <3>2. CASE u # t /\ v # t
      <4>1. batch'[u] = batch[u] /\ batch'[v] = batch[v]
        BY <1>2, <3>2
      <4>2. QED
        BY <4>1 DEF Entries
    <3>3. CASE u = t /\ v # t
      <4>1. i \in DOMAIN ready /\ Carries(i, c) /\ batch'[v] = batch[v]
        BY <1>2, <2>2, <3>3
      <4>2. QED
        BY <4>1 DEF Entries
    <3>4. CASE u # t /\ v = t
      <4>1. j \in DOMAIN ready /\ Carries(j, c) /\ batch'[u] = batch[u]
        BY <1>2, <2>2, <3>4
      <4>2. QED
        BY <4>1 DEF Entries
    <3>5. QED
      BY <3>1, <3>2, <3>3, <3>4
  <2>7. QED
    BY <2>3, <2>4, <2>5, <2>6 DEF Entries
<1>7. QED
  BY <1>3, <1>4, <1>5, <1>6

(* What is left of a batch when its first entry is taken off.              *)
LEMMA BatchTail ==
  ASSUME TypeOK, NEW t \in Threads, batch[t] # <<>>,
         batch' = [batch EXCEPT ![t] = Tail(@)]
  PROVE  /\ Head(batch[t]) \in Entry
         /\ Head(batch[t]) = batch[t][1]
         /\ 1 \in DOMAIN batch[t]
         /\ batch' \in [Threads -> Seq(Entry)]
         /\ \A u \in Threads : u # t => batch'[u] = batch[u]
         /\ \A i \in DOMAIN batch'[t] :
              i \in Nat /\ i + 1 \in DOMAIN batch[t] /\ i # 0 /\ batch'[t][i] = batch[t][i + 1]
         /\ \A i \in DOMAIN batch[t] : i # 1 => i - 1 \in DOMAIN batch'[t] /\ batch'[t][i - 1] = batch[t][i]
<1>1. batch[t] \in Seq(Entry) /\ DOMAIN batch[t] = 1 .. Len(batch[t])
      /\ Len(batch[t]) \in Nat /\ Len(batch[t]) # 0
  BY LenProperties, EmptySeq DEF TypeOK
<1>2. /\ Head(batch[t]) \in Entry
      /\ Tail(batch[t]) \in Seq(Entry)
      /\ Len(Tail(batch[t])) = Len(batch[t]) - 1
      /\ \A i \in 1 .. Len(Tail(batch[t])) : Tail(batch[t])[i] = batch[t][i + 1]
  BY <1>1, HeadTailProperties
<1>3. Head(batch[t]) = batch[t][1]
  BY <1>1
<1>4. batch'[t] = Tail(batch[t]) /\ DOMAIN batch'[t] = 1 .. Len(batch[t]) - 1
  BY <1>1, <1>2, LenProperties DEF TypeOK
<1>5. batch' \in [Threads -> Seq(Entry)] /\ \A u \in Threads : u # t => batch'[u] = batch[u]
  BY <1>2 DEF TypeOK
<1>6. QED
  BY <1>1, <1>2, <1>3, <1>4, <1>5

LEMMA DispatchPreserves ==
  ASSUME Inv, NEW t \in Threads,
         DispatchInterrupt(t) \/ DispatchResume(t) \/ DispatchRearm(t)
  PROVE  Inv'
<1> USE ContextConstants DEF Inv, kernel
<1> DEFINE c == Head(batch[t])
<1>0. /\ pc[t] = "dispatch" /\ batch[t] # <<>> /\ batch' = [batch EXCEPT ![t] = Tail(@)]
      /\ UNCHANGED <<stopRequested, threadCount, kernel, calls>>
  BY DEF DispatchInterrupt, DispatchResume, DispatchRearm
<1> HIDE DEF c
<1>1. /\ c \in Entry
      /\ c = batch[t][1]
      /\ 1 \in DOMAIN batch[t]
      /\ batch' \in [Threads -> Seq(Entry)]
      /\ \A u \in Threads : u # t => batch'[u] = batch[u]
      /\ \A i \in DOMAIN batch'[t] :
           i \in Nat /\ i + 1 \in DOMAIN batch[t] /\ i # 0 /\ batch'[t][i] = batch[t][i + 1]
  BY <1>0, BatchTail DEF c
(* At most the coroutine of the first entry changes.                       *)
<1>2. /\ co' \in [Coroutines -> {"running", "stopping", "scheduled", "armed", "signalled", "finished"}]
      /\ host' \in [Coroutines -> Threads \cup {Nil}]
      /\ pc' \in [Threads -> {"outside", "wait", "dispatch", "resuming", "leave", "interrupt", "returned"}]
      /\ interrupted' \in [Threads -> BOOLEAN]
      /\ \A d \in Coroutines : d # c => co'[d] = co[d]
      /\ \A u \in Threads : pc'[u] # pc[u] => u = t /\ pc'[u] = "resuming"
  <2>1. CASE DispatchInterrupt(t)
    BY <2>1 DEF DispatchInterrupt, TypeOK
  <2>2. CASE DispatchResume(t)
    BY <1>1, <2>2 DEF DispatchResume, TypeOK, Entry, c
  <2>3. CASE DispatchRearm(t)
    BY <1>1, <2>3 DEF DispatchRearm, TypeOK, Entry, c
  <2>4. QED
    BY <2>1, <2>2, <2>3
<1>3. TypeOK'
  BY <1>0, <1>1, <1>2 DEF TypeOK
<1>4. Tidy'
  BY <1>0, <1>1, <1>2 DEF Tidy, TypeOK
<1>5. CountCoversRunning'
  <2>1. Counted' = Counted
    BY <1>0, <1>2 DEF Counted
  <2>2. CASE DispatchResume(t)
    BY <1>0, <1>1, <2>1, <2>2 DEF DispatchResume, CountCoversRunning, TypeOK, Entry, c
  <2>3. CASE DispatchInterrupt(t) \/ DispatchRearm(t)
    BY <1>0, <2>1, <2>3 DEF DispatchInterrupt, DispatchRearm, CountCoversRunning
  <2>4. QED
    BY <2>2, <2>3
<1>6. Entries'
  <2>1. \A d \in Coroutines : \A u \in Threads : \A i \in DOMAIN batch'[u] :
          batch'[u][i] = d =>
            /\ d # c
            /\ \E j \in DOMAIN batch[u] : batch[u][j] = d /\ j = IF u = t THEN i + 1 ELSE i
    BY <1>1 DEF Entries
  <2>2. \A i \in DOMAIN ready : \A d \in Coroutines : Carries(i, d) => d # c
    BY <1>1 DEF Entries
  <2>3. ready' = ready /\ \A i, d : Carries(i, d)' <=> Carries(i, d)
    BY <1>0 DEF Carries
  <2>4. \A d \in Coroutines :
          /\ \A i \in DOMAIN ready' : Carries(i, d)' => co'[d] \in {"scheduled", "signalled"}
          /\ \A u \in Threads : \A i \in DOMAIN batch'[u] :
               batch'[u][i] = d => co'[d] \in {"scheduled", "signalled"}
          /\ \A i \in DOMAIN ready' : \A u \in Threads : \A j \in DOMAIN batch'[u] :
               ~ (Carries(i, d)' /\ batch'[u][j] = d)
          /\ \A i, j \in DOMAIN ready' : Carries(i, d)' /\ Carries(j, d)' => i = j
    BY <1>2, <2>1, <2>2, <2>3 DEF Entries
  <2>5. \A d \in Coroutines : \A u, v \in Threads : \A i \in DOMAIN batch'[u], j \in DOMAIN batch'[v] :
          batch'[u][i] = d /\ batch'[v][j] = d => u = v /\ i = j
    <3> SUFFICES ASSUME NEW d \in Coroutines, NEW u \in Threads, NEW v \in Threads,
                        NEW i \in DOMAIN batch'[u], NEW j \in DOMAIN batch'[v],
                        batch'[u][i] = d, batch'[v][j] = d
                 PROVE  u = v /\ i = j
      OBVIOUS
    <3>1. PICK k \in DOMAIN batch[u] : batch[u][k] = d /\ k = IF u = t THEN i + 1 ELSE i
      BY <2>1
    <3>2. PICK l \in DOMAIN batch[v] : batch[v][l] = d /\ l = IF v = t THEN j + 1 ELSE j
      BY <2>1
    <3>3. u = v /\ k = l
      BY <3>1, <3>2 DEF Entries
    <3>4. QED
      BY <1>1, <3>1, <3>2, <3>3
  <2>6. QED
    BY <2>4, <2>5 DEF Entries
<1>7. QED
  BY <1>3, <1>4, <1>5, <1>6

(* The steps of every loop of ContextMC: a failing loop differs in its     *)
(* buffers, and an eventfd in what a post does.                            *)
LoopThreadStep(t) ==
  \/ Enter(t) \/ ThreadStep(t)
  \/ Failing!Wait(t) \/ Failing!WaitFails(t) \/ Losing!PassOn(t)

LoopCoroutineStep(c) ==
  \/ CoroutineStep(c) \/ IoReady(c)
  \/ Losing!Schedule(c) \/ Losing!StopInterrupt(c) \/ Losing!Interrupt(c)

LoopStep ==
  \/ \E t \in Threads : LoopThreadStep(t)
  \/ \E c \in Coroutines : LoopCoroutineStep(c)
  \/ UNCHANGED vars

LEMMA LoopThreadSteps ==
  ASSUME NEW t \in Threads,
         \/ Failing!Enter(t) \/ Failing!ThreadStep(t)
         \/ Losing!Enter(t) \/ Losing!ThreadStep(t)
  PROVE  LoopThreadStep(t)
<1> USE DEF kernel, loop, Failing!kernel, Losing!kernel, Failing!loop, Losing!loop, Entry
<1>1. Failing!Enter(t) \/ Losing!Enter(t) => Enter(t)
  BY DEF Enter, Failing!Enter, Losing!Enter
<1>2. Losing!Wait(t) => Wait(t)
  BY DEF Wait, Losing!Wait
<1>3. Losing!WaitFails(t) => WaitFails(t)
  BY DEF WaitFails, Losing!WaitFails
<1>4. Failing!DispatchInterrupt(t) \/ Losing!DispatchInterrupt(t) => DispatchInterrupt(t)
  BY DEF DispatchInterrupt, Failing!DispatchInterrupt, Losing!DispatchInterrupt
<1>5. Failing!DispatchResume(t) \/ Losing!DispatchResume(t) => DispatchResume(t)
  BY DEF DispatchResume, Failing!DispatchResume, Losing!DispatchResume
<1>6. Failing!DispatchRearm(t) \/ Losing!DispatchRearm(t) => DispatchRearm(t)
  BY DEF DispatchRearm, Failing!DispatchRearm, Losing!DispatchRearm
<1>7. Failing!EndBatch(t) \/ Losing!EndBatch(t) => EndBatch(t)
  BY DEF EndBatch, Failing!EndBatch, Losing!EndBatch
<1>8. Failing!Leave(t) \/ Losing!Leave(t) => Leave(t)
  BY DEF Leave, Failing!Leave, Losing!Leave
<1>9. Failing!PassOn(t) => Losing!PassOn(t)
  BY DEF Failing!PassOn, Losing!PassOn, Failing!Post, Losing!Post, Failing!ToSet, Losing!ToSet
<1> QED
  BY <1>1, <1>2, <1>3, <1>4, <1>5, <1>6, <1>7, <1>8, <1>9
  DEF LoopThreadStep, ThreadStep, Failing!ThreadStep, Losing!ThreadStep

LEMMA LoopCoroutineSteps ==
  ASSUME NEW c \in Coroutines,
         \/ Failing!CoroutineStep(c) \/ Failing!IoReady(c)
         \/ Losing!CoroutineStep(c) \/ Losing!IoReady(c)
  PROVE  LoopCoroutineStep(c)
<1> USE DEF kernel, loop, Failing!kernel, Losing!kernel, Failing!loop, Losing!loop,
            GiveBackThread, Failing!GiveBackThread, Losing!GiveBackThread
<1>1. Failing!IoReady(c) \/ Losing!IoReady(c) => IoReady(c)
  BY DEF IoReady, Failing!IoReady, Losing!IoReady
<1>2. ~Failing!Schedule(c)
  BY DEF Failing!Schedule
<1>3. Failing!AwaitIo(c) \/ Losing!AwaitIo(c) => AwaitIo(c)
  BY DEF AwaitIo, Failing!AwaitIo, Losing!AwaitIo
<1>4. Failing!Finish(c) \/ Losing!Finish(c) => Finish(c)
  BY DEF Finish, Failing!Finish, Losing!Finish
<1>5. Failing!Stop(c) \/ Losing!Stop(c) => Stop(c)
  BY DEF Stop, Failing!Stop, Losing!Stop
<1>6. Failing!StopInterrupt(c) => Losing!StopInterrupt(c)
  BY DEF Failing!StopInterrupt, Losing!StopInterrupt, Failing!Post, Losing!Post,
         Failing!ToSet, Losing!ToSet
<1>7. Failing!Interrupt(c) => Losing!Interrupt(c)
  BY DEF Failing!Interrupt, Losing!Interrupt, Failing!Post, Losing!Post,
         Failing!ToSet, Losing!ToSet
<1> QED
  BY <1>1, <1>2, <1>3, <1>4, <1>5, <1>6, <1>7
  DEF LoopCoroutineStep, CoroutineStep, Failing!CoroutineStep, Losing!CoroutineStep

LEMMA LoopSteps == Next \/ Failing!Next \/ Losing!Next => LoopStep
<1>1. Next => LoopStep
  BY DEF Next, LoopStep, LoopThreadStep, LoopCoroutineStep
<1>2. Failing!Next => LoopStep
  BY LoopThreadSteps, LoopCoroutineSteps DEF Failing!Next, LoopStep
<1>3. Losing!Next => LoopStep
  BY LoopThreadSteps, LoopCoroutineSteps DEF Losing!Next, LoopStep
<1> QED
  BY <1>1, <1>2, <1>3

LEMMA LoopPreserves == Inv /\ LoopStep => Inv'
<1> SUFFICES ASSUME Inv, LoopStep PROVE Inv'
  OBVIOUS
<1>1. CASE UNCHANGED vars
  BY <1>1 DEF Inv, vars, kernel, loop, TypeOK, Tidy, CountCoversRunning, Counted, Entries, Carries
<1>2. CASE \E t \in Threads : LoopThreadStep(t)
  <2> PICK t \in Threads : LoopThreadStep(t)
    BY <1>2
  <2>1. CASE Enter(t)
    BY <2>1, EnterPreserves
  <2>2. CASE Wait(t) \/ Failing!Wait(t)
    BY <2>2, WaitPreserves
  <2>3. CASE WaitFails(t) \/ EndBatch(t) \/ Failing!WaitFails(t)
    BY <2>3, TurnPreserves
  <2>4. CASE DispatchInterrupt(t) \/ DispatchResume(t) \/ DispatchRearm(t)
    BY <2>4, DispatchPreserves
  <2>5. CASE Leave(t)
    BY <2>5, LeavePreserves
  <2>6. CASE PassOn(t) \/ Losing!PassOn(t)
    BY <2>6, PassOnPreserves
  <2>7. QED
    BY <2>1, <2>2, <2>3, <2>4, <2>5, <2>6 DEF LoopThreadStep, ThreadStep
<1>3. CASE \E c \in Coroutines : LoopCoroutineStep(c)
  <2> PICK c \in Coroutines : LoopCoroutineStep(c)
    BY <1>3
  <2>1. CASE Schedule(c) \/ Losing!Schedule(c)
    BY <2>1, SchedulePreserves
  <2>2. CASE AwaitIo(c) \/ Finish(c)
    BY <2>2, SuspendPreserves
  <2>3. CASE Stop(c)
    BY <2>3, StopPreserves
  <2>4. CASE \/ StopInterrupt(c) \/ Interrupt(c)
            \/ Losing!StopInterrupt(c) \/ Losing!Interrupt(c)
    BY <2>4, InterruptPreserves
  <2>5. CASE IoReady(c)
    BY <2>5, IoReadyPreserves
  <2>6. QED
    BY <2>1, <2>2, <2>3, <2>4, <2>5 DEF LoopCoroutineStep, CoroutineStep
<1>4. QED
  BY <1>1, <1>2, <1>3 DEF LoopStep

LEMMA NextPreserves == Inv /\ [Next]_vars => Inv'
<1>1. [Next]_vars => LoopStep
  BY LoopSteps DEF LoopStep
<1>2. QED
  BY <1>1, LoopPreserves

LEMMA Invariance == Spec => []Inv
<1>1. QED
  BY InitInv, NextPreserves, PTL DEF Spec

(* The type invariant, for every set of threads, coroutines and buffers.   *)
THEOREM TypeCorrectness == Spec => []TypeOK
<1>1. Inv => TypeOK
  BY DEF Inv
<1>2. QED
  BY <1>1, Invariance, PTL

(* state_ counts the threads in the loop, and a coroutine the loop runs    *)
(* keeps its thread counted.                                               *)
THEOREM CountCorrect == Spec => []CountCoversRunning
<1>1. Inv => CountCoversRunning
  BY DEF Inv
<1>2. QED
  BY <1>1, Invariance, PTL

(* run() dispatches only events whose coroutine is suspended, each once,   *)
(* on either back end and whatever schedules race.                         *)
THEOREM DispatchesSuspended == Spec => []EntriesSuspended
<1>1. Inv => EntriesSuspended
  BY EntriesSlots DEF Inv
<1>2. QED
  BY <1>1, Invariance, PTL

-----------------------------------------------------------------------------
(* The stop protocol, where no post can overwrite another: each has its    *)
(* own packet, or every post is an interrupt.                              *)
PostsSurvive == Backend = "iocp" \/ Schedulers = {}

WakeInv == noteData = Nil /\ StopNeverForgotten

(* An interrupt is a wake-up by itself.                                    *)
LEMMA InterruptWakes ==
  ASSUME Inv, noteData = Nil, Post(Nil)
  PROVE  WakeInv'
<1>1. noteData' = Nil
  BY DEF Post
<1>2. Queued(Nil)'
  BY PostAppends DEF Inv, Entry
<1>3. QED
  BY <1>1, <1>2 DEF WakeInv, StopNeverForgotten, WakeInFlight

(* Appending an entry hides none.                                          *)
LEMMA AppendKeepsQueued ==
  ASSUME Inv, NEW e \in Entry, ready' = Append(ready, e), UNCHANGED noteData, Queued(Nil)
  PROVE  Queued(Nil)'
<1>1. /\ DOMAIN ready = 1 .. Len(ready) /\ Len(ready) \in Nat
      /\ ready' \in Seq(Entry \cup {Note})
      /\ Len(ready') = Len(ready) + 1
      /\ \A i \in 1 .. Len(ready) : ready'[i] = ready[i]
  BY AppendProperties, LenProperties DEF Inv, TypeOK
<1>2. DOMAIN ready' = 1 .. Len(ready) + 1
  BY <1>1, LenProperties
<1>3. QED
  BY <1>1, <1>2 DEF Queued, Carries

LEMMA WaitKeepsWake ==
  ASSUME Inv, WakeInv, stopRequested, NEW t \in Threads, Wait(t)
  PROVE  WakeInFlight'
<1> USE ContextConstants
<1>1. /\ pc[t] = "wait" /\ pc' = [pc EXCEPT ![t] = "dispatch"]
      /\ UNCHANGED <<noteData, interrupted, co>>
  BY DEF Wait
<1>2. PICK n \in Nat :
           /\ n <= Len(ready)
           /\ ready' \in Seq(Entry \cup {Note})
           /\ batch' \in [Threads -> Seq(Entry)]
           /\ \A u \in Threads : u # t => batch'[u] = batch[u]
           /\ DOMAIN ready = 1 .. Len(ready) /\ Len(ready) \in Nat
           /\ DOMAIN ready' = 1 .. Len(ready) - n
           /\ \A i \in DOMAIN ready' : ready'[i] = ready[n + i]
           /\ DOMAIN batch'[t] = 1 .. n
           /\ \A i \in 1 .. n :
                batch'[t][i] = IF ready[i] = Note THEN noteData ELSE ready[i]
  BY WaitMoves
<1>3. WakeInFlight
  BY DEF WakeInv, StopNeverForgotten
<1>4. CASE Queued(Nil)
  <2>1. PICK i \in DOMAIN ready : Carries(i, Nil)
    BY <1>4 DEF Queued
  <2>2. CASE i <= n
    <3>1. i \in DOMAIN batch'[t] /\ batch'[t][i] = Nil
      BY <1>2, <2>1, <2>2 DEF Carries
    <3>2. Held(t, Nil)'
      BY <1>1, <3>1 DEF Held, Inv, TypeOK
    <3>3. QED
      BY <3>2 DEF WakeInFlight
  <2>3. CASE i > n
    <3>1. i - n \in DOMAIN ready' /\ ready'[i - n] = ready[i]
      BY <1>2, <2>3
    <3>2. Queued(Nil)'
      BY <1>1, <2>1, <3>1 DEF Queued, Carries
    <3>3. QED
      BY <3>2 DEF WakeInFlight
  <2>4. QED
    BY <1>2, <2>2, <2>3
<1>5. CASE ~Queued(Nil)
  <2>1. \A u \in Threads : u # t => pc'[u] = pc[u] /\ batch'[u] = batch[u]
    BY <1>1, <1>2 DEF Inv, TypeOK
  <2>2. QED
    BY <1>1, <1>3, <1>5, <2>1 DEF WakeInFlight, Held
<1>6. QED
  BY <1>4, <1>5

LEMMA DispatchKeepsWake ==
  ASSUME Inv, WakeInv, stopRequested, NEW t \in Threads, DispatchResume(t) \/ DispatchRearm(t)
  PROVE  WakeInFlight'
<1> USE ContextConstants DEF kernel
<1> DEFINE c == Head(batch[t])
<1>0. /\ pc[t] = "dispatch" /\ batch[t] # <<>> /\ batch' = [batch EXCEPT ![t] = Tail(@)]
      /\ c # Nil
      /\ UNCHANGED <<kernel, interrupted>>
  BY DEF DispatchResume, DispatchRearm
<1> HIDE DEF c
<1>1. /\ c \in Coroutines /\ c = batch[t][1]
      /\ 1 \in DOMAIN batch[t]
      /\ \A u \in Threads : u # t => batch'[u] = batch[u]
      /\ \A i \in DOMAIN batch[t] :
           i # 1 => i - 1 \in DOMAIN batch'[t] /\ batch'[t][i - 1] = batch[t][i]
  BY <1>0, BatchTail DEF c, Inv, Entry
<1>2. co[c] # "stopping"
  BY <1>1 DEF Inv, Entries
<1>3. /\ \A d \in Coroutines : d # c => co'[d] = co[d]
      /\ pc'[t] \in {"dispatch", "resuming"}
      /\ \A u \in Threads : u # t => pc'[u] = pc[u]
  BY <1>0 DEF DispatchResume, DispatchRearm, Inv, TypeOK, c
<1>4. Queued(Nil) => Queued(Nil)'
  BY <1>0 DEF Queued, Carries
<1>5. \A u \in Threads : Held(u, Nil) => Held(u, Nil)'
  <2> SUFFICES ASSUME NEW u \in Threads, Held(u, Nil)
               PROVE  Held(u, Nil)'
    OBVIOUS
  <2>1. PICK i \in DOMAIN batch[u] : batch[u][i] = Nil
    BY DEF Held
  <2>2. CASE u = t
    <3>1. i # 1
      BY <1>0, <1>1, <2>1, <2>2
    <3>2. i - 1 \in DOMAIN batch'[t] /\ batch'[t][i - 1] = Nil
      BY <1>1, <2>1, <2>2, <3>1
    <3>3. Held(t, Nil)'
      BY <1>3, <3>2 DEF Held
    <3>4. QED
      BY <2>2, <3>3
  <2>3. CASE u # t
    BY <1>1, <1>3, <2>3 DEF Held
  <2>4. QED
    BY <2>2, <2>3
<1>6. WakeInFlight
  BY DEF WakeInv, StopNeverForgotten
<1>7. QED
  BY <1>0, <1>2, <1>3, <1>4, <1>5, <1>6 DEF WakeInFlight

LEMMA GiveBackKeepsWake ==
  ASSUME Inv, WakeInFlight, NEW c \in Coroutines, NEW s, GiveBackThread(c, s),
         UNCHANGED <<threadCount, batch, interrupted>>, co[c] # "stopping",
         Queued(Nil) => Queued(Nil)'
  PROVE  WakeInFlight'
<1>1. \A t \in Threads : pc'[t] # pc[t] => pc[t] = "resuming" /\ pc'[t] = "dispatch"
  BY GiveBackPreserves
<1>2. \A t \in Threads : Held(t, Nil) => Held(t, Nil)'
  BY <1>1 DEF Held
<1>3. \A d \in Coroutines : co[d] = "stopping" => co'[d] = "stopping"
  BY DEF GiveBackThread, Inv, TypeOK
<1>4. QED
  BY <1>1, <1>2, <1>3 DEF WakeInFlight

(* Every step either posts, moves or keeps the wake-up, or turns it into a *)
(* thread that leaves.                                                     *)
LEMMA WakeStep == ASSUME PostsSurvive PROVE Inv /\ WakeInv /\ [Next]_vars => WakeInv'
<1> SUFFICES ASSUME Inv, WakeInv, [Next]_vars PROVE WakeInv'
  OBVIOUS
<1> USE ContextConstants
<1>1. CASE UNCHANGED vars
  BY <1>1 DEF WakeInv, StopNeverForgotten, WakeInFlight, Queued, Carries, Held, vars, kernel, loop
<1>2. CASE \E t \in Threads : Enter(t) \/ ThreadStep(t)
  <2> PICK t \in Threads : Enter(t) \/ ThreadStep(t)
    BY <1>2
  <2>1. CASE Enter(t)
    <3>1. Queued(Nil)' <=> Queued(Nil)
      BY <2>1 DEF Enter, kernel, Queued, Carries
    <3>2. \A u \in Threads : u # t => (Held(u, Nil)' <=> Held(u, Nil)) /\ pc'[u] = pc[u]
      BY <2>1 DEF Enter, Held, Inv, TypeOK
    <3>3. pc[t] = "outside" /\ UNCHANGED <<stopRequested, noteData, interrupted, co>>
      BY <2>1 DEF Enter, kernel
    <3>4. WakeInFlight => WakeInFlight'
      BY <3>1, <3>2, <3>3 DEF WakeInFlight, Held
    <3>5. QED
      BY <3>3, <3>4 DEF WakeInv, StopNeverForgotten
  <2>2. CASE Wait(t)
    <3>1. UNCHANGED <<stopRequested, noteData>>
      BY <2>2 DEF Wait
    <3>2. stopRequested => WakeInFlight'
      BY <2>2, WaitKeepsWake
    <3>3. QED
      BY <3>1, <3>2 DEF WakeInv, StopNeverForgotten
  <2>3. CASE WaitFails(t)
    BY <2>3 DEF WaitFails, kernel, WakeInv, StopNeverForgotten, WakeInFlight, Inv, TypeOK
  <2>4. CASE DispatchInterrupt(t)
    BY <2>4 DEF DispatchInterrupt, kernel, WakeInv, StopNeverForgotten, WakeInFlight, Inv, TypeOK
  <2>5. CASE DispatchResume(t) \/ DispatchRearm(t)
    BY <2>5, DispatchKeepsWake
    DEF DispatchResume, DispatchRearm, kernel, WakeInv, StopNeverForgotten
  <2>6. CASE EndBatch(t)
    <3>1. CASE interrupted[t] /\ stopRequested
      BY <2>6, <3>1 DEF EndBatch, kernel, WakeInv, StopNeverForgotten, WakeInFlight, Inv, TypeOK
    <3>2. CASE ~stopRequested
      BY <2>6, <3>2 DEF EndBatch, kernel, WakeInv, StopNeverForgotten
    <3>3. CASE ~interrupted[t]
      <4>1. Queued(Nil)' <=> Queued(Nil)
        BY <2>6 DEF EndBatch, kernel, Queued, Carries
      <4>2. \A u \in Threads : u # t =>
              (Held(u, Nil)' <=> Held(u, Nil)) /\ pc'[u] = pc[u] /\ interrupted'[u] = interrupted[u]
        BY <2>6 DEF EndBatch, Held, Inv, TypeOK
      <4>3. ~Held(t, Nil)
        BY <2>6 DEF EndBatch, Held
      <4>4. QED
        BY <2>6, <3>3, <4>1, <4>2, <4>3
        DEF EndBatch, kernel, WakeInv, StopNeverForgotten, WakeInFlight
    <3>4. QED
      BY <3>1, <3>2, <3>3
  <2>7. CASE Leave(t)
    BY <2>7 DEF Leave, kernel, WakeInv, StopNeverForgotten, WakeInFlight, Inv, TypeOK
  <2>8. CASE PassOn(t)
    BY <2>8, InterruptWakes DEF PassOn, WakeInv
  <2>9. QED
    BY <2>1, <2>2, <2>3, <2>4, <2>5, <2>6, <2>7, <2>8 DEF ThreadStep
<1>3. CASE \E c \in Coroutines : CoroutineStep(c) \/ IoReady(c)
  <2> PICK c \in Coroutines : CoroutineStep(c) \/ IoReady(c)
    BY <1>3
  <2> c \in Entry
    BY DEF Entry
  <2>1. CASE Schedule(c)
    <3>1. Backend = "iocp" /\ ready' = Append(ready, c) /\ UNCHANGED noteData
      BY <2>1 DEF Schedule, PostsSurvive, Post
    <3>2. Queued(Nil) => Queued(Nil)'
      BY <3>1, AppendKeepsQueued
    <3>3. GiveBackThread(c, "scheduled") /\ co[c] = "running"
          /\ UNCHANGED <<stopRequested, threadCount, batch, interrupted>>
      BY <2>1 DEF Schedule
    <3>4. WakeInFlight => WakeInFlight'
      BY <3>2, <3>3, GiveBackKeepsWake
    <3>5. QED
      BY <3>1, <3>3, <3>4 DEF WakeInv, StopNeverForgotten
  <2>2. CASE AwaitIo(c) \/ Finish(c)
    <3>1. PICK s \in {"armed", "finished"} : GiveBackThread(c, s)
      BY <2>2 DEF AwaitIo, Finish
    <3>2. co[c] = "running" /\ UNCHANGED <<stopRequested, threadCount, kernel, batch, interrupted>>
      BY <2>2 DEF AwaitIo, Finish
    <3>3. Queued(Nil) => Queued(Nil)'
      BY <3>2 DEF kernel, Queued, Carries
    <3>4. WakeInFlight => WakeInFlight'
      BY <3>1, <3>2, <3>3, GiveBackKeepsWake
    <3>5. QED
      BY <3>2, <3>4 DEF kernel, WakeInv, StopNeverForgotten
  <2>3. CASE Stop(c)
    BY <2>3 DEF Stop, kernel, WakeInv, StopNeverForgotten, WakeInFlight, Inv, TypeOK
  <2>4. CASE StopInterrupt(c) \/ Interrupt(c)
    BY <2>4, InterruptWakes DEF StopInterrupt, Interrupt, WakeInv
  <2>5. CASE IoReady(c)
    <3>1. Queued(Nil) => Queued(Nil)'
      BY <2>5, AppendKeepsQueued DEF IoReady
    <3>2. \A t \in Threads : Held(t, Nil)' <=> Held(t, Nil)
      BY <2>5 DEF IoReady, loop, Held
    <3>3. QED
      BY <2>5, <3>1, <3>2
      DEF IoReady, loop, WakeInv, StopNeverForgotten, WakeInFlight, Inv, TypeOK
  <2>6. QED
    BY <2>1, <2>2, <2>3, <2>4, <2>5 DEF CoroutineStep
<1>4. QED
  BY <1>1, <1>2, <1>3 DEF Next

(* A stop is never forgotten, with any number of threads, batches and      *)
(* repeated calls, as long as no schedule can take the eventfd             *)
(* registration away from an interrupt.                                    *)
THEOREM StopKept == ASSUME PostsSurvive PROVE Spec => []StopNeverForgotten
<1>1. Init => WakeInv
  BY DEF Init, WakeInv, StopNeverForgotten
<1>2. Inv /\ WakeInv /\ [Next]_vars => WakeInv'
  BY WakeStep
<1>3. WakeInv => StopNeverForgotten
  BY DEF WakeInv
<1>4. QED
  BY <1>1, <1>2, <1>3, Invariance, PTL DEF Spec

-----------------------------------------------------------------------------
(* Nobody is forgotten *)

(* Every coroutine in one of the states S has an entry of its own: one that *)
(* does not share the eventfd's registration, so no post takes it away.     *)
Remembered(S) ==
  \A c \in Coroutines : co[c] \in S =>
    (\E i \in DOMAIN ready : ready[i] = c) \/ \E t \in Threads : Held(t, c)

(* What a step must not do to be harmless: an entry in the queue stays, a   *)
(* batch and its thread's place too, and nobody new comes to wait.          *)
LEMMA UndisturbedRemembered ==
  ASSUME NEW S, Remembered(S),
         \A i \in DOMAIN ready : i \in DOMAIN ready' /\ ready'[i] = ready[i],
         \A t \in Threads : batch[t] # <<>> /\ pc[t] \in {"dispatch", "resuming"}
           => pc'[t] \in {"dispatch", "resuming"} /\ batch'[t] = batch[t],
         \A c \in Coroutines : co'[c] \in S => co[c] \in S \/ \E i \in DOMAIN ready' : ready'[i] = c
  PROVE  Remembered(S)'
<1> SUFFICES ASSUME NEW c \in Coroutines, co'[c] \in S,
                    \A i \in DOMAIN ready' : ready'[i] # c
             PROVE  \E t \in Threads : Held(t, c)'
  BY DEF Remembered
<1>1. PICK t \in Threads : Held(t, c)
  BY DEF Remembered
<1>2. batch[t] # <<>>
  BY <1>1 DEF Held
<1> QED
  BY <1>1, <1>2 DEF Held

LEMMA WaitRemembers ==
  ASSUME Inv, NEW S, Remembered(S), NEW t \in Threads, Wait(t) \/ Failing!Wait(t)
  PROVE  Remembered(S)'
<1>1. /\ pc[t] = "wait" /\ pc' = [pc EXCEPT ![t] = "dispatch"] /\ co' = co
      /\ batch[t] = <<>>
  BY DEF Wait, Failing!Wait, Inv, Tidy
<1>2. PICK n \in Nat :
           /\ n <= Len(ready)
           /\ \A u \in Threads : u # t => batch'[u] = batch[u]
           /\ DOMAIN ready = 1 .. Len(ready) /\ Len(ready) \in Nat
           /\ DOMAIN ready' = 1 .. Len(ready) - n
           /\ \A i \in DOMAIN ready' : ready'[i] = ready[n + i]
           /\ DOMAIN batch'[t] = 1 .. n
           /\ \A i \in 1 .. n :
                batch'[t][i] = IF ready[i] = Note THEN noteData ELSE ready[i]
  BY WaitMoves
<1>3. /\ pc'[t] = "dispatch"
      /\ \A u \in Threads : u # t => pc'[u] = pc[u]
  BY <1>1 DEF Inv, TypeOK
<1> SUFFICES ASSUME NEW c \in Coroutines, co[c] \in S
             PROVE  (\E i \in DOMAIN ready' : ready'[i] = c) \/ \E u \in Threads : Held(u, c)'
  BY <1>1 DEF Remembered
<1>4. CASE \E i \in DOMAIN ready : ready[i] = c
  <2> PICK i \in DOMAIN ready : ready[i] = c
    BY <1>4
  <2>1. CASE i \in 1 .. n
    <3>1. batch'[t][i] = c
      BY <1>2, <2>1, ContextConstants
    <3> QED
      BY <1>2, <1>3, <2>1, <3>1 DEF Held
  <2>2. CASE i \notin 1 .. n
    <3>1. i - n \in DOMAIN ready' /\ n + (i - n) = i
      BY <1>2, <2>2
    <3> QED
      BY <1>2, <3>1
  <2> QED
    BY <2>1, <2>2
<1>5. CASE \E u \in Threads : Held(u, c)
  <2> PICK u \in Threads : Held(u, c)
    BY <1>5
  <2>1. u # t
    BY <1>1 DEF Held
  <2> QED
    BY <1>2, <1>3, <2>1 DEF Held
<1> QED
  BY <1>4, <1>5 DEF Remembered

LEMMA DispatchRemembers ==
  ASSUME Inv, NEW S \in SUBSET {"signalled", "scheduled"}, Remembered(S), NEW t \in Threads,
         DispatchInterrupt(t) \/ DispatchResume(t) \/ DispatchRearm(t)
  PROVE  Remembered(S)'
<1> DEFINE c == Head(batch[t])
<1>1. /\ pc[t] = "dispatch" /\ batch[t] # <<>> /\ batch' = [batch EXCEPT ![t] = Tail(@)]
      /\ ready' = ready
  BY DEF DispatchInterrupt, DispatchResume, DispatchRearm, kernel
<1>2. /\ c = batch[t][1]
      /\ \A u \in Threads : u # t => batch'[u] = batch[u]
      /\ \A i \in DOMAIN batch[t] : i # 1 => i - 1 \in DOMAIN batch'[t] /\ batch'[t][i - 1] = batch[t][i]
  BY <1>1, BatchTail DEF Inv
<1> HIDE DEF c
<1>3. /\ \A d \in Coroutines : co'[d] \in S => d # c /\ co[d] \in S
      /\ \A u \in Threads : pc[u] \in {"dispatch", "resuming"} => pc'[u] \in {"dispatch", "resuming"}
  <2>1. CASE DispatchInterrupt(t)
    BY <2>1, ContextConstants DEF DispatchInterrupt, c
  <2>2. CASE DispatchResume(t)
    BY <2>2 DEF DispatchResume, c, Inv, TypeOK
  <2>3. CASE DispatchRearm(t)
    BY <2>3 DEF DispatchRearm, c, Inv, TypeOK
  <2> QED
    BY <2>1, <2>2, <2>3
<1> SUFFICES ASSUME NEW d \in Coroutines, co'[d] \in S, NEW u \in Threads, Held(u, d)
             PROVE  Held(u, d)'
  BY <1>1, <1>3 DEF Remembered
<1>4. d # c /\ pc'[u] \in {"dispatch", "resuming"}
  BY <1>3 DEF Held
<1>5. PICK i \in DOMAIN batch[u] : batch[u][i] = d
  BY DEF Held
<1>6. CASE u = t
  BY <1>2, <1>4, <1>5, <1>6 DEF Held
<1>7. CASE u # t
  BY <1>2, <1>4, <1>5, <1>7 DEF Held
<1> QED
  BY <1>6, <1>7

(* A step that schedules a coroutine queues an entry of its own for it.    *)
ScheduledQueued ==
  \A c \in Coroutines : co[c] # "scheduled" /\ co'[c] = "scheduled" =>
    \E i \in DOMAIN ready' : ready'[i] = c

LEMMA PacketsQueue == Inv /\ Backend = "iocp" /\ [Next]_vars => ScheduledQueued
<1> SUFFICES ASSUME Inv, Backend = "iocp", [Next]_vars, NEW d \in Coroutines,
                    co[d] # "scheduled", co'[d] = "scheduled"
             PROVE  \E i \in DOMAIN ready' : ready'[i] = d
  BY DEF ScheduledQueued
<1> USE DEF Inv, TypeOK
<1>1. CASE UNCHANGED vars
  BY <1>1 DEF vars
<1>2. CASE \E t \in Threads : Enter(t) \/ ThreadStep(t)
  BY <1>2 DEF ThreadStep, Enter, Wait, WaitFails, DispatchInterrupt, DispatchResume,
              DispatchRearm, EndBatch, Leave, PassOn
<1>3. ASSUME NEW c \in Coroutines, CoroutineStep(c) \/ IoReady(c)
      PROVE  \E i \in DOMAIN ready' : ready'[i] = d
  <2>1. Schedule(c) /\ c = d
    <3>1. CASE Schedule(c)
      BY <3>1 DEF Schedule, GiveBackThread
    <3>2. CASE AwaitIo(c) \/ Finish(c)
      BY <3>2 DEF AwaitIo, Finish, GiveBackThread
    <3>3. CASE Stop(c) \/ StopInterrupt(c) \/ Interrupt(c) \/ IoReady(c)
      BY <3>3 DEF Stop, StopInterrupt, Interrupt, IoReady
    <3> QED
      BY <1>3, <3>1, <3>2, <3>3 DEF CoroutineStep
  <2>2. ready' = Append(ready, c)
    BY <2>1 DEF Schedule, Post
  <2>3. c \in Entry \cup {Note} /\ ready \in Seq(Entry \cup {Note})
    BY DEF Entry
  <2>4. Len(ready) + 1 \in DOMAIN ready' /\ ready'[Len(ready) + 1] = c
    BY <2>2, <2>3, AppendOne
  <2> QED
    BY <2>1, <2>4
<1> QED
  BY <1>1, <1>2, <1>3 DEF Next

(* Every step of every loop remembers those whose socket operation is      *)
(* complete; where each post has a packet, also those that scheduled.      *)
LEMMA RememberedStep ==
  ASSUME Inv, NEW S \in SUBSET {"signalled", "scheduled"}, Remembered(S), LoopStep,
         "scheduled" \in S => ScheduledQueued
  PROVE  Remembered(S)'
<1> USE DEF Inv
<1>1. CASE UNCHANGED vars
  BY <1>1 DEF vars, kernel, loop, Remembered, Held
<1>2. ASSUME NEW t \in Threads, LoopThreadStep(t)
      PROVE  Remembered(S)'
  <2>1. CASE Enter(t)
    BY <2>1, UndisturbedRemembered DEF Enter, kernel, TypeOK
  <2>2. CASE Wait(t) \/ Failing!Wait(t)
    BY <2>2, WaitRemembers
  <2>3. CASE WaitFails(t) \/ EndBatch(t) \/ Failing!WaitFails(t) \/ Leave(t)
    BY <2>3, UndisturbedRemembered
    DEF WaitFails, EndBatch, Failing!WaitFails, Leave, kernel, Failing!kernel, TypeOK
  <2>4. CASE DispatchInterrupt(t) \/ DispatchResume(t) \/ DispatchRearm(t)
    BY <2>4, DispatchRemembers
  <2>5. CASE PassOn(t) \/ Losing!PassOn(t)
    <3>1. /\ Post(Nil) \/ Losing!Post(Nil)
          /\ pc[t] = "interrupt" /\ pc' = [pc EXCEPT ![t] = "returned"]
          /\ UNCHANGED <<batch, co>>
      BY <2>5 DEF PassOn, Losing!PassOn
    <3>2. \A i \in DOMAIN ready : i \in DOMAIN ready' /\ ready'[i] = ready[i]
      BY <3>1, PostAppends DEF Entry
    <3> QED
      BY <3>1, <3>2, UndisturbedRemembered DEF TypeOK
  <2> QED
    BY <1>2, <2>1, <2>2, <2>3, <2>4, <2>5 DEF LoopThreadStep, ThreadStep
<1>3. ASSUME NEW c \in Coroutines, LoopCoroutineStep(c)
      PROVE  Remembered(S)'
  <2>1. CASE Schedule(c) \/ Losing!Schedule(c)
    <3>1. /\ Post(c) \/ Losing!Post(c)
          /\ GiveBackThread(c, "scheduled") /\ UNCHANGED <<threadCount, batch>>
      BY <2>1 DEF Schedule, Losing!Schedule, GiveBackThread, Losing!GiveBackThread
    <3>2. \A i \in DOMAIN ready : i \in DOMAIN ready' /\ ready'[i] = ready[i]
      BY <3>1, PostAppends DEF Entry
    <3>3. "scheduled" \in S => \E i \in DOMAIN ready' : ready'[i] = c
      BY <2>1, <3>1 DEF ScheduledQueued, GiveBackThread, Schedule, Losing!Schedule, TypeOK
    <3>4. \A d \in Coroutines : co'[d] \in S => co[d] \in S \/ \E i \in DOMAIN ready' : ready'[i] = d
      BY <3>1, <3>3 DEF GiveBackThread, TypeOK
    <3>5. \A t \in Threads : pc[t] \in {"dispatch", "resuming"} => pc'[t] \in {"dispatch", "resuming"}
      BY <3>1 DEF GiveBackThread
    <3> QED
      BY <3>1, <3>2, <3>4, <3>5, UndisturbedRemembered
  <2>2. CASE AwaitIo(c) \/ Finish(c)
    <3>1. PICK s \in {"armed", "finished"} :
            GiveBackThread(c, s) /\ UNCHANGED <<ready, batch>>
      BY <2>2 DEF AwaitIo, Finish, kernel
    <3>2. \A d \in Coroutines : co'[d] \in S => co[d] \in S
      BY <3>1 DEF GiveBackThread, TypeOK
    <3>3. \A t \in Threads : pc[t] \in {"dispatch", "resuming"} => pc'[t] \in {"dispatch", "resuming"}
      BY <3>1 DEF GiveBackThread
    <3> QED
      BY <3>1, <3>2, <3>3, UndisturbedRemembered
  <2>3. CASE Stop(c)
    <3>1. \A d \in Coroutines : co'[d] \in S => co[d] \in S
      BY <2>3 DEF Stop, TypeOK
    <3> QED
      BY <2>3, <3>1, UndisturbedRemembered DEF Stop, kernel, loop
  <2>4. CASE StopInterrupt(c) \/ Interrupt(c) \/ Losing!StopInterrupt(c) \/ Losing!Interrupt(c)
    <3>1. /\ Post(Nil) \/ Losing!Post(Nil)
          /\ UNCHANGED <<pc, batch>>
          /\ co' = [co EXCEPT ![c] = "running"] \/ co' = co
      BY <2>4 DEF StopInterrupt, Interrupt, Losing!StopInterrupt, Losing!Interrupt, loop, Losing!loop
    <3>2. \A i \in DOMAIN ready : i \in DOMAIN ready' /\ ready'[i] = ready[i]
      BY <3>1, PostAppends DEF Entry
    <3>3. \A d \in Coroutines : co'[d] \in S => co[d] \in S
      BY <3>1 DEF TypeOK
    <3> QED
      BY <3>1, <3>2, <3>3, UndisturbedRemembered
  <2>5. CASE IoReady(c)
    <3>1. /\ \A i \in DOMAIN ready : i \in DOMAIN ready' /\ ready'[i] = ready[i]
          /\ \E i \in DOMAIN ready' : ready'[i] = c
      <4>1. ready' = Append(ready, c) /\ c \in Entry \cup {Note} /\ ready \in Seq(Entry \cup {Note})
        BY <2>5 DEF IoReady, Entry, TypeOK
      <4> QED
        BY <4>1, AppendOne
    <3>2. \A d \in Coroutines : d # c => co'[d] = co[d]
      BY <2>5 DEF IoReady, TypeOK
    <3> QED
      BY <2>5, <3>1, <3>2, UndisturbedRemembered DEF IoReady, loop
  <2> QED
    BY <1>3, <2>1, <2>2, <2>3, <2>4, <2>5 DEF LoopCoroutineStep, CoroutineStep
<1> QED
  BY <1>1, <1>2, <1>3 DEF LoopStep

LEMMA InitRemembered == Init => \A S \in SUBSET {"signalled", "scheduled"} : Remembered(S)
  BY DEF Init, Remembered

(* A completed socket operation always has its entry, on both back ends,   *)
(* and so does a scheduled coroutine where each post has a packet.         *)
THEOREM NobodyLost == Spec => []NobodyForgotten
<1> DEFINE S == IF Backend = "iocp" THEN {"signalled", "scheduled"} ELSE {"signalled"}
<1>1. Init => Remembered(S)
  BY InitRemembered
<1>2. Inv /\ Remembered(S) /\ [Next]_vars => Remembered(S)'
  <2>1. [Next]_vars => LoopStep
    BY LoopSteps DEF LoopStep
  <2> QED
    BY <2>1, PacketsQueue, RememberedStep
<1>3. Remembered(S) => NobodyForgotten
  BY DEF Remembered, NobodyForgotten, Queued, Carries
<1> QED
  BY <1>1, <1>2, <1>3, Invariance, PTL DEF Spec

(* The loops of ContextMC together: a coroutine whose socket operation is  *)
(* complete keeps its entry while threads leave, buffers are refused and   *)
(* posts replace one another.                                              *)
THEOREM LoopsForgetNobody == ASSUME Backend = "iocp" PROVE MCSpec => []LoopForgetsNobody
<1> DEFINE S == IF loopKind = "iocp" THEN {"signalled", "scheduled"} ELSE {"signalled"}
           I == Inv /\ Remembered(S)
<1>1. MCInit => I
  BY InitInv, InitRemembered DEF MCInit
<1>2. I /\ [MCNext]_vars_mc => I'
  <2> SUFFICES ASSUME I, [MCNext]_vars_mc PROVE I'
    OBVIOUS
  <2>1. LoopStep /\ UNCHANGED loopKind /\ (loopKind = "iocp" => [Next]_vars)
    BY LoopSteps DEF MCNext, vars_mc, LoopStep
  <2>2. Inv'
    BY <2>1, LoopPreserves
  <2>3. Remembered(S)'
    <3>1. CASE loopKind = "iocp"
      BY <2>1, <3>1, PacketsQueue, RememberedStep
    <3>2. CASE loopKind # "iocp"
      BY <2>1, <3>2, RememberedStep
    <3> QED
      BY <3>1, <3>2
  <2> QED
    BY <2>2, <2>3
<1>3. I => LoopForgetsNobody
  BY DEF Remembered, LoopForgetsNobody, NobodyForgotten, Losing!NobodyForgotten,
         Queued, Carries, Held, Losing!Queued, Losing!Carries, Losing!Held
<1> QED
  BY <1>1, <1>2, <1>3, PTL DEF MCSpec
=============================================================================
