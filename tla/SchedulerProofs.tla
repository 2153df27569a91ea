-------------------------- MODULE SchedulerProofs --------------------------
(* Proofs about Scheduler: whatever the number of processes, the width of   *)
(* the clock and the period of the switch.                                  *)
EXTENDS Scheduler, StructureProofs

(***************************************************************************)
(* The inductive invariant.                                                *)
(***************************************************************************)

\* A block that is not allocated is never chosen: its state is TERMINATED.
DeadAreTerminated == \A p \in PCB : p \notin live => state[p] = "TERMINATED"

\* The idle process is out of reach of the calls that take a process out of
\* action, and only a tick makes it scan.
IdleNeverLeaves ==
    /\ current_process = Idle => state[Idle] = "RUNNING"
    /\ pc = "scan" /\ current_process = Idle => handler

\* The blocks in use are a list, and process_get_next stands on one of them.
ListOK ==
    /\ IsList(Idle, next, NULL, PCB, live)
    /\ scan_next \in live

SchedInv ==
    /\ TypeOK
    /\ ListOK
    /\ DeadAreTerminated
    /\ IdleNeverLeaves
    /\ OnlyRunnableRuns
    /\ FallbackIsReady
    /\ IdleHasInterrupts

\* The clock stays in range, and so does every time to wake up.
LEMMA ClockWraps ==
  ASSUME NEW n \in Nat
  PROVE  n % TIME \in 0 .. (TIME - 1)
  BY SchedulerAssumption

\* The walk along the list stays in the list, and goes on.
LEMMA AfterInList ==
  ASSUME ListOK, NEW p \in live
  PROVE  After(p) \in live /\ (p # Idle => After(p) # p)
<1>1. next[p] \in live \cup {NULL} /\ next[p] # p /\ Idle \in live
  BY ListFacts, SchedulerAssumption DEF ListOK, PCB
<1> QED
  BY <1>1 DEF After

\* process_get_next cuts a terminated block out of the list.
LEMMA FreedFromList ==
  ASSUME ListOK, NEW p \in live, p # Idle
  PROVE  IsList(Idle, [Unlink(p) EXCEPT ![p] = NULL], NULL, PCB, live \ {p})
<1>1. IsList(Idle, Unlink(p), NULL, PCB, live \ {p})
  BY CutOutInside DEF ListOK, Unlink
<1>2. Unlink(p) \in [PCB -> PCB \cup {NULL}]
  BY <1>1 DEF IsList, ArePointers
<1> DEFINE links == [Unlink(p) EXCEPT ![p] = NULL]
<1>3. links \in [PCB -> PCB \cup {NULL}] /\ \A q \in live \ {p} : links[q] = Unlink(p)[q]
  <2>1. live \subseteq PCB
    BY ListFacts DEF ListOK
  <2> QED
    BY <1>2, <2>1
<1> HIDE DEF links
<1>4. IsList(Idle, links, NULL, PCB, live \ {p})
  BY <1>1, <1>3, ListIgnoresOthers
<1> QED
  BY <1>4 DEF links

\* process_create puts a block at the end of the list.
LEMMA AddedToList ==
  ASSUME ListOK, NEW proc \in PCB \ live
  PROVE  IsList(Idle, AddToList(proc), NULL, PCB, live \cup {proc})
<1> DEFINE links == [next EXCEPT ![proc] = NULL]
           added == LinkLast(Idle, links, NULL, proc)
<1>0. /\ IsList(Idle, next, NULL, PCB, live) /\ next \in [PCB -> PCB \cup {NULL}]
      /\ live \subseteq PCB /\ Idle # NULL
  BY ListFacts, SchedulerAssumption DEF ListOK, IsList, ArePointers, PCB
<1>1. links \in [PCB -> PCB \cup {NULL}] /\ links[proc] = NULL
      /\ \A q \in PCB : q # proc => links[q] = next[q]
  BY <1>0
<1> HIDE DEF links
<1>2. IsList(Idle, links, NULL, PCB, live)
  BY <1>0, <1>1, ListIgnoresOthers
<1>3. IsList(Idle, added, NULL, PCB, live \cup {proc})
  BY <1>0, <1>1, <1>2, AddedLast
<1>4. AddToList(proc) = added
  <2>1. added = [q \in PCB |-> IF q \in live /\ links[q] = NULL THEN proc ELSE links[q]]
    BY <1>1, <1>2 DEF LinkLast, IsList
  <2>2. LinkLast(Idle, next, NULL, proc)
          = [q \in PCB |-> IF q \in live /\ next[q] = NULL THEN proc ELSE next[q]]
    BY <1>0 DEF LinkLast, IsList
  <2>3. AddToList(proc) = [[q \in PCB |-> IF q \in live /\ next[q] = NULL THEN proc
                                          ELSE next[q]] EXCEPT ![proc] = NULL]
    BY <2>2 DEF AddToList
  <2> HIDE DEF added
  <2> QED
    BY <1>1, <2>1, <2>3
<1> HIDE DEF added
<1> QED
  BY <1>3, <1>4

(***************************************************************************)
(* What a switch does, whoever is switched to.                             *)
(***************************************************************************)

\* process_get_next may return a ready process or the running idle process.
MayBeChosen(p, states) ==
    /\ states \in [PCB -> States]
    /\ states[p] = "READY" \/ p = Idle
    /\ states[Idle] = state[Idle]
    /\ \A q \in PCB : states[q] = "RUNNING" => q = current_process

\* The process returned by process_get_next executes, it alone is marked as
\* running, and the idle process is ready with its interrupts to come, or has
\* them.
LEMMA ChosenEffect ==
  ASSUME SchedInv, pc = "scan",
         NEW p \in PCB, NEW states, MayBeChosen(p, states), Chosen(p, states)
  PROVE  /\ pc' = "run" /\ handler' = FALSE
         /\ scan_next' = Idle /\ start' = Idle
         /\ current_process' = p
         /\ state' \in [PCB -> States]
         /\ resumes' \in [PCB -> {"ret", "iret"}]
         /\ interrupts' \in BOOLEAN
         /\ state'[p] \in {"RUNNING", "READY"}
         /\ \A q \in PCB : state'[q] = "RUNNING" => q = p
         /\ \A q \in PCB : q # p /\ states[q] = "TERMINATED" =>
                               state'[q] = "TERMINATED"
         /\ p = Idle => state'[Idle] = "RUNNING" /\ interrupts'
         /\ p # Idle => state'[Idle] = "READY" /\ resumes'[Idle] = "iret"
<1> USE DEF MayBeChosen, States
<1>0. Idle \in PCB /\ current_process \in PCB /\ handler \in BOOLEAN
      /\ interrupts \in BOOLEAN /\ resumes \in [PCB -> {"ret", "iret"}]
  BY DEF SchedInv, TypeOK, PCB
<1>1. CASE p = current_process
  <2>1. /\ state' = states /\ interrupts' = (interrupts \/ handler)
        /\ current_process' = p /\ resumes' = resumes
    BY <1>1 DEF Chosen
  <2>2. p = Idle => handler /\ states[Idle] = "RUNNING"
    BY <1>1 DEF SchedInv, IdleNeverLeaves
  <2>3. p # Idle => states[Idle] = "READY" /\ resumes[Idle] = "iret"
    BY <1>1 DEF SchedInv, FallbackIsReady, IdleHasInterrupts
  <2> QED
    BY <1>0, <1>1, <2>1, <2>2, <2>3 DEF Chosen, ScanOver
<1>2. CASE p # current_process
  <2>1. /\ state' = [states EXCEPT
                        ![current_process] = IF @ = "RUNNING" THEN "READY" ELSE @,
                        ![p] = "RUNNING"]
        /\ current_process' = p
        /\ resumes' = [resumes EXCEPT
                            ![current_process] = IF handler THEN "iret" ELSE "ret",
                            ![p] = "ret"]
        /\ interrupts' = (interrupts \/ resumes[p] = "iret")
    BY <1>2 DEF Chosen, SwitchTo
  <2>2. p = Idle => resumes[p] = "iret"
    BY <1>2 DEF SchedInv, IdleHasInterrupts
  <2>3. p # Idle => state'[Idle] = "READY"
    <3>1. CASE current_process = Idle
      BY <1>0, <1>2, <2>1, <3>1 DEF SchedInv, IdleNeverLeaves
    <3>2. CASE current_process # Idle
      BY <1>0, <1>2, <2>1, <3>2 DEF SchedInv, FallbackIsReady
    <3> QED
      BY <3>1, <3>2
  <2>4. p # Idle => resumes'[Idle] = "iret"
    <3>1. CASE current_process = Idle
      BY <1>0, <1>2, <2>1, <3>1 DEF SchedInv, IdleNeverLeaves
    <3>2. CASE current_process # Idle
      BY <1>0, <1>2, <2>1, <3>2 DEF SchedInv, IdleHasInterrupts
    <3> QED
      BY <3>1, <3>2
  <2>5. \A q \in PCB : state'[q] = "RUNNING" => q = p
    BY <1>0, <1>2, <2>1
  <2> QED
    BY <1>0, <1>2, <2>1, <2>2, <2>3, <2>4, <2>5 DEF Chosen, ScanOver
<1> QED
  BY <1>1, <1>2

\* After a process was chosen, the invariant holds if nothing but that was
\* done to the blocks that are live.
LEMMA ChosenKeepsInv ==
  ASSUME SchedInv, pc = "scan",
         NEW p \in PCB, NEW states, MayBeChosen(p, states), Chosen(p, states),
         live' \subseteq live, p \in live', Idle \in live',
         \A q \in PCB : q \notin live' => states[q] = "TERMINATED",
         sleep_until' \in [PCB -> 0 .. (TIME - 1)],
         IsList(Idle, next', NULL, PCB, live'),
         system_time' = system_time
  PROVE  SchedInv'
<1>l. ListOK'
  BY ChosenEffect DEF ListOK
<1>1. TypeOK'
  <2>1. next' \in [PCB -> PCB \cup {NULL}]
    BY DEF IsList, ArePointers
  <2> QED
    BY <2>1, ChosenEffect DEF SchedInv, TypeOK, PCB
<1>2. DeadAreTerminated'
  BY ChosenEffect DEF DeadAreTerminated
<1>3. IdleNeverLeaves' /\ FallbackIsReady' /\ IdleHasInterrupts'
  BY ChosenEffect DEF IdleNeverLeaves, FallbackIsReady, IdleHasInterrupts
<1>4. OnlyRunnableRuns'
  BY ChosenEffect DEF OnlyRunnableRuns
<1> QED
  BY <1>l, <1>1, <1>2, <1>3, <1>4 DEF SchedInv

\* The end of a turn of the loop, which may have freed a block.
LEMMA ContinueKeepsInv ==
  ASSUME SchedInv, pc = "scan", NEW p \in live', Continue(p),
         live' \subseteq live, Idle \in live',
         \A q \in PCB : q \notin live' => state[q] = "TERMINATED",
         sleep_until' \in [PCB -> 0 .. (TIME - 1)],
         IsList(Idle, next', NULL, PCB, live'),
         system_time' = system_time
  PROVE  SchedInv'
<1>1. CASE p = start
  <2>1. Chosen(Idle, state)
    BY <1>1 DEF Continue
  <2>2. MayBeChosen(Idle, state) /\ Idle \in PCB
    BY DEF MayBeChosen, SchedInv, OnlyRunnableRuns, TypeOK, PCB
  <2> QED
    BY <2>1, <2>2, ChosenKeepsInv
<1>2. CASE p # start
  <2>1. scan_next' = p /\ UNCHANGED <<state, cpuVars, pc, start, handler>>
    BY <1>2 DEF Continue
  <2>2. TypeOK'
    <3>1. next' \in [PCB -> PCB \cup {NULL}]
      BY DEF IsList, ArePointers
    <3> QED
      BY <2>1, <3>1 DEF cpuVars, SchedInv, TypeOK
  <2>3. ListOK'
    BY <2>1 DEF ListOK
  <2> QED
    BY <2>1, <2>2, <2>3 DEF cpuVars, SchedInv, DeadAreTerminated, IdleNeverLeaves,
       OnlyRunnableRuns, FallbackIsReady, IdleHasInterrupts
<1> QED
  BY <1>1, <1>2

\* Every turn of the loop of process_get_next keeps the invariant.
LEMMA ScanKeepsInv ==
  ASSUME SchedInv, Scan
  PROVE  SchedInv'
<1>0. /\ scan_next \in PCB /\ Idle \in PCB /\ Idle \in live
      /\ state \in [PCB -> States]
      /\ \A q \in PCB : state[q] = "RUNNING" => q = current_process
  BY DEF SchedInv, TypeOK, OnlyRunnableRuns, PCB
<1>d. \A q \in PCB : q \notin live => state[q] = "TERMINATED"
  BY DEF SchedInv, DeadAreTerminated
<1>i. state[Idle] \in {"RUNNING", "READY"}
  BY DEF SchedInv, IdleNeverLeaves, FallbackIsReady
<1>t. /\ sleep_until \in [PCB -> 0 .. (TIME - 1)]
      /\ IsList(Idle, next, NULL, PCB, live) /\ scan_next \in live
  BY DEF SchedInv, TypeOK, ListOK
<1>a. After(scan_next) \in live /\ (scan_next # Idle => After(scan_next) # scan_next)
  BY <1>t, AfterInList DEF SchedInv
<1>1. CASE ScanReady
  <2>1. /\ pc = "scan" /\ state[scan_next] = "READY"
        /\ Chosen(scan_next, state)
        /\ UNCHANGED <<live, sleep_until, next, system_time>>
    BY <1>1 DEF ScanReady
  <2>2. MayBeChosen(scan_next, state) /\ scan_next \in live
    BY <1>0, <1>d, <2>1 DEF MayBeChosen
  <2> QED
    BY <1>0, <1>d, <1>t, <2>1, <2>2, ChosenKeepsInv
<1>2. CASE ScanWakes
  <2> DEFINE woken == [state EXCEPT ![scan_next] = "READY"]
  <2>1. /\ pc = "scan" /\ state[scan_next] = "BLOCKED"
        /\ Chosen(scan_next, woken)
        /\ UNCHANGED <<live, sleep_until, next, system_time>>
    BY <1>2 DEF ScanWakes, ShouldWake
  <2>2. MayBeChosen(scan_next, woken) /\ scan_next \in live
    BY <1>0, <1>d, <1>i, <2>1 DEF MayBeChosen, States
  <2>3. \A q \in PCB : q \notin live => woken[q] = "TERMINATED"
    BY <1>0, <1>d, <2>2
  <2> HIDE DEF woken
  <2> QED
    BY <1>0, <1>t, <2>1, <2>2, <2>3, ChosenKeepsInv
<1>3. CASE ScanFrees
  <2>1. /\ pc = "scan" /\ state[scan_next] = "TERMINATED"
        /\ next' = [Unlink(scan_next) EXCEPT ![scan_next] = NULL]
        /\ live' = live \ {scan_next}
        /\ sleep_until' = [sleep_until EXCEPT ![scan_next] = 0]
        /\ Continue(After(scan_next))
        /\ system_time' = system_time
    BY <1>3 DEF ScanFrees
  <2>2. Idle \in live' /\ live' \subseteq live /\ scan_next # Idle
        /\ After(scan_next) \in live'
    BY <1>0, <1>a, <1>i, <2>1
  <2>3. IsList(Idle, next', NULL, PCB, live')
    BY <1>t, <2>1, <2>2, FreedFromList DEF SchedInv
  <2>4. sleep_until' \in [PCB -> 0 .. (TIME - 1)]
    <3> DEFINE Times == 0 .. (TIME - 1)
    <3>1. 0 \in Times /\ sleep_until \in [PCB -> Times]
      BY <1>t, SchedulerAssumption
    <3> HIDE DEF Times
    <3>2. sleep_until' \in [PCB -> Times]
      BY <2>1, <3>1
    <3> QED
      BY <3>2 DEF Times
  <2>5. \A q \in PCB : q \notin live' => state[q] = "TERMINATED"
    BY <1>d, <2>1
  <2> QED
    BY <2>1, <2>2, <2>3, <2>4, <2>5, ContinueKeepsInv
<1>4. CASE ScanSkips
  <2>1. /\ pc = "scan" /\ Continue(After(scan_next))
        /\ UNCHANGED <<live, sleep_until, next, system_time>>
    BY <1>4 DEF ScanSkips
  <2> QED
    BY <1>0, <1>a, <1>d, <1>t, <2>1, ContinueKeepsInv
<1> QED
  BY <1>1, <1>2, <1>3, <1>4 DEF Scan

(***************************************************************************)
(* The calls and the tick.                                                 *)
(***************************************************************************)

\* process_yield begins its scan among the blocks.
LEMMA EnterScanTyped ==
  ASSUME SchedInv, pc = "run", NEW b \in BOOLEAN, EnterScan(b)
  PROVE  /\ pc' = "scan" /\ handler' = b
         /\ scan_next' \in live /\ scan_next' \in PCB /\ start' \in PCB
<1>1. After(current_process) \in live /\ live \subseteq PCB
  BY AfterInList DEF SchedInv, OnlyRunnableRuns, TypeOK
<1> QED
  BY <1>1 DEF EnterScan

\* A process that runs may put another process, or itself before a scan, in
\* any state but RUNNING; the idle process is never put in any.
LEMMA SetStateKeepsInv ==
  ASSUME SchedInv, pc = "run",
         NEW p \in live, p # Idle, NEW s \in States \ {"RUNNING"}, SetState(p, s),
         \/ p = current_process /\ EnterScan(FALSE)
         \/ p # current_process /\ UNCHANGED scanVars
         \/ s = "READY" /\ UNCHANGED scanVars,
         sleep_until' \in [PCB -> 0 .. (TIME - 1)],
         UNCHANGED <<live, next, cpuVars, system_time>>
  PROVE  SchedInv'
<1>0. p \in PCB /\ Idle \in PCB /\ state \in [PCB -> States]
  BY DEF SchedInv, TypeOK, PCB
<1>1. /\ state' \in [PCB -> States]
      /\ state'[p] = s /\ s # "RUNNING"
      /\ \A q \in PCB : q # p => state'[q] = state[q]
      /\ state'[Idle] = state[Idle]
  BY <1>0 DEF SetState
<1>2. UNCHANGED <<live, next, system_time, current_process, interrupts, resumes>>
  BY DEF cpuVars
<1>3. \/ /\ p = current_process /\ pc' = "scan" /\ handler' = FALSE
         /\ scan_next' \in live /\ scan_next' \in PCB /\ start' \in PCB
      \/ /\ p # current_process \/ s = "READY"
         /\ UNCHANGED <<pc, handler, scan_next, start>>
  BY EnterScanTyped DEF scanVars
<1>4. TypeOK'
  BY <1>1, <1>2, <1>3 DEF SchedInv, TypeOK
<1>5. DeadAreTerminated' /\ FallbackIsReady'
  BY <1>1, <1>2 DEF SchedInv, DeadAreTerminated, FallbackIsReady
<1>6. IdleNeverLeaves' /\ IdleHasInterrupts'
  BY <1>1, <1>2, <1>3 DEF SchedInv, IdleNeverLeaves, IdleHasInterrupts
<1>7. OnlyRunnableRuns'
  <2>1. \A q \in PCB : state'[q] = "RUNNING" => q = current_process'
    BY <1>1, <1>2 DEF SchedInv, OnlyRunnableRuns
  <2>2. pc' = "run" => /\ current_process' \in live'
                       /\ state'[current_process'] \in {"RUNNING", "READY"}
    BY <1>0, <1>1, <1>2, <1>3 DEF SchedInv, OnlyRunnableRuns, TypeOK
  <2> QED
    BY <2>1, <2>2 DEF OnlyRunnableRuns
<1>8. ListOK'
  BY <1>2, <1>3 DEF SchedInv, ListOK
<1> QED
  BY <1>4, <1>5, <1>6, <1>7, <1>8 DEF SchedInv

\* What a process that runs and is not the idle process is.
LEMMA RunningProcess ==
  ASSUME SchedInv, pc = "run"
  PROVE  current_process \in live /\ live \subseteq PCB
  BY DEF SchedInv, OnlyRunnableRuns, TypeOK

\* A new block is not the idle process nor the one that runs.
LEMMA CreateKeepsInv ==
  ASSUME SchedInv, process_create
  PROVE  SchedInv'
<1>0. /\ pc = "run" /\ current_process \in live
      /\ UNCHANGED <<current_process, interrupts, scanVars, system_time>>
  BY RunningProcess DEF process_create
<1>1. CASE UNCHANGED <<procVars, resumes>>
  BY <1>0, <1>1 DEF procVars, scanVars, SchedInv, TypeOK, ListOK, DeadAreTerminated,
     IdleNeverLeaves, OnlyRunnableRuns, FallbackIsReady, IdleHasInterrupts
<1>2. CASE ~ UNCHANGED <<procVars, resumes>>
  <2>1. PICK proc \in Procs \ live :
             /\ live' = live \cup {proc}
             /\ SetState(proc, "READY")
             /\ sleep_until' = [sleep_until EXCEPT ![proc] = 0]
             /\ next' = AddToList(proc)
             /\ resumes' = [resumes EXCEPT ![proc] = "iret"]
    BY <1>2 DEF process_create
  <2>2. proc \in PCB /\ proc # Idle /\ proc # current_process
    BY <1>0, <2>1, SchedulerAssumption DEF PCB
  <2>3. /\ state' \in [PCB -> States]
        /\ state'[proc] = "READY"
        /\ \A q \in PCB : q # proc => state'[q] = state[q]
        /\ \A q \in PCB : q # proc => resumes'[q] = resumes[q]
        /\ resumes' \in [PCB -> {"ret", "iret"}]
    BY <2>1, <2>2 DEF SetState, SchedInv, TypeOK, States
  <2>4. sleep_until' \in [PCB -> 0 .. (TIME - 1)]
    <3> DEFINE Times == 0 .. (TIME - 1)
    <3>1. 0 \in Times /\ sleep_until \in [PCB -> Times]
      BY SchedulerAssumption DEF SchedInv, TypeOK
    <3> HIDE DEF Times
    <3>2. sleep_until' \in [PCB -> Times]
      BY <2>1, <3>1
    <3> QED
      BY <3>2 DEF Times
  <2>5. IsList(Idle, next', NULL, PCB, live') /\ next' \in [PCB -> PCB \cup {NULL}]
    <3>1. IsList(Idle, next', NULL, PCB, live')
      BY <2>1, <2>2, AddedToList DEF SchedInv
    <3> QED
      BY <3>1 DEF IsList, ArePointers
  <2>6. Idle \in PCB /\ current_process \in PCB /\ Idle \in live
    BY DEF SchedInv, TypeOK, PCB
  <2>7. TypeOK'
    BY <1>0, <2>1, <2>2, <2>3, <2>4, <2>5, <2>6 DEF scanVars, SchedInv, TypeOK
  <2>8. DeadAreTerminated' /\ FallbackIsReady'
    BY <1>0, <2>1, <2>2, <2>3, <2>6 DEF SchedInv, DeadAreTerminated, FallbackIsReady
  <2>9. IdleNeverLeaves' /\ IdleHasInterrupts' /\ OnlyRunnableRuns'
    BY <1>0, <2>1, <2>2, <2>3, <2>6 DEF scanVars, SchedInv, IdleNeverLeaves,
       IdleHasInterrupts, OnlyRunnableRuns
  <2>10. ListOK'
    BY <1>0, <2>1, <2>5 DEF scanVars, SchedInv, ListOK
  <2> QED
    BY <2>7, <2>8, <2>9, <2>10 DEF SchedInv
<1> QED
  BY <1>1, <1>2

\* Entering process_get_next changes nothing but where the CPU is.
LEMMA EnterScanKeepsInv ==
  ASSUME SchedInv, pc = "run", NEW b \in BOOLEAN, EnterScan(b),
         current_process = Idle => b,
         system_time' \in 0 .. (TIME - 1), interrupts' \in BOOLEAN,
         UNCHANGED <<procVars, current_process, resumes>>
  PROVE  SchedInv'
<1>1. UNCHANGED <<live, state, sleep_until, next, current_process, resumes>>
  BY DEF procVars
<1>2. TypeOK'
  BY <1>1, EnterScanTyped DEF SchedInv, TypeOK
<1>3. DeadAreTerminated' /\ IdleNeverLeaves' /\ FallbackIsReady'
  BY <1>1, EnterScanTyped DEF SchedInv, DeadAreTerminated, IdleNeverLeaves,
     FallbackIsReady
<1>4. OnlyRunnableRuns' /\ IdleHasInterrupts'
  BY <1>1, EnterScanTyped DEF SchedInv, OnlyRunnableRuns, IdleHasInterrupts
<1>5. ListOK'
  BY <1>1, EnterScanTyped DEF SchedInv, ListOK
<1> QED
  BY <1>2, <1>3, <1>4, <1>5 DEF SchedInv

\* The calls that a process makes keep the invariant.
LEMMA CallsKeepInv ==
  ASSUME SchedInv, Calls
  PROVE  SchedInv'
<1>0. /\ system_time \in 0 .. (TIME - 1) /\ interrupts \in BOOLEAN
      /\ sleep_until \in [PCB -> 0 .. (TIME - 1)]
      /\ state \in [PCB -> States]
  BY DEF SchedInv, TypeOK
<1>1. CASE process_yield
  BY <1>0, <1>1, EnterScanKeepsInv DEF process_yield, cpuVars
<1>2. CASE process_create
  BY <1>2, CreateKeepsInv
<1>3. CASE process_exit
  BY <1>0, <1>3, RunningProcess, SetStateKeepsInv DEF process_exit, States
<1>4. ASSUME NEW ms \in SLEEPS, process_sleep(ms)
      PROVE  SchedInv'
  <2>1. (system_time + ms) % TIME \in 0 .. (TIME - 1)
    BY <1>0, ClockWraps, SchedulerAssumption
  <2>2. sleep_until' \in [PCB -> 0 .. (TIME - 1)]
    <3> DEFINE Times == 0 .. (TIME - 1)
               wake == (system_time + ms) % TIME
    <3>1. wake \in Times /\ sleep_until \in [PCB -> Times]
          /\ sleep_until' = [sleep_until EXCEPT ![current_process] = wake]
      BY <1>0, <1>4, <2>1 DEF process_sleep
    <3> HIDE DEF Times, wake
    <3>2. sleep_until' \in [PCB -> Times]
      BY <3>1
    <3> QED
      BY <3>2 DEF Times
  <2> QED
    BY <1>4, <2>2, RunningProcess, SetStateKeepsInv DEF process_sleep, States
<1>5. ASSUME NEW p \in live \ {Idle}, process_block(p)
      PROVE  SchedInv'
  BY <1>0, <1>5, SetStateKeepsInv DEF process_block, YieldIfCurrent, States
<1>6. ASSUME NEW p \in live \ {Idle}, process_unblock(p)
      PROVE  SchedInv'
  BY <1>0, <1>6, SetStateKeepsInv DEF process_unblock, States
<1>7. ASSUME NEW p \in live \ {Idle}, process_terminate(p)
      PROVE  SchedInv'
  BY <1>0, <1>7, SetStateKeepsInv DEF process_terminate, YieldIfCurrent, States
<1> QED
  BY <1>1, <1>2, <1>3, <1>4, <1>5, <1>6, <1>7 DEF Calls

\* The tick keeps it, whether it makes the current process yield or not.
LEMMA TickKeepsInv ==
  ASSUME SchedInv, process_timer_tick
  PROVE  SchedInv'
<1>1. system_time' \in 0 .. (TIME - 1)
  <2>1. system_time + 1 \in Nat
    BY SchedulerAssumption DEF SchedInv, TypeOK
  <2> QED
    BY <2>1, ClockWraps DEF process_timer_tick
<1>2. pc = "run" /\ interrupts /\ UNCHANGED <<procVars, current_process, resumes>>
  BY DEF process_timer_tick
<1>3. CASE system_time' % PERIOD = 0
  BY <1>1, <1>2, <1>3, EnterScanKeepsInv DEF process_timer_tick
<1>4. CASE system_time' % PERIOD # 0
  <2>1. UNCHANGED <<scanVars, interrupts>>
    BY <1>4 DEF process_timer_tick
  <2> QED
    BY <1>1, <1>2, <2>1 DEF procVars, scanVars, SchedInv, TypeOK, ListOK,
       DeadAreTerminated, IdleNeverLeaves, OnlyRunnableRuns, FallbackIsReady,
       IdleHasInterrupts
<1> QED
  BY <1>3, <1>4

(***************************************************************************)
(* The theorems.                                                           *)
(***************************************************************************)

\* process_init leaves the idle process running alone.
LEMMA InitInv == Init => SchedInv
<1> SUFFICES ASSUME Init PROVE SchedInv
  OBVIOUS
<1>1. TypeOK
  <2> DEFINE Times == 0 .. (TIME - 1)
  <2>1. 0 \in Times
    BY SchedulerAssumption
  <2> HIDE DEF Times
  <2>2. sleep_until \in [PCB -> Times]
    BY <2>1 DEF Init
  <2>3. sleep_until \in [PCB -> 0 .. (TIME - 1)] /\ system_time \in 0 .. (TIME - 1)
    BY <2>1, <2>2 DEF Init, Times
  <2> QED
    BY <2>3 DEF Init, TypeOK, PCB, States
<1>2. ListOK
  <2>1. IsList(Idle, next, NULL, PCB, {Idle})
    BY FirstNode, SchedulerAssumption DEF Init, PCB
  <2> QED
    BY <2>1 DEF Init, ListOK
<1> QED
  BY <1>1, <1>2 DEF Init, SchedInv, DeadAreTerminated, IdleNeverLeaves,
     OnlyRunnableRuns, FallbackIsReady, IdleHasInterrupts, PCB

\* Every step, and a stutter, keeps the invariant.
LEMMA NextKeepsInv == SchedInv /\ [Next]_vars => SchedInv'
<1> SUFFICES ASSUME SchedInv, [Next]_vars PROVE SchedInv'
  OBVIOUS
<1>1. CASE Next
  BY <1>1, ScanKeepsInv, CallsKeepInv, TickKeepsInv DEF Next
<1>2. CASE UNCHANGED vars
  BY <1>2 DEF vars, procVars, cpuVars, scanVars, SchedInv, TypeOK, ListOK,
     DeadAreTerminated, IdleNeverLeaves, OnlyRunnableRuns, FallbackIsReady,
     IdleHasInterrupts
<1> QED
  BY <1>1, <1>2

\* Every behaviour keeps the inductive invariant.
LEMMA AlwaysInv == Spec => []SchedInv
  BY InitInv, NextKeepsInv, PTL DEF Spec

\* The variables of process.c keep their types, the wrapping clock and the
\* links of the list among them.
THEOREM TypeCorrect == Spec => []TypeOK
<1>1. SchedInv => TypeOK
  BY DEF SchedInv
<1> QED
  BY <1>1, AlwaysInv, PTL

\* Whoever executes after process_yield was found ready, is allocated, and is
\* the only process marked as running.
THEOREM RunnersAreRunnable == Spec => []OnlyRunnableRuns
<1>1. SchedInv => OnlyRunnableRuns
  BY DEF SchedInv
<1> QED
  BY <1>1, AlwaysInv, PTL

\* process_get_next can fall back on the idle process at any time.
THEOREM FallbackIsAlwaysReady == Spec => []FallbackIsReady
<1>1. SchedInv => FallbackIsReady
  BY DEF SchedInv
<1> QED
  BY <1>1, AlwaysInv, PTL

\* The idle process never waits in hlt with interrupts disabled.
THEOREM IdleIsInterruptible == Spec => []IdleHasInterrupts
<1>1. SchedInv => IdleHasInterrupts
  BY DEF SchedInv
<1> QED
  BY <1>1, AlwaysInv, PTL

\* The list that process_create appends to and process_get_next cuts blocks out
\* of while it walks it ends, holds exactly the blocks in use, and each once.
THEOREM TheListIsLive == Spec => []ListIsLive
<1>1. SchedInv => ListIsLive
  BY SchedulerAssumption DEF SchedInv, ListOK, ListIsLive, IsList, InList, PCB
<1> QED
  BY <1>1, AlwaysInv, PTL
=============================================================================
