----------------------------- MODULE Scheduler -----------------------------
(***************************************************************************)
(* The process manager, proc/process.c: a linked list of process control   *)
(* blocks headed by the idle process, a round-robin scan that also wakes   *)
(* sleepers and frees terminated processes, and a timer tick that yields   *)
(* every tenth time.                                                       *)
(*                                                                         *)
(* The process named by current_process executes the calls.  The scan of   *)
(* process_get_next takes one step per turn of its loop, so that a scan    *)
(* that never ends can be seen.  A call is not interrupted by the tick     *)
(* until its scan is over; a process that is not inside a call is, while   *)
(* interrupts are enabled.                                                 *)
(***************************************************************************)
EXTENDS Integers, Links

CONSTANTS
    Procs,    \* the blocks the allocator has for control blocks
    Idle,     \* the idle process, the context of kmain
    NULL,
    TIME,     \* the number of values of system_time (2^32)
    PERIOD,   \* ticks between two switches (10)
    SLEEPS    \* the milliseconds process_sleep is called with

ASSUME SchedulerAssumption ==
    /\ Idle \notin Procs
    /\ NULL \notin Procs \cup {Idle}
    /\ TIME \in Nat \ {0}
    /\ PERIOD \in Nat \ {0}
    /\ SLEEPS \subseteq Nat

PCB == Procs \cup {Idle}

VARIABLES
    live,         \* the control blocks that are allocated
    state,        \* process_t.state; of a block that is not live, TERMINATED
    sleep_until,  \* process_t.sleep_until
    next,         \* process_t.next
    current_process,
    system_time,
    pc,           \* "run", or "scan" inside process_get_next
    scan_next,    \* its variable next, and
    start,        \* its variable start; outside the scan, Idle
    handler,      \* the scan belongs to the timer interrupt, not to a call
    interrupts,   \* the interrupt flag of the CPU
    resumes       \* how a process goes on when it is switched to: by the "ret" of
                  \* its call, or by an "iret", which enables interrupts

procVars == <<live, state, sleep_until, next>>
cpuVars == <<current_process, interrupts, resumes>>
scanVars == <<pc, scan_next, start, handler>>
vars == <<procVars, cpuVars, scanVars, system_time>>

States == {"READY", "RUNNING", "BLOCKED", "TERMINATED"}

-----------------------------------------------------------------------------
(* The list.                                                               *)

\* The blocks reached from process_list, which is always the idle process.
InList == Reached(Idle, next, NULL)

\* The block after p, or the head of the list.
After(p) == IF next[p] = NULL THEN Idle ELSE next[p]

\* prev->next = p->next, for the block in the list before p if there is one.
Unlink(p) == CutOut(Idle, next, NULL, p)

\* Mutant: a new block replaces what followed the head of the list.
AddAtHead(proc) ==
    [q \in PCB |-> IF q = proc THEN NULL
                   ELSE IF q = Idle THEN proc
                   ELSE next[q]]

\* "Add to process list": the cleared block goes behind the last one.
AddToList(proc) ==
    [LinkLast(Idle, next, NULL, proc) EXCEPT ![proc] = NULL]

-----------------------------------------------------------------------------
(* process_init, called by kmain, which becomes the idle process.          *)

Init ==
    /\ live = {Idle}
    /\ state = [p \in PCB |-> IF p = Idle THEN "RUNNING" ELSE "TERMINATED"]
    /\ sleep_until = [p \in PCB |-> 0]
    /\ next = [p \in PCB |-> NULL]
    /\ current_process = Idle
    /\ system_time = 0
    /\ pc = "run"
    /\ scan_next = Idle
    /\ start = Idle
    /\ handler = FALSE
    /\ interrupts = TRUE
    /\ resumes = [p \in PCB |-> "ret"]

-----------------------------------------------------------------------------
(* process_yield enters process_get_next with the block after the current. *)

\* Mutant: the scan begins at the head of the list.
EnterScanAtHead(fromTick) ==
    /\ pc' = "scan"
    /\ scan_next' = Idle
    /\ start' = Idle
    /\ handler' = fromTick

EnterScan(fromTick) ==
    /\ pc' = "scan"
    /\ scan_next' = After(current_process)
    /\ start' = After(current_process)
    /\ handler' = fromTick

\* Mutant: the process that is switched out stays marked as running.
SwitchLeavesRunning(p, states) ==
    /\ state' = [states EXCEPT ![p] = "RUNNING"]
    /\ current_process' = p
    /\ resumes' = [resumes EXCEPT ![current_process] =
                        IF handler THEN "iret" ELSE "ret",
                                  ![p] = "ret"]
    /\ interrupts' = (interrupts \/ resumes[p] = "iret")

\* process_switch: a process that was running is ready again.  No EFLAGS are
\* saved or loaded: interrupts are enabled again only if the process switched
\* to was switched out by a tick and now returns from it, or if it is new and
\* starts with the EFLAGS of the frame that process_create has prepared.
SwitchTo(p, states) ==
    /\ state' = [states EXCEPT
                    ![current_process] = IF @ = "RUNNING" THEN "READY" ELSE @,
                    ![p] = "RUNNING"]
    /\ current_process' = p
    /\ resumes' = [resumes EXCEPT ![current_process] =
                        IF handler THEN "iret" ELSE "ret",
                                  ![p] = "ret"]
    /\ interrupts' = (interrupts \/ resumes[p] = "iret")

\* The local variables of process_get_next are gone when it returns.
ScanOver ==
    /\ pc' = "run" /\ handler' = FALSE
    /\ scan_next' = Idle /\ start' = Idle

\* process_get_next returns p to process_yield, with the states it has set.
Chosen(p, states) ==
    /\ ScanOver
    /\ IF p = current_process
         THEN /\ state' = states
              /\ interrupts' = (interrupts \/ handler)
              /\ UNCHANGED <<current_process, resumes>>
         ELSE SwitchTo(p, states)

\* The end of a turn of the loop: go on with p, or stop where it began.
Continue(p) ==
    IF p = start
      THEN Chosen(Idle, state)
      ELSE /\ scan_next' = p
           /\ UNCHANGED <<state, cpuVars, pc, start, handler>>

ShouldWake(p) ==
    /\ state[p] = "BLOCKED"
    /\ sleep_until[p] # 0
    /\ sleep_until[p] <= system_time

ScanReady ==
    /\ pc = "scan"
    /\ state[scan_next] = "READY"
    /\ Chosen(scan_next, state)
    /\ UNCHANGED <<live, sleep_until, next, system_time>>

ScanWakes ==
    /\ pc = "scan"
    /\ ShouldWake(scan_next)
    /\ Chosen(scan_next, [state EXCEPT ![scan_next] = "READY"])
    /\ UNCHANGED <<live, sleep_until, next, system_time>>

\* Mutant: the scan goes on at the block it has freed.
FreesAndStays ==
    /\ pc = "scan"
    /\ state[scan_next] = "TERMINATED"
    /\ next' = [Unlink(scan_next) EXCEPT ![scan_next] = NULL]
    /\ live' = live \ {scan_next}
    /\ sleep_until' = [sleep_until EXCEPT ![scan_next] = 0]
    /\ Continue(scan_next)
    /\ UNCHANGED system_time

\* The block is unlinked and freed with its stack and page directory.
ScanFrees ==
    /\ pc = "scan"
    /\ state[scan_next] = "TERMINATED"
    /\ next' = [Unlink(scan_next) EXCEPT ![scan_next] = NULL]
    /\ live' = live \ {scan_next}
    /\ sleep_until' = [sleep_until EXCEPT ![scan_next] = 0]
    /\ Continue(After(scan_next))
    /\ UNCHANGED system_time

ScanSkips ==
    /\ pc = "scan"
    /\ \/ state[scan_next] = "RUNNING"
       \/ state[scan_next] = "BLOCKED" /\ ~ShouldWake(scan_next)
    /\ Continue(After(scan_next))
    /\ UNCHANGED <<live, sleep_until, next, system_time>>

Scan == ScanReady \/ ScanWakes \/ ScanFrees \/ ScanSkips

-----------------------------------------------------------------------------
(* The calls, made by the current process.                                 *)

SetState(p, s) == state' = [state EXCEPT ![p] = s]

\* Mutant: a call on the current process returns to it.
NeverYields(p) == UNCHANGED scanVars

\* process_yield if the call has put the current process out of action.
YieldIfCurrent(p) ==
    IF p = current_process THEN EnterScan(FALSE) ELSE UNCHANGED scanVars

\* Mutant: the idle process yields instead of waiting for an interrupt.
AnybodyYields ==
    /\ pc = "run"
    /\ EnterScan(FALSE)
    /\ UNCHANGED <<procVars, cpuVars, system_time>>

\* kmain, the idle process, never yields, exits or sleeps: it halts until the
\* next interrupt.
process_yield ==
    /\ pc = "run" /\ current_process # Idle
    /\ EnterScan(FALSE)
    /\ UNCHANGED <<procVars, cpuVars, system_time>>

\* Allocation of the block, the page directory or the stack may fail: the call
\* gives back what it has and returns NULL.
process_create ==
    /\ pc = "run"
    /\ \/ \E proc \in Procs \ live :
             /\ live' = live \cup {proc}
             /\ SetState(proc, "READY")
             /\ sleep_until' = [sleep_until EXCEPT ![proc] = 0]
             /\ next' = AddToList(proc)
             /\ resumes' = [resumes EXCEPT ![proc] = "iret"]
       \/ UNCHANGED <<procVars, resumes>>
    /\ UNCHANGED <<current_process, interrupts, scanVars, system_time>>

process_exit ==
    /\ pc = "run" /\ current_process # Idle
    /\ SetState(current_process, "TERMINATED")
    /\ EnterScan(FALSE)
    /\ UNCHANGED <<live, sleep_until, next, cpuVars, system_time>>

\* Mutant: the time to wake up does not wrap with the clock.
SleepsPastTheClock(ms) ==
    /\ pc = "run" /\ current_process # Idle
    /\ sleep_until' = [sleep_until EXCEPT ![current_process] =
                          system_time + ms]
    /\ SetState(current_process, "BLOCKED")
    /\ EnterScan(FALSE)
    /\ UNCHANGED <<live, next, cpuVars, system_time>>

process_sleep(ms) ==
    /\ pc = "run" /\ current_process # Idle
    /\ sleep_until' = [sleep_until EXCEPT ![current_process] =
                          (system_time + ms) % TIME]
    /\ SetState(current_process, "BLOCKED")
    /\ EnterScan(FALSE)
    /\ UNCHANGED <<live, next, cpuVars, system_time>>

\* Callers hold pointers to processes that exist, and none to the idle one.
process_block(p) ==
    /\ pc = "run"
    /\ SetState(p, "BLOCKED")
    /\ YieldIfCurrent(p)
    /\ UNCHANGED <<live, sleep_until, next, cpuVars, system_time>>

process_unblock(p) ==
    /\ pc = "run"
    /\ state[p] = "BLOCKED"
    /\ SetState(p, "READY")
    /\ UNCHANGED <<live, sleep_until, next, cpuVars, scanVars, system_time>>

process_terminate(p) ==
    /\ pc = "run"
    /\ SetState(p, "TERMINATED")
    /\ YieldIfCurrent(p)
    /\ UNCHANGED <<live, sleep_until, next, cpuVars, system_time>>

\* The interrupt gate disables interrupts; iret enables them again.
process_timer_tick ==
    /\ pc = "run" /\ interrupts
    /\ system_time' = (system_time + 1) % TIME
    /\ IF system_time' % PERIOD = 0
         THEN EnterScan(TRUE) /\ interrupts' = FALSE
         ELSE UNCHANGED <<scanVars, interrupts>>
    /\ UNCHANGED <<procVars, current_process, resumes>>

Calls ==
    \/ process_yield
    \/ process_create
    \/ process_exit
    \/ \E ms \in SLEEPS : process_sleep(ms)
    \/ \E p \in live \ {Idle} :
          process_block(p) \/ process_unblock(p) \/ process_terminate(p)

Next == Scan \/ Calls \/ process_timer_tick

\* The CPU goes on with a scan it has begun, and takes a tick that is pending
\* for ever.  Nothing forces a process to make a call.
Spec ==
    /\ Init
    /\ [][Next]_vars
    /\ WF_vars(Scan)
    /\ SF_vars(process_timer_tick)

-----------------------------------------------------------------------------
(* Properties.                                                             *)

TypeOK ==
    /\ live \subseteq PCB /\ Idle \in live
    /\ state \in [PCB -> States]
    /\ sleep_until \in [PCB -> 0 .. (TIME - 1)]
    /\ next \in [PCB -> PCB \cup {NULL}]
    /\ current_process \in PCB
    /\ system_time \in 0 .. (TIME - 1)
    /\ pc \in {"run", "scan"}
    /\ scan_next \in PCB /\ start \in PCB
    /\ handler \in BOOLEAN /\ interrupts \in BOOLEAN
    /\ resumes \in [PCB -> {"ret", "iret"}]

\* The list that process_create appends to and process_get_next cuts blocks
\* out of while it walks it: it ends, it holds exactly the allocated blocks,
\* and no two blocks have the same successor.  A process that is dropped from
\* it never runs again; a freed block that stays in it is freed twice.
ListIsLive ==
    /\ InList = live
    /\ \E p \in live : next[p] = NULL
    /\ \A p, q \in live : p # q => next[p] # next[q]

\* A process that exits, sleeps, is blocked or is terminated does not go on
\* executing after process_yield: whoever executes code outside the scan is
\* live and was found ready, and nobody else is marked as running.
OnlyRunnableRuns ==
    /\ pc = "run" => /\ current_process \in live
                     /\ state[current_process] \in {"RUNNING", "READY"}
    /\ \A p \in PCB : state[p] = "RUNNING" => p = current_process

\* The process that process_get_next falls back on can be run: the idle
\* process is ready whenever it is not the current process, so another
\* process's scan always finds somebody.
FallbackIsReady == current_process # Idle => state[Idle] = "READY"

\* The idle process waits for an interrupt with hlt: it never does so with
\* interrupts disabled, whoever gave the CPU back to it and however that
\* process had been resumed, because only a tick takes the CPU from it.
IdleHasInterrupts ==
    /\ pc = "run" /\ current_process = Idle => interrupts
    /\ current_process # Idle => resumes[Idle] = "iret"

AnyReady == \E p \in live : state[p] = "READY"

\* process_get_next returns if any process is ready when it is called, as one
\* is whenever the caller is not the idle process, whatever it frees and
\* wakes on the way.
ScanReturns == pc = "scan" /\ AnyReady ~> pc = "run"

YieldsForever == []<><<pc = "run" /\ pc' = "scan">>_vars

\* Round robin: as long as processes keep yielding, every ready process is
\* switched to, whatever is created, terminated, blocked and woken meanwhile.
RoundRobin ==
    YieldsForever =>
        \A p \in PCB : [](p \in live /\ state[p] = "READY" =>
                             <>(current_process = p \/ state[p] # "READY"))

-----------------------------------------------------------------------------
(* What comments of process.c promise and the code does not deliver.       *)

\* "If no process is ready, return the idle process": every scan returns.
ScanAlwaysReturns == pc = "scan" ~> pc = "run"

\* "Switch tasks every 10ms (10 ticks)": a ready process gets the CPU without
\* the help of the process that has it.
TickSwitchesTasks ==
    \A p \in PCB : [](p \in live /\ state[p] = "READY" =>
                         <>(current_process = p \/ state[p] # "READY"))
=============================================================================
