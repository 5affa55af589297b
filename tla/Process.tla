------------------------------ MODULE Process ------------------------------
(***************************************************************************)
(* The process table, the scheduler and the context switch:                *)
(* src/src/kernel/process.c, the MSG_FORK, MSG_EXEC and MSG_WAIT cases of  *)
(* send_message and receive_message in src/src/kernel/message.c, and       *)
(* src/src/arch/context_switch.S.                                          *)
(*                                                                         *)
(* Processes 0 .. MAX_PROCESSES-1 are the slots of processes[], which      *)
(* create_process hands out; BEHIND is the memory behind the last one,     *)
(* which it takes for one more slot, and USER the process that kernel_main *)
(* gets from process_create.  One processor, and nothing preempts: the     *)
(* timer handler does not call schedule().                                 *)
(*                                                                         *)
(* A context is an array of words.  C code (context_t) and the assembler   *)
(* routine address it with their own offsets; LR_WORD and SP_WORD are the  *)
(* words context_switch.S takes x30 and sp from, which are 11 and 12.      *)
(***************************************************************************)
EXTENDS Integers, Sequences, Functions

CONSTANTS
  MAX_PROCESSES,  \* 4 in the code
  LR_WORD, SP_WORD,
  Message, NoMessage, MAX_MESSAGES,
  Status          \* bound: the exit statuses in use

USER == -1
NULL == -2
Slots == 0 .. MAX_PROCESSES - 1
BEHIND == MAX_PROCESSES
Proc == Slots \cup {BEHIND, USER}

CtxPC == 0        \* offsets of context_t, in words
CtxSP == 1
CtxLR == 2
CtxX == 3         \* first word of x[]
Words == {CtxPC, CtxSP, CtxLR, LR_WORD, SP_WORD}

ASSUME ProcessAssumption ==
  /\ MAX_PROCESSES \in Nat
  /\ LR_WORD \in Nat /\ SP_WORD \in Nat /\ LR_WORD # SP_WORD
  /\ MAX_MESSAGES \in Nat \ {0}
  /\ NoMessage \notin Message
  /\ Status \subseteq Int

\* What a word of a context holds, and the process it comes from.
WordKinds == {"zero", "entry", "process3", "top", "exec", "ret", "stack", "reg"}
Word == WordKinds \X (Proc \cup {NULL})
Zero == <<"zero", NULL>>

States == {"READY", "RUNNING", "BLOCKED", "ZOMBIE"}

VARIABLES
  state, pid, parent_pid, exit_status, ctx,   \* fields of struct process
  process_list,     \* from its head along the next pointers
  process_count, next_pid,
  current_process,
  at,               \* where a process that was switched out goes on
  cpu,              \* "boot", "run"; "hang", "wild" and "overrun" are final
  last,             \* last call: who made it and what it returned
  left,             \* history: the processes that left through process_exit
  messages, head, tail, count, msg_blocked, out, res    \* MessageQueue

MQ == INSTANCE MessageQueue WITH Procs <- Proc

queueVars == <<messages, head, tail, count, msg_blocked, out, res>>
tableVars == <<pid, parent_pid, process_list, process_count, next_pid>>
vars == <<state, exit_status, ctx, current_process, at, cpu, last, left,
          tableVars, queueVars>>

\* process_init, and the zeroed static data before it.
Init ==
  /\ state = [p \in Proc |-> "READY"]
  /\ pid = [p \in Proc |-> 0]
  /\ parent_pid = [p \in Proc |-> 0]
  /\ exit_status = [p \in Proc |-> 0]
  /\ ctx = [p \in Proc |-> [w \in Words |-> Zero]]
  /\ process_list = <<>>
  /\ process_count = 0
  /\ next_pid = 2
  /\ current_process = NULL
  /\ at = [p \in Proc |-> "run"]
  /\ cpu = "boot"
  /\ last = [call |-> "none", by |-> NULL, val |-> 0]
  /\ left = {}
  /\ MQ!Init

\* Mutated form of take_pid: next_pid is not advanced.
take_pid_again(p) == pid' = [pid EXCEPT ![p] = next_pid] /\ UNCHANGED next_pid

take_pid(p) ==
  /\ pid' = [pid EXCEPT ![p] = next_pid]
  /\ next_pid' = next_pid + 1

\* kernel_main: process_create for the user shell, state READY, enter_usermode.
process_create ==
  /\ cpu = "boot"
  /\ current_process' = USER
  /\ process_list' = <<USER>> \o process_list
  /\ ctx' = [ctx EXCEPT ![USER][CtxPC] = <<"entry", USER>>]
  /\ take_pid(USER)
  /\ state' = [state EXCEPT ![USER] = "READY"]
  /\ cpu' = "run"
  /\ UNCHANGED <<parent_pid, exit_status, process_count, at, last, left, queueVars>>

-----------------------------------------------------------------------------
(* schedule() and context_switch().                                        *)

\* Mutated form of Saved: the stack pointer is not stored.
Saved_no_sp(p) == [w \in Words |-> IF w = LR_WORD THEN <<"ret", p>> ELSE <<"reg", p>>]

\* context_switch saves the registers of p: words 0 .. 13, the C fields among
\* them.
Saved(p) ==
  [w \in Words |-> CASE w = LR_WORD -> <<"ret", p>>
                     [] w = SP_WORD -> <<"stack", p>>
                     [] OTHER -> <<"reg", p>>]

\* The context leads p back to where it called schedule().
LeadsBack(c, p) == c[LR_WORD] = <<"ret", p>> /\ c[SP_WORD] = <<"stack", p>>

\* The context leads p back, or to the start of process3 on a stack of its own.
Resumable(c, p) ==
  \/ LeadsBack(c, p)
  \/ c[LR_WORD] = <<"process3", p>> /\ c[SP_WORD] = <<"top", p>>

\* k is the first position of process_list whose process is in P, which is what
\* the loops along the next pointers look for.
First(k, P) ==
  /\ k \in DOMAIN process_list /\ process_list[k] \in P
  /\ \A j \in 1 .. k - 1 : process_list[j] \notin P

InState(st, S) == {p \in Proc : st[p] \in S}

\* Mutated form of Picked: the old process stays RUNNING.
Picked_keep(st, cur, next) == [st EXCEPT ![next] = "RUNNING"]

\* States after next was picked and cur was switched out.  When cur was READY
\* itself it may be next, and ends READY again.
Picked(st, cur, next) ==
  LET st1 == [st EXCEPT ![next] = "RUNNING"]
  IN  IF cur # NULL /\ st1[cur] = "RUNNING" THEN [st1 EXCEPT ![cur] = "READY"] ELSE st1

\* Mutated form of schedule: a process that is waiting is picked as well.
schedule_blocked(st, cur) ==
  LET ready == InState(st, {"READY", "BLOCKED"})
  IN  \/ /\ Range(process_list) \cap ready = {}
         /\ state' = st /\ current_process' = cur /\ cpu' = "hang"
         /\ UNCHANGED ctx
      \/ \E k \in DOMAIN process_list :
           LET next == process_list[k]
               c == IF cur = NULL THEN ctx ELSE [ctx EXCEPT ![cur] = Saved(cur)]
           IN  /\ First(k, ready)
               /\ state' = Picked(st, cur, next)
               /\ current_process' = next
               /\ ctx' = c
               /\ cpu' = IF Resumable(c[next], next) THEN "run" ELSE "wild"

\* schedule() with process states st and current_process cur: the first READY
\* process from the head of the list is next; with none schedule() loops for ever.
schedule(st, cur) ==
  LET ready == InState(st, {"READY"})
  IN  \/ /\ Range(process_list) \cap ready = {}
         /\ state' = st /\ current_process' = cur /\ cpu' = "hang"
         /\ UNCHANGED ctx
      \/ \E k \in DOMAIN process_list :
           LET next == process_list[k]
               c == IF cur = NULL THEN ctx ELSE [ctx EXCEPT ![cur] = Saved(cur)]
           IN  /\ First(k, ready)
               /\ state' = Picked(st, cur, next)
               /\ current_process' = next
               /\ ctx' = c
               /\ cpu' = IF Resumable(c[next], next) THEN "run" ELSE "wild"

-----------------------------------------------------------------------------
(* The calls of the current process.                                       *)

me == current_process

Returns(call, v) == last' = [call |-> call, by |-> me, val |-> v]

Running(where) == cpu = "run" /\ at[me] = where

\* The caller's context, with a stack and an entry point of the child's own.
ForkContext(new) ==
  [ctx[me] EXCEPT ![CtxSP] = <<"top", new>>, ![CtxLR] = <<"process3", new>>]

\* send_message(MSG_FORK), which is create_process(); the caller gets 0.  Nothing
\* asks whether the new slot is one of processes[].  When it is not, everything is
\* done all the same, to the memory behind the table.  In kernel.elf that is the
\* stack of slot 0, which that process and the new one then write over for each
\* other; the model follows the program no further.
msg_fork ==
  LET new == process_count
  IN  /\ Running("run")
      /\ process_count' = process_count + 1
      /\ take_pid(new)
      /\ parent_pid' = [parent_pid EXCEPT ![new] = pid[me]]
      /\ state' = [state EXCEPT ![new] = "READY"]
      /\ process_list' = <<new>> \o process_list
      /\ ctx' = [ctx EXCEPT ![new] = ForkContext(new)]
      /\ cpu' = IF new \in Slots THEN cpu ELSE "overrun"
      /\ Returns("fork", 0)
      /\ UNCHANGED <<exit_status, current_process, at, left, queueVars>>

\* send_message(MSG_EXEC) changes the saved context of the caller, which goes on
\* running; the next context_switch stores over it.
msg_exec(hasPath) ==
  /\ Running("run")
  /\ \/ ~hasPath /\ Returns("exec", -1) /\ UNCHANGED ctx
     \/ /\ hasPath
        /\ ctx' = [ctx EXCEPT ![me] = [w \in Words |->
                     CASE w = CtxPC -> <<"entry", me>>
                       [] w = CtxSP -> <<"exec", me>>
                       [] w >= CtxX -> Zero
                       [] OTHER -> ctx[me][w]]]
        /\ Returns("exec", 0)
  /\ UNCHANGED <<state, exit_status, current_process, at, cpu, left, tableVars, queueVars>>

\* The caller's children that have exited.
ZombieChildren == {p \in Proc : parent_pid[p] = pid[me] /\ state[p] = "ZOMBIE"}

\* The search of MSG_WAIT: the status of the first ZOMBIE child on the list.  The
\* child stays a ZOMBIE.
WaitFinds(call) ==
  \E k \in DOMAIN process_list :
    First(k, ZombieChildren) /\ Returns(call, exit_status[process_list[k]])

NoZombieChild == Range(process_list) \cap ZombieChildren = {}

\* Mutated form of msg_wait: a child that is found is DEAD from then on.
msg_wait_reaps ==
  /\ Running("run")
  /\ \/ /\ WaitFinds("wait")
        /\ \E k \in DOMAIN process_list :
             First(k, ZombieChildren) /\ state' = [state EXCEPT ![process_list[k]] = "DEAD"]
        /\ UNCHANGED <<ctx, current_process, at, cpu>>
     \/ /\ NoZombieChild
        /\ at' = [at EXCEPT ![me] = "wait"]
        /\ schedule([state EXCEPT ![me] = "BLOCKED"], me)
        /\ UNCHANGED last
  /\ UNCHANGED <<exit_status, left, tableVars, queueVars>>

\* send_message(MSG_WAIT) up to its return or its call of schedule().
msg_wait ==
  /\ Running("run")
  /\ \/ /\ WaitFinds("wait")
        /\ UNCHANGED <<state, ctx, current_process, at, cpu>>
     \/ /\ NoZombieChild
        /\ at' = [at EXCEPT ![me] = "wait"]
        /\ schedule([state EXCEPT ![me] = "BLOCKED"], me)
        /\ UNCHANGED last
  /\ UNCHANGED <<exit_status, left, tableVars, queueVars>>

\* MSG_WAIT after schedule() has returned: the list is searched once more.
msg_wait_resumed ==
  /\ Running("wait")
  /\ at' = [at EXCEPT ![me] = "run"]
  /\ WaitFinds("waited") \/ (NoZombieChild /\ Returns("wait_failed", -1))
  /\ UNCHANGED <<state, exit_status, ctx, current_process, cpu, left, tableVars, queueVars>>

\* The processes that find_process may return for the parent of the caller.
Parents == {p \in Range(process_list) : pid[p] = parent_pid[me]}

\* Mutated form of WakeParent: whatever state the parent is in, it is made READY.
WakeParent_any(st) ==
  [p \in Proc |-> IF \E k \in DOMAIN process_list : First(k, Parents) /\ p = process_list[k]
                  THEN "READY" ELSE st[p]]

\* Mutated form of WakeParent: the parent is not woken.
WakeParent_none(st) == st

\* The part of exit_process that wakes the parent: the first process on the list
\* with the parent's pid, when it is BLOCKED.
WakeParent(st) ==
  [p \in Proc |-> IF /\ st[p] = "BLOCKED"
                     /\ \E k \in DOMAIN process_list : First(k, Parents) /\ p = process_list[k]
                  THEN "READY" ELSE st[p]]

exit_process(s) ==
  /\ Running("run")
  /\ exit_status' = [exit_status EXCEPT ![me] = s]
  /\ schedule(WakeParent([state EXCEPT ![me] = "ZOMBIE"]), me)
  /\ UNCHANGED <<at, last, left, tableVars, queueVars>>

\* process_exit wakes nobody.  ready_queue is always empty, so that its loop does
\* nothing, and the context of the caller is not saved.
process_exit(s) ==
  /\ Running("run")
  /\ exit_status' = [exit_status EXCEPT ![me] = s]
  /\ left' = left \cup {me}
  /\ schedule([state EXCEPT ![me] = "ZOMBIE"], NULL)
  /\ UNCHANGED <<at, last, tableVars, queueVars>>

\* queue_message to any process on the list.
queue_message(p, m) ==
  /\ Running("run")
  /\ p \in Range(process_list)
  /\ MQ!queue_message(p, m)
  /\ UNCHANGED <<state, exit_status, ctx, current_process, at, cpu, last, left, tableVars>>

\* receive_message: an empty queue makes a caller that waits call schedule(), in
\* which it stays READY or RUNNING.
receive_message(nonblock) ==
  /\ Running("run")
  /\ MQ!receive_message(me, nonblock)
  /\ IF count[me] = 0 /\ ~nonblock
       THEN /\ at' = [at EXCEPT ![me] = "recv"]
            /\ schedule(state, me)
       ELSE UNCHANGED <<state, ctx, current_process, at, cpu>>
  /\ UNCHANGED <<exit_status, last, left, tableVars>>

\* receive_message after schedule(): -1, whatever has arrived meanwhile.
receive_resumed ==
  /\ Running("recv")
  /\ at' = [at EXCEPT ![me] = "run"]
  /\ Returns("recv", -1)
  /\ UNCHANGED <<state, exit_status, ctx, current_process, cpu, left, tableVars, queueVars>>

Next ==
  \/ process_create
  \/ msg_fork
  \/ \E hasPath \in BOOLEAN : msg_exec(hasPath)
  \/ msg_wait
  \/ msg_wait_resumed
  \/ \E s \in Status : exit_process(s) \/ process_exit(s)
  \/ \E p \in Proc, m \in Message : queue_message(p, m)
  \/ \E nonblock \in BOOLEAN : receive_message(nonblock)
  \/ receive_resumed

Spec == Init /\ [][Next]_vars

-----------------------------------------------------------------------------
(* Properties.                                                             *)

\* Nobody is ever PROC_DEAD, which only functions without a caller set, and the
\* fork that takes process_count beyond the table is the one at which the model
\* stops.
TypeOK ==
  /\ state \in [Proc -> States]
  /\ pid \in [Proc -> Nat]
  /\ parent_pid \in [Proc -> Nat]
  /\ exit_status \in [Proc -> Int]
  /\ ctx \in [Proc -> [Words -> Word]]
  /\ process_list \in Seq(Proc)
  /\ process_count \in 0 .. MAX_PROCESSES + 1
  /\ next_pid \in Nat
  /\ current_process \in Proc \cup {NULL}
  /\ at \in [Proc -> {"run", "wait", "recv"}]
  /\ cpu \in {"boot", "run", "hang", "wild", "overrun"}
  /\ cpu = "overrun" <=> process_count > MAX_PROCESSES
  /\ last \in [call : {"none", "fork", "exec", "wait", "waited", "wait_failed", "recv"},
               by : Proc \cup {NULL}, val : Int]
  /\ left \subseteq Proc
  /\ MQ!TypeOK

\* Only the process on the processor is RUNNING, and it is never one that has
\* exited: schedule() demotes the one it leaves and passes over ZOMBIE ones,
\* whatever order of forks, waits, exits and receives led to it.
RunningIsCurrent ==
  /\ \A p \in Proc : state[p] = "RUNNING" => p = current_process
  /\ cpu = "run" => current_process # NULL /\ state[current_process] \in {"READY", "RUNNING"}

\* A process that has exited stays a ZOMBIE: the wake-up in exit_process of one
\* of its children never brings it back.
ZombieForEver == [][\A p \in Proc : state[p] = "ZOMBIE" => state'[p] = "ZOMBIE"]_state

\* The list holds the processes that were created, each once, newest first, and
\* their pids decrease along it, so that find_process has one answer.
ListOK ==
  /\ Range(process_list) = (IF cpu = "boot" THEN {} ELSE {USER}) \cup 0 .. process_count - 1
  /\ \A j, k \in DOMAIN process_list : j < k => pid[process_list[j]] > pid[process_list[k]]
  /\ \A k \in DOMAIN process_list : pid[process_list[k]] \in 2 .. next_pid - 1

\* MSG_WAIT that had to block always finds a ZOMBIE child when it goes on: the
\* "return -1" at its end (message.c:102) is never reached.
WaitFindsChild == last.call # "wait_failed"

\* A process waits in MSG_WAIT with a ZOMBIE child only when that child left
\* through process_exit, which does not wake its parent; exit_process loses no
\* wake-up.
NoLostWakeup ==
  \A p, c \in Range(process_list) :
    state[p] = "BLOCKED" /\ state[c] = "ZOMBIE" /\ parent_pid[c] = pid[p] => c \in left

\* A process that gave up the processor inside MSG_WAIT or receive_message still has
\* the context that context_switch saved for it, whatever the others have done since
\* (forks copy contexts, exec clears one): when it is picked it goes on behind its
\* call of schedule(), on its own stack.
SuspendedKeepContext ==
  \A p \in Proc : at[p] # "run" /\ p # current_process => LeadsBack(ctx[p], p)

\* "Process Management: Multi-process support with scheduling" (README.md):
\* context_switch never goes to a place that is neither where the process called
\* schedule() nor the start of process3, which create_process stores in ctx.lr.
SwitchesAreSound == cpu # "wild"
=============================================================================
