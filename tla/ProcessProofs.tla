--------------------------- MODULE ProcessProofs ---------------------------
(***************************************************************************)
(* For every size of the process table and every layout of the contexts:   *)
(* the process list stays in order, at most the current process is         *)
(* RUNNING, a ZOMBIE stays one, exit_process loses no wake-up, and a wait  *)
(* that blocked finds its child and goes on where it left off.  With the   *)
(* words that context_switch.S uses, no forked process ever runs.          *)
(***************************************************************************)
EXTENDS Process, TLAPS

Listed == Range(process_list)

\* Before kernel_main has created the shell there is nothing; a process that is
\* not on the list was never touched; the running process is on the list.
Untouched ==
  /\ next_pid >= 2
  /\ cpu = "boot" => process_list = <<>> /\ process_count = 0 /\ current_process = NULL
  /\ cpu = "run" => current_process \in Listed
  /\ \A p \in Proc \ Listed : state[p] = "READY" /\ at[p] = "run"

\* A process inside MSG_WAIT is BLOCKED, or there is a child for it to find.
WaitersServed ==
  \A p \in Listed : at[p] = "wait" =>
    state[p] = "BLOCKED" \/ \E c \in Listed : state[c] = "ZOMBIE" /\ parent_pid[c] = pid[p]

\* The part of the invariant that is about the table.
Core == ListOK /\ Untouched /\ RunningIsCurrent /\ NoLostWakeup /\ WaitersServed

\* The inductive invariant.
IInv == TypeOK /\ Core /\ WaitFindsChild

\* NULL is no process.
LEMMA ProcFacts == NULL \notin Proc /\ USER \in Proc
  BY ProcessAssumption DEF NULL, USER, Proc, Slots, BEHIND

\* A process that runs can fork: process_count is a slot, or just behind the last.
LEMMA NextSlot ==
  ASSUME TypeOK, cpu = "run"
  PROVE  process_count \in 0 .. MAX_PROCESSES /\ process_count \in Proc /\ process_count # USER
<1>1. process_count \in 0 .. MAX_PROCESSES
  BY ProcessAssumption DEF TypeOK
<1> QED
  BY <1>1, ProcessAssumption DEF USER, Proc, Slots, BEHIND

\* What is put in front of the list is on it, with what was there.
LEMMA RangeCons ==
  ASSUME NEW s \in Seq(Proc), NEW e \in Proc
  PROVE  /\ <<e>> \o s \in Seq(Proc)
         /\ Range(<<e>> \o s) = {e} \cup Range(s)
         /\ Len(<<e>> \o s) = Len(s) + 1
         /\ (<<e>> \o s)[1] = e
         /\ \A k \in 2 .. Len(s) + 1 : (<<e>> \o s)[k] = s[k - 1]
<1> DEFINE t == <<e>> \o s
<1>1. <<e>> \in Seq(Proc) /\ Len(<<e>>) = 1 /\ <<e>>[1] = e
  OBVIOUS
<1>2. t \in Seq(Proc) /\ Len(t) = Len(s) + 1
  BY <1>1
<1>3. t[1] = e /\ \A k \in 2 .. Len(s) + 1 : t[k] = s[k - 1]
  BY <1>1
<1>4. Len(s) \in Nat /\ DOMAIN s = 1 .. Len(s) /\ DOMAIN t = 1 .. Len(s) + 1
  BY <1>2
<1>5. ASSUME NEW x \in Range(t) PROVE x \in {e} \cup Range(s)
  <2>1. PICK k \in DOMAIN t : x = t[k]
    BY DEF Range
  <2>2. k = 1 \/ k \in 2 .. Len(s) + 1
    BY <1>4
  <2>3. k \in 2 .. Len(s) + 1 => k - 1 \in DOMAIN s
    BY <1>4
  <2> QED
    BY <1>3, <2>1, <2>2, <2>3 DEF Range
<1>6. ASSUME NEW x \in {e} \cup Range(s) PROVE x \in Range(t)
  <2>1. CASE x = e
    <3>1. 1 \in DOMAIN t
      BY <1>4
    <3> QED
      BY <1>3, <2>1, <3>1 DEF Range
  <2>2. CASE x \in Range(s)
    <3>1. PICK k \in DOMAIN s : x = s[k]
      BY <2>2 DEF Range
    <3>2. k + 1 \in 2 .. Len(s) + 1 /\ k + 1 \in DOMAIN t /\ (k + 1) - 1 = k
      BY <1>4
    <3>3. t[k + 1] = x
      BY <1>3, <3>1, <3>2
    <3> QED
      BY <3>2, <3>3 DEF Range
  <2> QED
    BY <2>1, <2>2
<1> HIDE DEF t
<1>7. Range(t) = {e} \cup Range(s)
  BY <1>5, <1>6
<1> QED
  BY <1>2, <1>3, <1>7 DEF t

\* pids differ, so that a process with the pid that is looked for is the one
\* find_process returns.
LEMMA FirstByPid ==
  ASSUME TypeOK, ListOK, NEW p \in Listed, pid[p] = parent_pid[me]
  PROVE  \E k \in DOMAIN process_list : First(k, Parents) /\ p = process_list[k]
<1>1. PICK k \in DOMAIN process_list : p = process_list[k]
  BY DEF Listed, Range
<1>2. p \in Parents
  BY DEF Parents, Listed
<1>3. process_list \in Seq(Proc) /\ DOMAIN process_list = 1 .. Len(process_list)
      /\ Len(process_list) \in Nat
  BY DEF TypeOK
<1>4. ASSUME NEW j \in 1 .. k - 1 PROVE process_list[j] \notin Parents
  <2>1. j \in DOMAIN process_list /\ j < k
    BY <1>3
  <2>2. pid[process_list[j]] > pid[p]
    BY <1>1, <2>1 DEF ListOK
  <2>3. process_list[j] \in Proc /\ p \in Proc /\ pid[process_list[j]] \in Nat /\ pid[p] \in Nat
    <3>1. pid \in [Proc -> Nat]
      BY DEF TypeOK
    <3>2. process_list[j] \in Proc /\ p \in Proc
      BY <1>1, <1>3, <2>1
    <3> QED
      BY <3>1, <3>2
  <2> QED
    BY <2>2, <2>3 DEF Parents
<1> QED
  BY <1>1, <1>2, <1>4 DEF First

\* What schedule() does to the states: only READY and RUNNING ones change, and
\* the only RUNNING process afterwards is the current one.
LEMMA ScheduleStates ==
  ASSUME TypeOK, NEW st \in [Proc -> States], NEW cur \in Proc \cup {NULL},
         \A p \in Proc : st[p] = "RUNNING" => p = cur,
         schedule(st, cur)
  PROVE  /\ state' \in [Proc -> States]
         /\ \A p \in Proc : st[p] \in {"ZOMBIE", "BLOCKED"} => state'[p] = st[p]
         /\ \A p \in Proc : state'[p] \in {"ZOMBIE", "BLOCKED"} => state'[p] = st[p]
         /\ \A p \in Proc \ Listed : st[p] = "READY" => state'[p] = "READY"
         /\ \A p \in Proc : state'[p] = "RUNNING" => p = current_process'
         /\ current_process' \in Proc \cup {NULL}
         /\ cpu' \in {"run", "wild", "hang"}
         /\ cpu' = "run" => /\ current_process' \in Listed
                            /\ state'[current_process'] \in {"READY", "RUNNING"}
<1> USE ProcFacts
<1>1. CASE state' = st /\ current_process' = cur /\ cpu' = "hang"
  BY <1>1
<1>2. ASSUME NEW k \in DOMAIN process_list, First(k, InState(st, {"READY"})),
             state' = Picked(st, cur, process_list[k]),
             current_process' = process_list[k], cpu' \in {"run", "wild"}
      PROVE  /\ state' \in [Proc -> States]
             /\ \A p \in Proc : st[p] \in {"ZOMBIE", "BLOCKED"} => state'[p] = st[p]
             /\ \A p \in Proc : state'[p] \in {"ZOMBIE", "BLOCKED"} => state'[p] = st[p]
             /\ \A p \in Proc \ Listed : st[p] = "READY" => state'[p] = "READY"
             /\ \A p \in Proc : state'[p] = "RUNNING" => p = current_process'
             /\ current_process' \in Listed
             /\ current_process' \in Proc
             /\ state'[current_process'] \in {"READY", "RUNNING"}
  <2> DEFINE next == process_list[k]
  <2>1. next \in Proc /\ st[next] = "READY" /\ next \in Listed
    BY <1>2 DEF First, InState, Listed, Range
  <2>2. state' = IF cur # NULL /\ [st EXCEPT ![next] = "RUNNING"][cur] = "RUNNING"
                 THEN [[st EXCEPT ![next] = "RUNNING"] EXCEPT ![cur] = "READY"]
                 ELSE [st EXCEPT ![next] = "RUNNING"]
    BY <1>2 DEF Picked
  <2> HIDE DEF next
  <2>3. state' \in [Proc -> States]
    BY <2>1, <2>2 DEF States
  <2>4. ASSUME NEW p \in Proc
        PROVE  state'[p] = IF p = cur /\ (p = next \/ st[p] = "RUNNING") THEN "READY"
                           ELSE IF p = next THEN "RUNNING" ELSE st[p]
    BY <2>1, <2>2
  <2>5. current_process' = next
    BY <1>2 DEF next
  <2> QED
    BY <2>1, <2>3, <2>4, <2>5 DEF States
<1> QED
  BY <1>1, <1>2 DEF schedule

\* A step through schedule() keeps the table in order, when the states st that
\* the caller has prepared are.
LEMMA ScheduleCore ==
  ASSUME TypeOK, Core, cpu = "run",
         NEW st \in [Proc -> States], NEW cur \in Proc \cup {NULL},
         \A p \in Proc : st[p] = "RUNNING" => p = cur,
         schedule(st, cur), UNCHANGED tableVars,
         \A p \in Proc \ Listed : st[p] = "READY" /\ at'[p] = "run",
         \A p, c \in Listed :
           st[p] = "BLOCKED" /\ st[c] = "ZOMBIE" /\ parent_pid[c] = pid[p] => c \in left',
         \A p \in Listed : at'[p] = "wait" =>
           st[p] = "BLOCKED" \/ \E c \in Listed : st[c] = "ZOMBIE" /\ parent_pid[c] = pid[p]
  PROVE  Core'
<1> DEFINE L == Listed
<1>1. /\ Listed' = L /\ Range(process_list)' = L /\ L \subseteq Proc
      /\ pid' = pid /\ parent_pid' = parent_pid
      /\ process_list' = process_list /\ process_count' = process_count /\ next_pid' = next_pid
  <2>1. L \subseteq Proc
    BY DEF Listed, Range, TypeOK
  <2> QED
    BY <2>1 DEF Listed, tableVars
<1>2. /\ \A p \in Proc : st[p] \in {"ZOMBIE", "BLOCKED"} => state'[p] = st[p]
      /\ \A p \in Proc : state'[p] \in {"ZOMBIE", "BLOCKED"} => state'[p] = st[p]
      /\ \A p \in Proc \ L : st[p] = "READY" => state'[p] = "READY"
      /\ \A p \in Proc : state'[p] = "RUNNING" => p = current_process'
      /\ cpu' \in {"run", "wild", "hang"}
      /\ cpu' = "run" => /\ current_process' \in L
                         /\ state'[current_process'] \in {"READY", "RUNNING"}
  BY ScheduleStates
<1> HIDE DEF L
<1>3. ListOK'
  BY <1>1, <1>2 DEF Core, ListOK
<1>4. Untouched'
  BY <1>1, <1>2 DEF Core, Untouched, L
<1>5. RunningIsCurrent'
  BY <1>1, <1>2, ProcFacts DEF RunningIsCurrent
<1>6. NoLostWakeup'
  <2> SUFFICES ASSUME NEW p \in L, NEW c \in L, state'[p] = "BLOCKED", state'[c] = "ZOMBIE",
                      parent_pid[c] = pid[p]
               PROVE  c \in left'
    BY <1>1 DEF NoLostWakeup
  <2> QED
    BY <1>1, <1>2 DEF L
<1>7. WaitersServed'
  <2> SUFFICES ASSUME NEW p \in L, at'[p] = "wait"
               PROVE  state'[p] = "BLOCKED"
                      \/ \E c \in L : state'[c] = "ZOMBIE" /\ parent_pid[c] = pid[p]
    BY <1>1 DEF WaitersServed
  <2>1. CASE st[p] = "BLOCKED"
    BY <1>1, <1>2, <2>1
  <2>2. ASSUME NEW c \in L, st[c] = "ZOMBIE", parent_pid[c] = pid[p]
        PROVE  state'[c] = "ZOMBIE"
    BY <1>1, <1>2, <2>2
  <2> QED
    BY <2>1, <2>2 DEF L
<1> QED
  BY <1>3, <1>4, <1>5, <1>6, <1>7 DEF Core

\* A step that leaves the states and the table alone, and may only end a wait.
LEMMA QuietCore ==
  ASSUME TypeOK, Core, UNCHANGED <<state, current_process, cpu, left, tableVars>>,
         \A p \in Proc : at'[p] \in {at[p], "run"}
  PROVE  Core'
<1>1. /\ Listed' = Listed /\ Range(process_list)' = Range(process_list)
      /\ Listed \subseteq Proc
  BY DEF Listed, Range, TypeOK, tableVars
<1>2. ListOK' /\ RunningIsCurrent' /\ NoLostWakeup'
  BY <1>1 DEF Core, ListOK, RunningIsCurrent, NoLostWakeup, tableVars
<1>3. Untouched'
  BY <1>1 DEF Core, Untouched, tableVars
<1>4. WaitersServed'
  BY <1>1 DEF Core, WaitersServed, tableVars
<1> QED
  BY <1>2, <1>3, <1>4 DEF Core

\* The process that makes a call is on the list, and has not exited.
LEMMA RunningFacts ==
  ASSUME TypeOK, Core, cpu = "run"
  PROVE  /\ me \in Listed /\ me \in Proc /\ Listed \subseteq Proc
         /\ state[me] \in {"READY", "RUNNING"}
         /\ \A p \in Proc : state[p] = "RUNNING" => p = me
         /\ Listed = {USER} \cup 0 .. process_count - 1
<1>1. Listed \subseteq Proc
  BY DEF Listed, Range, TypeOK
<1> QED
  BY <1>1 DEF Core, Untouched, RunningIsCurrent, ListOK, Listed, me

\* Nothing happens before kernel_main has created the shell, and only the process on
\* the processor makes calls.
LEMMA NextRuns == Next => process_create \/ cpu = "run"
<1>1. \A where : Running(where) => cpu = "run"
  BY DEF Running
<1>2. ASSUME NEW hasPath, msg_exec(hasPath) PROVE cpu = "run"
  BY <1>1, <1>2 DEF msg_exec
<1>3. ASSUME NEW s, exit_process(s) \/ process_exit(s) PROVE cpu = "run"
  BY <1>1, <1>3 DEF exit_process, process_exit
<1>4. ASSUME NEW p, NEW m, queue_message(p, m) PROVE cpu = "run"
  BY <1>1, <1>4 DEF queue_message
<1>5. ASSUME NEW nonblock, receive_message(nonblock) PROVE cpu = "run"
  BY <1>1, <1>5 DEF receive_message
<1>6. msg_fork \/ msg_wait \/ msg_wait_resumed \/ receive_resumed => cpu = "run"
  BY <1>1 DEF msg_fork, msg_wait, msg_wait_resumed, receive_resumed
<1> QED
  BY <1>2, <1>3, <1>4, <1>5, <1>6 DEF Next

\* A new process in front of the list.
LEMMA ConsListOK ==
  ASSUME TypeOK, ListOK, next_pid >= 2, NEW e \in Proc, e \notin Listed, take_pid(e),
         process_list' = <<e>> \o process_list,
         {e} \cup Listed = (IF cpu' = "boot" THEN {} ELSE {USER}) \cup 0 .. process_count' - 1
  PROVE  ListOK'
<1> DEFINE s == process_list
           t == process_list'
<1>1. /\ s \in Seq(Proc) /\ Len(s) \in Nat /\ DOMAIN s = 1 .. Len(s)
      /\ pid \in [Proc -> Nat] /\ next_pid \in Nat
  BY DEF TypeOK
<1>2. /\ t \in Seq(Proc) /\ Range(t) = {e} \cup Range(s) /\ Len(t) = Len(s) + 1 /\ t[1] = e
      /\ \A k \in 2 .. Len(s) + 1 : t[k] = s[k - 1]
  BY <1>1, RangeCons
<1>3. pid' = [pid EXCEPT ![e] = next_pid] /\ next_pid' = next_pid + 1
  BY DEF take_pid
<1>4. ASSUME NEW k \in DOMAIN s
      PROVE  s[k] \in Proc /\ pid'[s[k]] = pid[s[k]] /\ pid[s[k]] \in 2 .. next_pid - 1
  <2>1. s[k] \in Proc /\ s[k] # e
    BY <1>1 DEF Listed, Range
  <2> QED
    BY <1>1, <1>3, <2>1 DEF ListOK
<1>5. pid'[e] = next_pid
  BY <1>1, <1>3
<1>6. DOMAIN t = 1 .. Len(s) + 1
  BY <1>2
<1>7. \A k \in 2 .. Len(s) + 1 : k - 1 \in DOMAIN s /\ t[k] = s[k - 1]
  BY <1>1, <1>2
<1>8. \A k \in DOMAIN t : k = 1 \/ k \in 2 .. Len(s) + 1
  BY <1>1, <1>6
<1> HIDE DEF s, t
<1>9. ASSUME NEW j \in DOMAIN t, NEW k \in DOMAIN t, j < k
      PROVE  pid'[t[j]] > pid'[t[k]]
  <2>1. k \in 2 .. Len(s) + 1
    BY <1>1, <1>6, <1>9
  <2>2. pid'[t[k]] = pid[s[k - 1]] /\ pid[s[k - 1]] \in 2 .. next_pid - 1 /\ k - 1 \in DOMAIN s
    BY <1>4, <1>7, <2>1
  <2>3. CASE j = 1
    <3>1. pid'[t[j]] = next_pid
      BY <1>2, <1>5, <2>3
    <3> QED
      BY <1>1, <2>2, <3>1
  <2>4. CASE j \in 2 .. Len(s) + 1
    <3>1. pid'[t[j]] = pid[s[j - 1]] /\ j - 1 \in DOMAIN s
      BY <1>4, <1>7, <2>4
    <3>2. j - 1 < k - 1
      BY <1>1, <1>6, <1>9
    <3>3. pid[s[j - 1]] > pid[s[k - 1]]
      BY <2>2, <3>1, <3>2 DEF ListOK, s
    <3> QED
      BY <2>2, <3>1, <3>3
  <2> QED
    BY <1>8, <2>3, <2>4
<1>10. ASSUME NEW k \in DOMAIN t PROVE pid'[t[k]] \in 2 .. next_pid' - 1
  <2>1. CASE k = 1
    BY <1>1, <1>2, <1>3, <1>5, <2>1
  <2>2. CASE k \in 2 .. Len(s) + 1
    <3>1. pid'[t[k]] = pid[s[k - 1]] /\ pid[s[k - 1]] \in 2 .. next_pid - 1
      BY <1>4, <1>7, <2>2
    <3> QED
      BY <1>1, <1>3, <3>1
  <2> QED
    BY <1>8, <2>1, <2>2
<1>11. Range(t) = (IF cpu' = "boot" THEN {} ELSE {USER}) \cup 0 .. process_count' - 1
  BY <1>2 DEF Listed, s
<1> QED
  BY <1>9, <1>10, <1>11 DEF ListOK, t

\* kernel_main's process_create.
LEMMA CreateCore ==
  ASSUME TypeOK, Core, process_create
  PROVE  Core'
<1> USE ProcFacts
<1>1. process_list = <<>> /\ process_count = 0 /\ current_process = NULL /\ Listed = {}
      /\ next_pid >= 2 /\ next_pid \in Nat
  <2>1. process_list = <<>> /\ process_count = 0 /\ current_process = NULL
    BY DEF Core, Untouched, process_create
  <2>2. Listed = {}
    BY <2>1 DEF Listed, Range
  <2> QED
    BY <2>1, <2>2 DEF Core, Untouched, TypeOK
<1>2. /\ process_list' = <<USER>> \o process_list /\ cpu' = "run" /\ process_count' = 0
      /\ current_process' = USER /\ state' = [state EXCEPT ![USER] = "READY"] /\ take_pid(USER)
      /\ at' = at /\ left' = left /\ parent_pid' = parent_pid
  BY <1>1 DEF process_create
<1>3. Listed' = {USER}
  <2>1. process_list \in Seq(Proc)
    BY DEF TypeOK
  <2>2. Range(process_list)' = {USER} \cup Range(process_list)
    BY <1>2, <2>1, RangeCons
  <2> QED
    BY <1>1, <2>2 DEF Listed
<1>4. ListOK'
  <2>1. {USER} \cup Listed = (IF cpu' = "boot" THEN {} ELSE {USER}) \cup 0 .. process_count' - 1
    BY <1>1, <1>2
  <2> QED
    BY <1>1, <1>2, <2>1, ConsListOK DEF Core
<1>5. \A p \in Proc : state[p] = "READY" /\ at[p] = "run"
  BY <1>1 DEF Core, Untouched
<1>6. \A p \in Proc : state'[p] = "READY" /\ at'[p] = "run"
  BY <1>2, <1>5 DEF TypeOK
<1>7. Untouched'
  BY <1>1, <1>2, <1>3, <1>6 DEF Untouched, take_pid
<1>8. RunningIsCurrent'
  BY <1>2, <1>6 DEF RunningIsCurrent
<1>9. NoLostWakeup' /\ WaitersServed'
  <2>1. Range(process_list)' = {USER}
    BY <1>3 DEF Listed
  <2> QED
    BY <1>3, <1>6, <2>1 DEF NoLostWakeup, WaitersServed
<1> QED
  BY <1>4, <1>7, <1>8, <1>9 DEF Core

\* MSG_FORK.
LEMMA ForkCore ==
  ASSUME TypeOK, Core, msg_fork
  PROVE  Core'
<1> USE ProcFacts
<1>1. cpu = "run"
  BY DEF msg_fork, Running
<1>2. /\ me \in Listed /\ Listed \subseteq Proc /\ Listed = {USER} \cup 0 .. process_count - 1
      /\ state[me] \in {"READY", "RUNNING"}
  BY <1>1, RunningFacts
<1> DEFINE new == process_count
           L == Listed
<1>3. /\ take_pid(new) /\ parent_pid' = [parent_pid EXCEPT ![new] = pid[me]]
      /\ state' = [state EXCEPT ![new] = "READY"]
      /\ process_list' = <<new>> \o process_list
      /\ process_count' = process_count + 1
      /\ cpu' \in {"run", "overrun"} /\ UNCHANGED <<current_process, at, left>>
  BY <1>1 DEF msg_fork
<1>4. new \in Proc /\ new \notin L /\ new \in Nat
  <2>1. new \in Proc /\ new \in 0 .. MAX_PROCESSES /\ new # USER
    BY <1>1, NextSlot
  <2> QED
    BY <1>2, <2>1, ProcessAssumption
<1>5. Listed' = {new} \cup L
  <2>1. process_list \in Seq(Proc)
    BY DEF TypeOK
  <2>2. Range(process_list)' = {new} \cup Range(process_list)
    BY <1>3, <1>4, <2>1, RangeCons
  <2> QED
    BY <2>2 DEF Listed
<1>6. ListOK'
  <2>1. {new} \cup Listed = (IF cpu' = "boot" THEN {} ELSE {USER}) \cup 0 .. process_count' - 1
    BY <1>1, <1>2, <1>3, <1>4
  <2>2. ListOK /\ next_pid >= 2
    BY DEF Core, Untouched
  <2> QED
    BY <1>3, <1>4, <2>1, <2>2, ConsListOK
<1>7. /\ state \in [Proc -> States] /\ pid \in [Proc -> Nat] /\ parent_pid \in [Proc -> Nat]
      /\ next_pid \in Nat
  BY DEF TypeOK
<1>8. /\ state'[new] = "READY"
      /\ \A p \in Proc \ {new} : /\ state'[p] = state[p] /\ pid'[p] = pid[p]
                                 /\ parent_pid'[p] = parent_pid[p]
  BY <1>3, <1>4, <1>7 DEF take_pid
<1>9. at[new] = "run"
  BY <1>4 DEF Core, Untouched
<1>10. next_pid >= 2 /\ next_pid' = next_pid + 1
  BY <1>3 DEF Core, Untouched, take_pid
<1> HIDE DEF new, L
<1>11. Untouched'
  <2>1. \A p \in Proc \ L : state[p] = "READY" /\ at[p] = "run"
    BY DEF Core, Untouched, L
  <2>2. current_process \in L
    BY <1>2 DEF me, L
  <2> QED
    BY <1>1, <1>3, <1>5, <1>7, <1>8, <1>10, <2>1, <2>2 DEF Untouched
<1>12. RunningIsCurrent'
  BY <1>1, <1>3, <1>4, <1>8 DEF Core, RunningIsCurrent, Untouched, L, me
<1>13. NoLostWakeup'
  <2> SUFFICES ASSUME NEW p \in {new} \cup L, NEW c \in {new} \cup L, state'[p] = "BLOCKED",
                      state'[c] = "ZOMBIE", parent_pid'[c] = pid'[p]
               PROVE  c \in left
    BY <1>3, <1>5 DEF NoLostWakeup, Listed
  <2>1. p \in L /\ c \in L /\ p # new /\ c # new
    BY <1>8
  <2>2. state[p] = "BLOCKED" /\ state[c] = "ZOMBIE" /\ parent_pid[c] = pid[p]
    BY <1>2, <1>8, <2>1 DEF L
  <2> QED
    BY <2>1, <2>2 DEF Core, NoLostWakeup, L, Listed
<1>14. WaitersServed'
  <2> SUFFICES ASSUME NEW p \in {new} \cup L, at[p] = "wait"
               PROVE  state'[p] = "BLOCKED" \/ \E c \in {new} \cup L :
                        state'[c] = "ZOMBIE" /\ parent_pid'[c] = pid'[p]
    BY <1>3, <1>5 DEF WaitersServed
  <2>1. p \in L /\ p # new /\ p \in Proc
    BY <1>2, <1>9 DEF L
  <2>2. CASE state[p] = "BLOCKED"
    BY <1>8, <2>1, <2>2
  <2>3. ASSUME NEW c \in L, state[c] = "ZOMBIE", parent_pid[c] = pid[p]
        PROVE  state'[c] = "ZOMBIE" /\ parent_pid'[c] = pid'[p]
    BY <1>2, <1>4, <1>8, <2>1, <2>3 DEF L
  <2> QED
    BY <2>1, <2>2, <2>3 DEF Core, WaitersServed, L
<1> QED
  BY <1>6, <1>11, <1>12, <1>13, <1>14 DEF Core

\* MSG_WAIT that blocks: the caller has no ZOMBIE child.
LEMMA WaitCore ==
  ASSUME TypeOK, Core, msg_wait
  PROVE  Core'
<1>1. cpu = "run" /\ UNCHANGED tableVars /\ left' = left
  BY DEF msg_wait, Running
<1>2. /\ me \in Listed /\ me \in Proc /\ Listed \subseteq Proc
      /\ \A p \in Proc : state[p] = "RUNNING" => p = me
  BY <1>1, RunningFacts
<1>3. CASE UNCHANGED <<state, ctx, current_process, at, cpu>>
  BY <1>1, <1>3, QuietCore
<1>4. CASE /\ NoZombieChild /\ at' = [at EXCEPT ![me] = "wait"]
           /\ schedule([state EXCEPT ![me] = "BLOCKED"], me)
  <2> DEFINE st == [state EXCEPT ![me] = "BLOCKED"]
  <2>1. /\ state \in [Proc -> States] /\ at \in [Proc -> {"run", "wait", "recv"}]
    BY DEF TypeOK
  <2>2. /\ st \in [Proc -> States] /\ st[me] = "BLOCKED"
        /\ \A p \in Proc \ {me} : st[p] = state[p] /\ at'[p] = at[p]
        /\ schedule(st, me)
    BY <1>2, <1>4, <2>1 DEF States
  <2> HIDE DEF st
  <2>3. \A p \in Proc : st[p] = "RUNNING" => p = me
    BY <1>2, <2>2
  <2>4. \A p \in Proc \ Listed : st[p] = "READY" /\ at'[p] = "run"
    BY <1>2, <2>2 DEF Core, Untouched
  <2>5. ASSUME NEW p \in Listed, NEW c \in Listed, st[p] = "BLOCKED", st[c] = "ZOMBIE",
               parent_pid[c] = pid[p]
        PROVE  c \in left'
    <3>1. c # me /\ c \in Proc /\ state[c] = "ZOMBIE"
      BY <1>2, <2>2, <2>5
    <3>2. p # me
      BY <1>4, <2>5, <3>1 DEF NoZombieChild, ZombieChildren, Listed
    <3>3. state[p] = "BLOCKED"
      BY <1>2, <2>2, <2>5, <3>2
    <3> QED
      BY <1>1, <2>5, <3>1, <3>3 DEF Core, NoLostWakeup, Listed
  <2>6. ASSUME NEW p \in Listed, at'[p] = "wait"
        PROVE  st[p] = "BLOCKED" \/ \E c \in Listed : st[c] = "ZOMBIE" /\ parent_pid[c] = pid[p]
    <3>1. CASE p = me
      BY <2>2, <3>1
    <3>2. CASE p # me
      <4>1. at[p] = "wait" /\ st[p] = state[p]
        BY <1>2, <2>2, <2>6, <3>2
      <4>2. ASSUME NEW c \in Listed, state[c] = "ZOMBIE" PROVE st[c] = "ZOMBIE"
        BY <1>1, <1>2, <2>2, <4>2, RunningFacts
      <4> QED
        BY <4>1, <4>2 DEF Core, WaitersServed
    <3> QED
      BY <3>1, <3>2
  <2>7. \A p, c \in Listed :
          st[p] = "BLOCKED" /\ st[c] = "ZOMBIE" /\ parent_pid[c] = pid[p] => c \in left'
    BY <2>5
  <2>8. \A p \in Listed : at'[p] = "wait" =>
          st[p] = "BLOCKED" \/ \E c \in Listed : st[c] = "ZOMBIE" /\ parent_pid[c] = pid[p]
    BY <2>6
  <2>9. me \in Proc \cup {NULL}
    BY <1>2
  <2> QED
    BY <1>1, <2>2, <2>3, <2>4, <2>7, <2>8, <2>9, ScheduleCore, Zenon
<1> QED
  BY <1>3, <1>4 DEF msg_wait

\* The states that exit_process hands to schedule(): the caller is a ZOMBIE, and a
\* BLOCKED parent is READY.
Woken == WakeParent([state EXCEPT ![me] = "ZOMBIE"])

\* What exit_process changes in the states before it calls schedule(): its own to
\* ZOMBIE, and at most its BLOCKED parent's to READY.
LEMMA WakeStates ==
  ASSUME TypeOK, Core, cpu = "run"
  PROVE  /\ Woken \in [Proc -> States]
         /\ Woken[me] = "ZOMBIE"
         /\ \A p \in Proc : state[p] = "ZOMBIE" => Woken[p] = "ZOMBIE"
         /\ \A p \in Proc \ {me} : Woken[p] = state[p] \/ (state[p] = "BLOCKED" /\ Woken[p] = "READY")
         /\ \A p \in Listed : Woken[p] = "BLOCKED" => pid[p] # parent_pid[me]
         /\ \A p \in Proc \ {me} : Woken[p] # state[p] => pid[p] = parent_pid[me]
         /\ \A p \in Proc \ {me} : Woken[p] # state[p] => p \in Listed
<1> DEFINE st == Woken
           s1 == [state EXCEPT ![me] = "ZOMBIE"]
<1>1. me \in Proc /\ Listed \subseteq Proc
  BY RunningFacts
<1>2. /\ s1 \in [Proc -> States] /\ s1[me] = "ZOMBIE" /\ \A p \in Proc \ {me} : s1[p] = state[p]
  BY <1>1 DEF TypeOK, States
<1>3. st = [p \in Proc |-> IF /\ s1[p] = "BLOCKED"
                              /\ \E k \in DOMAIN process_list :
                                   First(k, Parents) /\ p = process_list[k]
                           THEN "READY" ELSE s1[p]]
  BY DEF WakeParent, Woken
<1> HIDE DEF s1, st
<1>4. st \in [Proc -> States]
  BY <1>2, <1>3 DEF States
<1>5. \A p \in Proc : st[p] # s1[p] => /\ s1[p] = "BLOCKED" /\ st[p] = "READY" /\ p \in Parents
  BY <1>3 DEF First
<1>6. ASSUME NEW p \in Listed, st[p] = "BLOCKED" PROVE pid[p] # parent_pid[me]
  <2> SUFFICES ASSUME pid[p] = parent_pid[me] PROVE FALSE
    OBVIOUS
  <2>1. \E k \in DOMAIN process_list : First(k, Parents) /\ p = process_list[k]
    BY FirstByPid DEF Core
  <2> QED
    BY <1>1, <1>3, <1>6, <2>1
<1>7. \A p \in Parents : p \in Listed /\ pid[p] = parent_pid[me]
  BY DEF Parents, Listed
<1> QED
  BY <1>1, <1>2, <1>4, <1>5, <1>6, <1>7 DEF st

\* exit_process.
LEMMA ExitCore ==
  ASSUME TypeOK, Core, NEW s \in Status, exit_process(s)
  PROVE  Core'
<1> DEFINE st == Woken
<1>1. cpu = "run" /\ at[me] = "run" /\ UNCHANGED tableVars /\ left' = left /\ at' = at
      /\ schedule(st, me)
  BY DEF exit_process, Running, Woken
<1>2. /\ me \in Listed /\ me \in Proc /\ Listed \subseteq Proc
      /\ \A p \in Proc : state[p] = "RUNNING" => p = me
  BY <1>1, RunningFacts
<1>3. /\ st \in [Proc -> States]
      /\ st[me] = "ZOMBIE"
      /\ \A p \in Proc : state[p] = "ZOMBIE" => st[p] = "ZOMBIE"
      /\ \A p \in Proc \ {me} : st[p] = state[p] \/ (state[p] = "BLOCKED" /\ st[p] = "READY")
      /\ \A p \in Listed : st[p] = "BLOCKED" => pid[p] # parent_pid[me]
      /\ \A p \in Proc \ {me} : st[p] # state[p] => pid[p] = parent_pid[me]
      /\ \A p \in Proc \ {me} : st[p] # state[p] => p \in Listed
  BY <1>1, WakeStates, Zenon
<1> HIDE DEF st
<1>4. \A p \in Proc : st[p] = "RUNNING" => p = me
  BY <1>2, <1>3
<1>5. \A p \in Proc \ Listed : st[p] = "READY" /\ at'[p] = "run"
  BY <1>1, <1>2, <1>3 DEF Core, Untouched
<1>6. ASSUME NEW p \in Listed, NEW c \in Listed, st[p] = "BLOCKED", st[c] = "ZOMBIE",
             parent_pid[c] = pid[p]
      PROVE  c \in left'
  <2>1. c # me
    BY <1>3, <1>6
  <2>2. p # me /\ state[p] = "BLOCKED" /\ state[c] = "ZOMBIE"
    BY <1>2, <1>3, <1>6, <2>1
  <2> QED
    BY <1>1, <1>6, <2>2 DEF Core, NoLostWakeup, Listed
<1>7. ASSUME NEW p \in Listed, at'[p] = "wait"
      PROVE  st[p] = "BLOCKED" \/ \E c \in Listed : st[c] = "ZOMBIE" /\ parent_pid[c] = pid[p]
  <2>1. p # me /\ at[p] = "wait" /\ p \in Proc
    BY <1>1, <1>2, <1>7
  <2>2. CASE st[p] = state[p]
    <3>1. \A c \in Listed : state[c] = "ZOMBIE" => st[c] = "ZOMBIE"
      BY <1>2, <1>3
    <3>2. state[p] = "BLOCKED" \/ \E c \in Listed : state[c] = "ZOMBIE" /\ parent_pid[c] = pid[p]
      BY <1>7, <2>1 DEF Core, WaitersServed
    <3> QED
      BY <2>2, <3>1, <3>2, Zenon
  <2>3. CASE st[p] # state[p]
    BY <1>2, <1>3, <2>1, <2>3
  <2> QED
    BY <2>2, <2>3
<1>8. \A p, c \in Listed :
        st[p] = "BLOCKED" /\ st[c] = "ZOMBIE" /\ parent_pid[c] = pid[p] => c \in left'
  BY <1>6
<1>9. \A p \in Listed : at'[p] = "wait" =>
        st[p] = "BLOCKED" \/ \E c \in Listed : st[c] = "ZOMBIE" /\ parent_pid[c] = pid[p]
  BY <1>7
<1>10. me \in Proc \cup {NULL}
  BY <1>2
<1> QED
  BY <1>1, <1>3, <1>4, <1>5, <1>8, <1>9, <1>10, ScheduleCore, Zenon

\* process_exit, whose child goes to left.
LEMMA ProcessExitCore ==
  ASSUME TypeOK, Core, NEW s \in Status, process_exit(s)
  PROVE  Core'
<1> DEFINE st == [state EXCEPT ![me] = "ZOMBIE"]
<1>1. cpu = "run" /\ at[me] = "run" /\ UNCHANGED tableVars /\ left' = left \cup {me} /\ at' = at
      /\ schedule(st, NULL)
  BY DEF process_exit, Running
<1>2. /\ me \in Listed /\ me \in Proc /\ Listed \subseteq Proc
      /\ \A p \in Proc : state[p] = "RUNNING" => p = me
  BY <1>1, RunningFacts
<1>3. /\ st \in [Proc -> States] /\ st[me] = "ZOMBIE" /\ \A p \in Proc \ {me} : st[p] = state[p]
  BY <1>2 DEF TypeOK, States
<1> HIDE DEF st
<1>4. \A p \in Proc : st[p] = "RUNNING" => p = NULL
  BY <1>2, <1>3
<1>5. \A p \in Proc \ Listed : st[p] = "READY" /\ at'[p] = "run"
  BY <1>1, <1>2, <1>3 DEF Core, Untouched
<1>6. ASSUME NEW p \in Listed, NEW c \in Listed, st[p] = "BLOCKED", st[c] = "ZOMBIE",
             parent_pid[c] = pid[p]
      PROVE  c \in left'
  <2>1. CASE c = me
    BY <1>1, <2>1
  <2>2. CASE c # me
    <3>1. p # me /\ state[p] = "BLOCKED" /\ state[c] = "ZOMBIE"
      BY <1>2, <1>3, <1>6, <2>2
    <3> QED
      BY <1>1, <1>6, <3>1 DEF Core, NoLostWakeup, Listed
  <2> QED
    BY <2>1, <2>2
<1>7. ASSUME NEW p \in Listed, at'[p] = "wait"
      PROVE  st[p] = "BLOCKED" \/ \E c \in Listed : st[c] = "ZOMBIE" /\ parent_pid[c] = pid[p]
  <2>1. p # me /\ at[p] = "wait" /\ p \in Proc /\ st[p] = state[p]
    BY <1>1, <1>2, <1>3, <1>7
  <2>2. \A c \in Listed : state[c] = "ZOMBIE" => st[c] = "ZOMBIE"
    BY <1>2, <1>3
  <2>3. state[p] = "BLOCKED" \/ \E c \in Listed : state[c] = "ZOMBIE" /\ parent_pid[c] = pid[p]
    BY <1>7, <2>1 DEF Core, WaitersServed
  <2> QED
    BY <2>1, <2>2, <2>3, Zenon
<1>8. \A p, c \in Listed :
        st[p] = "BLOCKED" /\ st[c] = "ZOMBIE" /\ parent_pid[c] = pid[p] => c \in left'
  BY <1>6
<1>9. \A p \in Listed : at'[p] = "wait" =>
        st[p] = "BLOCKED" \/ \E c \in Listed : st[c] = "ZOMBIE" /\ parent_pid[c] = pid[p]
  BY <1>7
<1>10. NULL \in Proc \cup {NULL}
  OBVIOUS
<1> QED
  BY <1>1, <1>3, <1>4, <1>5, <1>8, <1>9, <1>10, ScheduleCore, Zenon

\* receive_message, with or without schedule().
LEMMA ReceiveCore ==
  ASSUME TypeOK, Core, NEW nonblock \in BOOLEAN, receive_message(nonblock)
  PROVE  Core'
<1>1. cpu = "run" /\ at[me] = "run" /\ UNCHANGED tableVars /\ left' = left
  BY DEF receive_message, Running
<1>2. /\ me \in Listed /\ me \in Proc /\ Listed \subseteq Proc
      /\ \A p \in Proc : state[p] = "RUNNING" => p = me
  BY <1>1, RunningFacts
<1>3. CASE UNCHANGED <<state, ctx, current_process, at, cpu>>
  BY <1>1, <1>3, QuietCore
<1>4. CASE at' = [at EXCEPT ![me] = "recv"] /\ schedule(state, me)
  <2>1. state \in [Proc -> States] /\ at \in [Proc -> {"run", "wait", "recv"}]
    BY DEF TypeOK
  <2>2. at'[me] = "recv" /\ \A p \in Proc \ {me} : at'[p] = at[p]
    BY <1>2, <1>4, <2>1
  <2>3. \A p \in Proc \ Listed : state[p] = "READY" /\ at'[p] = "run"
    BY <1>2, <2>2 DEF Core, Untouched
  <2>4. \A p, c \in Listed :
          state[p] = "BLOCKED" /\ state[c] = "ZOMBIE" /\ parent_pid[c] = pid[p] => c \in left'
    BY <1>1 DEF Core, NoLostWakeup, Listed
  <2>5. \A p \in Listed : at'[p] = "wait" => at[p] = "wait"
    BY <1>2, <2>2
  <2>6. \A p \in Listed : at'[p] = "wait" =>
          state[p] = "BLOCKED" \/ \E c \in Listed : state[c] = "ZOMBIE" /\ parent_pid[c] = pid[p]
    BY <2>5 DEF Core, WaitersServed
  <2>7. me \in Proc \cup {NULL} /\ \A p \in Proc : state[p] = "RUNNING" => p = me
    BY <1>2
  <2> QED
    BY <1>1, <1>4, <2>1, <2>3, <2>4, <2>6, <2>7, ScheduleCore, Zenon
<1> QED
  BY <1>3, <1>4 DEF receive_message

-----------------------------------------------------------------------------
(* Types.                                                                  *)

Result == [call : {"none", "fork", "exec", "wait", "waited", "wait_failed", "recv"},
           by : Proc \cup {NULL}, val : Int]

\* The types of the process table, without the queues.
TableType ==
  /\ state \in [Proc -> States]
  /\ pid \in [Proc -> Nat]
  /\ parent_pid \in [Proc -> Nat]
  /\ exit_status \in [Proc -> Int]
  /\ ctx \in [Proc -> [Words -> Word]]
  /\ process_list \in Seq(Proc)
  /\ process_count \in 0 .. MAX_PROCESSES + 1
  /\ next_pid \in Nat
  /\ current_process \in Proc \cup {NULL}
  /\ at \in [Proc -> {"run", "wait", "recv"}]
  /\ cpu \in {"boot", "run", "hang", "wild", "overrun"}
  /\ cpu = "overrun" <=> process_count > MAX_PROCESSES
  /\ last \in Result
  /\ left \subseteq Proc

\* The types of the table and of the queues are the type invariant.
LEMMA SplitType ==
  /\ TypeOK <=> TableType /\ MQ!TypeOK
  /\ TypeOK' <=> TableType' /\ MQ!TypeOK'
  BY DEF TypeOK, TableType, Result

\* The queues keep their types through queue_message and receive_message.
LEMMA QueueType ==
  ASSUME MQ!TypeOK, NEW p \in Proc,
         \/ \E m \in Message : MQ!queue_message(p, m)
         \/ \E nonblock \in BOOLEAN : MQ!receive_message(p, nonblock)
  PROVE  MQ!TypeOK'
<1> USE ProcessAssumption
<1>1. \A n \in Nat \ {0} : \A i \in 0 .. n - 1 : (i + 1) % n \in 0 .. n - 1
  OBVIOUS
<1>2. \A i \in MQ!Slots : (i + 1) % MAX_MESSAGES \in MQ!Slots
  BY <1>1 DEF MQ!Slots
<1>3. CASE UNCHANGED <<messages, head, tail, count, out>> /\ res' = -1
           /\ \E b \in BOOLEAN : msg_blocked' = [msg_blocked EXCEPT ![p] = b]
  BY <1>3 DEF MQ!TypeOK
<1>4. ASSUME NEW m \in Message, MQ!queue_message(p, m) PROVE MQ!TypeOK'
  <2>1. CASE res' = -1 /\ UNCHANGED <<messages, head, tail, count, msg_blocked, out>>
    BY <2>1 DEF MQ!TypeOK
  <2>2. CASE /\ count[p] < MAX_MESSAGES
             /\ messages' = [messages EXCEPT ![p][tail[p]] = m]
             /\ tail' = [tail EXCEPT ![p] = (@ + 1) % MAX_MESSAGES]
             /\ count' = [count EXCEPT ![p] = @ + 1]
             /\ msg_blocked' = [msg_blocked EXCEPT ![p] = FALSE]
             /\ res' = 0
             /\ UNCHANGED <<head, out>>
    <3>1. tail[p] \in MQ!Slots /\ count[p] \in 0 .. MAX_MESSAGES
      BY DEF MQ!TypeOK
    <3>2. messages' \in [Proc -> [MQ!Slots -> Message \cup {NoMessage}]]
      BY <2>2, <3>1 DEF MQ!TypeOK
    <3>3. tail' \in [Proc -> MQ!Slots]
      BY <1>2, <2>2, <3>1 DEF MQ!TypeOK
    <3>4. count' \in [Proc -> 0 .. MAX_MESSAGES]
      BY <2>2, <3>1 DEF MQ!TypeOK
    <3> QED
      BY <2>2, <3>2, <3>3, <3>4 DEF MQ!TypeOK
  <2> QED
    BY <1>4, <2>1, <2>2 DEF MQ!queue_message
<1>5. CASE MQ!receive_found(p)
  <2>1. head[p] \in MQ!Slots /\ count[p] \in 1 .. MAX_MESSAGES
    BY <1>5 DEF MQ!TypeOK, MQ!receive_found
  <2>2. head' \in [Proc -> MQ!Slots]
    BY <1>2, <1>5, <2>1 DEF MQ!TypeOK, MQ!receive_found
  <2>3. count' \in [Proc -> 0 .. MAX_MESSAGES]
    BY <1>5, <2>1 DEF MQ!TypeOK, MQ!receive_found
  <2> QED
    BY <1>5, <2>1, <2>2, <2>3 DEF MQ!TypeOK, MQ!receive_found
<1>6. ASSUME NEW nonblock \in BOOLEAN, MQ!receive_empty(p, nonblock) PROVE MQ!TypeOK'
  <2>1. msg_blocked' = [msg_blocked EXCEPT ![p] = msg_blocked[p] \/ ~nonblock]
    BY <1>6 DEF MQ!receive_empty
  <2>2. msg_blocked' \in [Proc -> BOOLEAN]
    BY <2>1 DEF MQ!TypeOK
  <2> QED
    BY <1>6, <2>2 DEF MQ!TypeOK, MQ!receive_empty
<1> QED
  BY <1>4, <1>5, <1>6 DEF MQ!receive_message

\* The contexts keep their type, and schedule() everything it changes.
LEMMA ScheduleType ==
  ASSUME TypeOK, NEW st \in [Proc -> States], NEW cur \in Proc \cup {NULL},
         \A p \in Proc : st[p] = "RUNNING" => p = cur,
         schedule(st, cur)
  PROVE  /\ state' \in [Proc -> States]
         /\ ctx' \in [Proc -> [Words -> Word]]
         /\ current_process' \in Proc \cup {NULL}
         /\ cpu' \in {"run", "hang", "wild"}
<1>1. /\ state' \in [Proc -> States] /\ current_process' \in Proc \cup {NULL}
      /\ cpu' \in {"run", "wild", "hang"}
  BY ScheduleStates
<1>2. ctx \in [Proc -> [Words -> Word]]
  BY DEF TypeOK
<1>3. \A p \in Proc : Saved(p) \in [Words -> Word]
  BY DEF Saved, Word, WordKinds
<1>4. ctx' = ctx \/ (cur \in Proc /\ ctx' = [ctx EXCEPT ![cur] = Saved(cur)])
  BY DEF schedule
<1>5. ctx' \in [Proc -> [Words -> Word]]
  BY <1>2, <1>3, <1>4
<1> QED
  BY <1>1, <1>5

\* Every step keeps the types.
LEMMA NextType ==
  ASSUME TypeOK, Core, Next
  PROVE  TypeOK'
<1> USE ProcFacts, ProcessAssumption
<1>1. TableType /\ MQ!TypeOK
  BY SplitType
<1>2. ASSUME cpu = "run"
      PROVE  /\ me \in Proc /\ \A p \in Proc : state[p] = "RUNNING" => p = me
             /\ me = current_process
  BY <1>2, RunningFacts DEF me
<1>3. ASSUME UNCHANGED queueVars PROVE MQ!TypeOK'
  BY <1>1, <1>3 DEF queueVars, MQ!TypeOK, MQ!Slots
<1>4. ASSUME NEW c \in {"none", "fork", "exec", "wait", "waited", "wait_failed", "recv"},
             NEW v \in Int, cpu = "run", Returns(c, v)
      PROVE  last' \in Result
  BY <1>2, <1>4 DEF Returns, Result
<1>5. CASE process_create
  <2>1. process_list' \in Seq(Proc)
    BY <1>1, <1>5, RangeCons DEF TableType, process_create
  <2>2. pid' \in [Proc -> Nat] /\ next_pid' \in Nat
    BY <1>1, <1>5 DEF TableType, process_create, take_pid
  <2>3. ctx' \in [Proc -> [Words -> Word]]
    <3>1. CtxPC \in Words /\ <<"entry", USER>> \in Word
      BY DEF Words, Word, WordKinds
    <3>2. ctx \in [Proc -> [Words -> Word]] /\ ctx' = [ctx EXCEPT ![USER][CtxPC] = <<"entry", USER>>]
      BY <1>1, <1>5 DEF TableType, process_create
    <3> QED
      BY <3>1, <3>2
  <2>4. TableType'
    BY <1>1, <1>5, <2>1, <2>2, <2>3 DEF TableType, process_create, States
  <2> QED
    BY <1>3, <1>5, <2>4, SplitType DEF process_create
<1>6. CASE msg_fork
  <2> DEFINE new == process_count
  <2>1. cpu = "run" /\ UNCHANGED queueVars
    BY <1>6 DEF msg_fork, Running
  <2>2. /\ take_pid(new) /\ parent_pid' = [parent_pid EXCEPT ![new] = pid[me]]
        /\ state' = [state EXCEPT ![new] = "READY"]
        /\ process_list' = <<new>> \o process_list
        /\ ctx' = [ctx EXCEPT ![new] = ForkContext(new)]
        /\ process_count' = process_count + 1
        /\ cpu' = IF new \in Slots THEN "run" ELSE "overrun"
        /\ Returns("fork", 0)
        /\ UNCHANGED <<exit_status, current_process, at, left>>
    BY <1>6, <2>1 DEF msg_fork
  <2>3. new \in Proc /\ new \in 0 .. MAX_PROCESSES
    BY <2>1, NextSlot
  <2>4. /\ process_count' \in 0 .. MAX_PROCESSES + 1
        /\ cpu' = "overrun" <=> process_count' > MAX_PROCESSES
    BY <2>2, <2>3 DEF Slots
  <2> HIDE DEF new
  <2>5. process_list' \in Seq(Proc)
    BY <1>1, <2>2, <2>3, RangeCons DEF TableType
  <2>6. pid' \in [Proc -> Nat] /\ next_pid' \in Nat /\ parent_pid' \in [Proc -> Nat]
        /\ state' \in [Proc -> States]
    <3>1. /\ pid \in [Proc -> Nat] /\ next_pid \in Nat /\ parent_pid \in [Proc -> Nat]
          /\ state \in [Proc -> States] /\ pid[me] \in Nat
      BY <1>1, <1>2, <2>1 DEF TableType
    <3>2. pid' = [pid EXCEPT ![new] = next_pid] /\ next_pid' = next_pid + 1
      BY <2>2 DEF take_pid
    <3> QED
      BY <2>2, <2>3, <3>1, <3>2 DEF States
  <2>7. ctx' \in [Proc -> [Words -> Word]]
    <3>1. ctx[me] \in [Words -> Word] /\ ctx \in [Proc -> [Words -> Word]]
      BY <1>1, <1>2, <2>1 DEF TableType
    <3>2. <<"top", new>> \in Word /\ <<"process3", new>> \in Word
      BY <2>3 DEF Word, WordKinds
    <3>3. ForkContext(new) \in [Words -> Word]
      BY <3>1, <3>2 DEF ForkContext
    <3> QED
      BY <2>2, <3>1, <3>3
  <2>8. last' \in Result
    BY <1>4, <2>1, <2>2
  <2>9. TableType'
    BY <1>1, <2>2, <2>4, <2>5, <2>6, <2>7, <2>8 DEF TableType
  <2> QED
    BY <1>3, <2>1, <2>9, SplitType
<1>7. ASSUME NEW hasPath \in BOOLEAN, msg_exec(hasPath) PROVE TypeOK'
  <2>1. cpu = "run" /\ UNCHANGED queueVars
        /\ UNCHANGED <<state, exit_status, current_process, at, cpu, left, tableVars>>
    BY <1>7 DEF msg_exec, Running
  <2>2. ctx' \in [Proc -> [Words -> Word]]
    <3>1. ctx \in [Proc -> [Words -> Word]] /\ me \in Proc
      BY <1>1, <1>2, <2>1 DEF TableType
    <3>2. <<"entry", me>> \in Word /\ <<"exec", me>> \in Word /\ Zero \in Word
      BY <3>1 DEF Word, WordKinds, Zero
    <3>3. CASE ctx' = ctx
      BY <3>1, <3>3
    <3>4. CASE ctx' = [ctx EXCEPT ![me] = [w \in Words |->
                     CASE w = CtxPC -> <<"entry", me>>
                       [] w = CtxSP -> <<"exec", me>>
                       [] w >= CtxX -> Zero
                       [] OTHER -> ctx[me][w]]]
      <4>1. [w \in Words |->
                     CASE w = CtxPC -> <<"entry", me>>
                       [] w = CtxSP -> <<"exec", me>>
                       [] w >= CtxX -> Zero
                       [] OTHER -> ctx[me][w]] \in [Words -> Word]
        BY <3>1, <3>2
      <4> QED
        BY <3>1, <3>4, <4>1
    <3> QED
      BY <1>7, <3>3, <3>4 DEF msg_exec
  <2>3. last' \in Result
    BY <1>4, <1>7, <2>1 DEF msg_exec
  <2>4. TableType'
    BY <1>1, <2>1, <2>2, <2>3 DEF TableType, tableVars
  <2> QED
    BY <1>3, <2>1, <2>4, SplitType
<1>8. CASE msg_wait
  <2>1. cpu = "run" /\ UNCHANGED queueVars /\ UNCHANGED <<exit_status, left, tableVars>>
    BY <1>8 DEF msg_wait, Running
  <2>2. ASSUME WaitFinds("wait"), UNCHANGED <<state, ctx, current_process, at, cpu>>
        PROVE  TableType'
    <3>1. PICK k \in DOMAIN process_list : Returns("wait", exit_status[process_list[k]])
      BY <2>2 DEF WaitFinds
    <3>2. exit_status[process_list[k]] \in Int
      BY <1>1 DEF TableType
    <3>3. last' \in Result
      BY <1>4, <2>1, <3>1, <3>2
    <3> QED
      BY <1>1, <2>1, <2>2, <3>3 DEF TableType, tableVars
  <2>3. ASSUME at' = [at EXCEPT ![me] = "wait"],
               schedule([state EXCEPT ![me] = "BLOCKED"], me), UNCHANGED last
        PROVE  TableType'
    <3> DEFINE st == [state EXCEPT ![me] = "BLOCKED"]
    <3>1. st \in [Proc -> States] /\ \A p \in Proc : st[p] = "RUNNING" => p = me
      BY <1>1, <1>2, <2>1 DEF TableType, States
    <3> HIDE DEF st
    <3>2. /\ state' \in [Proc -> States]
          /\ ctx' \in [Proc -> [Words -> Word]]
          /\ current_process' \in Proc \cup {NULL}
          /\ cpu' \in {"run", "hang", "wild"}
      BY <1>2, <2>1, <2>3, <3>1, ScheduleType DEF st
    <3> QED
      BY <1>1, <1>2, <2>1, <2>3, <3>2 DEF TableType, tableVars
  <2>4. TableType'
    BY <1>8, <2>2, <2>3 DEF msg_wait
  <2> QED
    BY <1>3, <2>1, <2>4, SplitType
<1>9. CASE msg_wait_resumed
  <2>1. cpu = "run" /\ UNCHANGED queueVars /\ at' = [at EXCEPT ![me] = "run"]
        /\ UNCHANGED <<state, exit_status, ctx, current_process, cpu, left, tableVars>>
    BY <1>9 DEF msg_wait_resumed, Running
  <2>2. \E c \in {"waited", "wait_failed"}, v \in Int : Returns(c, v)
    <3>1. CASE WaitFinds("waited")
      <4>1. PICK k \in DOMAIN process_list : Returns("waited", exit_status[process_list[k]])
        BY <3>1 DEF WaitFinds
      <4>2. exit_status[process_list[k]] \in Int
        BY <1>1 DEF TableType
      <4> QED
        BY <4>1, <4>2
    <3>2. CASE Returns("wait_failed", -1)
      BY <3>2
    <3> QED
      BY <1>9, <3>1, <3>2 DEF msg_wait_resumed
  <2>3. last' \in Result
    BY <1>4, <2>1, <2>2
  <2>4. TableType'
    BY <1>1, <1>2, <2>1, <2>3 DEF TableType, tableVars
  <2> QED
    BY <1>3, <2>1, <2>4, SplitType
<1>10. ASSUME NEW s \in Status, exit_process(s) PROVE TypeOK'
  <2> DEFINE st == Woken
  <2>1. cpu = "run" /\ UNCHANGED queueVars /\ UNCHANGED <<at, last, left, tableVars>>
        /\ exit_status' = [exit_status EXCEPT ![me] = s] /\ schedule(st, me)
    BY <1>10 DEF exit_process, Running, Woken
  <2>2. /\ st \in [Proc -> States] /\ st[me] = "ZOMBIE"
        /\ \A p \in Proc \ {me} : st[p] = state[p] \/ (state[p] = "BLOCKED" /\ st[p] = "READY")
    BY <2>1, WakeStates
  <2> HIDE DEF st
  <2>3. \A p \in Proc : st[p] = "RUNNING" => p = me
    BY <1>2, <2>1, <2>2
  <2>4. /\ state' \in [Proc -> States]
        /\ ctx' \in [Proc -> [Words -> Word]]
        /\ current_process' \in Proc \cup {NULL}
        /\ cpu' \in {"run", "hang", "wild"}
    BY <1>2, <2>1, <2>2, <2>3, ScheduleType
  <2>5. exit_status' \in [Proc -> Int]
    BY <1>1, <1>2, <2>1 DEF TableType
  <2>6. TableType'
    BY <1>1, <2>1, <2>4, <2>5 DEF TableType, tableVars
  <2> QED
    BY <1>3, <2>1, <2>6, SplitType
<1>11. ASSUME NEW s \in Status, process_exit(s) PROVE TypeOK'
  <2> DEFINE st == [state EXCEPT ![me] = "ZOMBIE"]
  <2>1. cpu = "run" /\ UNCHANGED queueVars /\ UNCHANGED <<at, last, tableVars>>
        /\ exit_status' = [exit_status EXCEPT ![me] = s] /\ schedule(st, NULL)
        /\ left' = left \cup {me}
    BY <1>11 DEF process_exit, Running
  <2>2. st \in [Proc -> States] /\ \A p \in Proc : st[p] = "RUNNING" => p = NULL
    BY <1>1, <1>2, <2>1 DEF TableType, States
  <2> HIDE DEF st
  <2>3. /\ state' \in [Proc -> States]
        /\ ctx' \in [Proc -> [Words -> Word]]
        /\ current_process' \in Proc \cup {NULL}
        /\ cpu' \in {"run", "hang", "wild"}
    BY <2>1, <2>2, ScheduleType
  <2>4. exit_status' \in [Proc -> Int] /\ left' \subseteq Proc
    BY <1>1, <1>2, <2>1 DEF TableType
  <2>5. TableType'
    BY <1>1, <2>1, <2>3, <2>4 DEF TableType, tableVars
  <2> QED
    BY <1>3, <2>1, <2>5, SplitType
<1>12. ASSUME NEW p \in Proc, NEW m \in Message, queue_message(p, m) PROVE TypeOK'
  <2>1. TableType'
    BY <1>1, <1>12 DEF TableType, queue_message, tableVars
  <2>2. MQ!TypeOK'
    BY <1>1, <1>12, QueueType DEF queue_message
  <2> QED
    BY <2>1, <2>2, SplitType
<1>13. ASSUME NEW nonblock \in BOOLEAN, receive_message(nonblock) PROVE TypeOK'
  <2>1. cpu = "run" /\ UNCHANGED <<exit_status, last, left, tableVars>>
    BY <1>13 DEF receive_message, Running
  <2>2. MQ!TypeOK'
    BY <1>1, <1>2, <1>13, <2>1, QueueType DEF receive_message
  <2>3. ASSUME UNCHANGED <<state, ctx, current_process, at, cpu>> PROVE TableType'
    BY <1>1, <2>1, <2>3 DEF TableType, tableVars
  <2>4. ASSUME at' = [at EXCEPT ![me] = "recv"], schedule(state, me) PROVE TableType'
    <3>1. state \in [Proc -> States]
      BY <1>1 DEF TableType
    <3>2. /\ state' \in [Proc -> States]
          /\ ctx' \in [Proc -> [Words -> Word]]
          /\ current_process' \in Proc \cup {NULL}
          /\ cpu' \in {"run", "hang", "wild"}
      BY <1>2, <2>1, <2>4, <3>1, ScheduleType
    <3> QED
      BY <1>1, <1>2, <2>1, <2>4, <3>2 DEF TableType, tableVars
  <2>5. TableType'
    BY <1>13, <2>3, <2>4 DEF receive_message
  <2> QED
    BY <2>2, <2>5, SplitType
<1>14. CASE receive_resumed
  <2>1. cpu = "run" /\ UNCHANGED queueVars /\ at' = [at EXCEPT ![me] = "run"]
        /\ UNCHANGED <<state, exit_status, ctx, current_process, cpu, left, tableVars>>
        /\ Returns("recv", -1)
    BY <1>14 DEF receive_resumed, Running
  <2>2. last' \in Result
    BY <1>4, <2>1
  <2>3. TableType'
    BY <1>1, <1>2, <2>1, <2>2 DEF TableType, tableVars
  <2> QED
    BY <1>3, <2>1, <2>3, SplitType
<1> QED
  BY <1>5, <1>6, <1>7, <1>8, <1>9, <1>10, <1>11, <1>12, <1>13, <1>14 DEF Next

-----------------------------------------------------------------------------
(* The theorems.                                                           *)

\* Every step keeps the table in order.
LEMMA NextCore ==
  ASSUME TypeOK, Core, Next
  PROVE  Core'
<1>1. CASE process_create
  BY <1>1, CreateCore
<1>2. CASE msg_fork
  BY <1>2, ForkCore
<1>3. ASSUME NEW hasPath \in BOOLEAN, msg_exec(hasPath) PROVE Core'
  BY <1>3, QuietCore DEF msg_exec
<1>4. CASE msg_wait
  BY <1>4, WaitCore
<1>5. CASE msg_wait_resumed \/ receive_resumed
  <2>1. /\ UNCHANGED <<state, current_process, cpu, left, tableVars>>
        /\ at' = [at EXCEPT ![me] = "run"]
    BY <1>5 DEF msg_wait_resumed, receive_resumed
  <2>2. \A p \in Proc : at'[p] \in {at[p], "run"}
    BY <2>1 DEF TypeOK
  <2> QED
    BY <2>1, <2>2, QuietCore
<1>6. ASSUME NEW s \in Status, exit_process(s) PROVE Core'
  BY <1>6, ExitCore
<1>7. ASSUME NEW s \in Status, process_exit(s) PROVE Core'
  BY <1>7, ProcessExitCore
<1>8. ASSUME NEW p \in Proc, NEW m \in Message, queue_message(p, m) PROVE Core'
  BY <1>8, QuietCore DEF queue_message
<1>9. ASSUME NEW nonblock \in BOOLEAN, receive_message(nonblock) PROVE Core'
  BY <1>9, ReceiveCore
<1> QED
  BY <1>1, <1>2, <1>3, <1>4, <1>5, <1>6, <1>7, <1>8, <1>9 DEF Next

\* MSG_WAIT never fails after it has blocked: the caller is not BLOCKED any more,
\* so that WaitersServed gives it a child.
LEMMA NextWait ==
  ASSUME IInv, Next
  PROVE  WaitFindsChild'
<1>1. CASE msg_wait_resumed
  <2>1. cpu = "run" /\ at[me] = "wait"
    BY <1>1 DEF msg_wait_resumed, Running
  <2>2. me \in Listed /\ Listed \subseteq Proc /\ state[me] # "BLOCKED"
    BY <2>1, RunningFacts DEF IInv
  <2>3. PICK c \in Listed : state[c] = "ZOMBIE" /\ parent_pid[c] = pid[me]
    BY <2>1, <2>2 DEF IInv, Core, WaitersServed
  <2>4. ~NoZombieChild
    BY <2>2, <2>3 DEF NoZombieChild, ZombieChildren, Listed
  <2>5. \E v : Returns("waited", v)
    BY <1>1, <2>4 DEF msg_wait_resumed, WaitFinds
  <2> QED
    BY <2>5 DEF Returns, WaitFindsChild
<1>2. CASE ~msg_wait_resumed
  <2>1. last' = last \/ \E c \in {"fork", "exec", "wait", "recv"}, v \in Int \cup Range(exit_status) :
          Returns(c, v)
    <3>1. CASE msg_wait
      <4>1. CASE WaitFinds("wait")
        <5>1. PICK k \in DOMAIN process_list : Returns("wait", exit_status[process_list[k]])
          BY <4>1 DEF WaitFinds
        <5>2. exit_status[process_list[k]] \in Int
          BY DEF IInv, TypeOK
        <5> QED
          BY <5>1, <5>2
      <4> QED
        BY <3>1, <4>1 DEF msg_wait
    <3> QED
      BY <1>2, <3>1 DEF Next, process_create, msg_fork, msg_exec, exit_process, process_exit,
                        queue_message, receive_message, receive_resumed
  <2> QED
    BY <2>1 DEF IInv, WaitFindsChild, Returns
<1> QED
  BY <1>1, <1>2

\* The table is in order before the shell is created.
LEMMA InitIInv == Init => IInv
<1> SUFFICES ASSUME Init PROVE IInv
  OBVIOUS
<1> USE ProcFacts, ProcessAssumption
<1>1. MQ!TypeOK
  BY DEF Init, MQ!Init, MQ!TypeOK, MQ!Slots
<1>2. TableType
  <2>1. last \in Result
    BY DEF Init, Result
  <2>2. ctx \in [Proc -> [Words -> Word]]
    BY DEF Init, Word, WordKinds, Zero
  <2>3. process_list = <<>> /\ process_list \in Seq(Proc)
    BY DEF Init
  <2> QED
    BY <2>1, <2>2, <2>3 DEF Init, TableType, States
<1>3. Listed = {} /\ Range(process_list) = {}
  BY DEF Init, Listed, Range
<1>4. ListOK
  BY <1>3 DEF Init, ListOK
<1>5. Untouched /\ RunningIsCurrent /\ NoLostWakeup /\ WaitersServed /\ WaitFindsChild
  BY <1>3 DEF Init, Untouched, RunningIsCurrent, NoLostWakeup, WaitersServed, WaitFindsChild
<1> QED
  BY <1>1, <1>2, <1>4, <1>5, SplitType DEF IInv, Core

\* Every step, and every stuttering step, preserves the invariant.
LEMMA NextIInv == IInv /\ [Next]_vars => IInv'
<1> SUFFICES ASSUME IInv, [Next]_vars PROVE IInv'
  OBVIOUS
<1>1. CASE Next
  BY <1>1, NextType, NextCore, NextWait DEF IInv
<1>2. CASE UNCHANGED vars
  <2>1. UNCHANGED <<state, current_process, cpu, left, tableVars, at, last, exit_status, ctx>>
        /\ UNCHANGED queueVars
    BY <1>2 DEF vars
  <2>2. Core'
    BY <2>1, QuietCore DEF IInv
  <2>3. MQ!TypeOK' /\ TableType'
    BY <2>1, SplitType DEF IInv, TableType, tableVars, queueVars, MQ!TypeOK, MQ!Slots
  <2> QED
    BY <2>1, <2>2, <2>3, SplitType DEF IInv, WaitFindsChild
<1> QED
  BY <1>1, <1>2

\* The invariant holds for ever.
LEMMA AlwaysIInv == Spec => []IInv
  BY InitIInv, NextIInv, PTL DEF Spec

\* The process list holds the created processes in the order of their pids, and only
\* the current process is RUNNING, for every size of processes[] and every
\* layout of the contexts.
THEOREM TableIsConsistent == Spec => [](TypeOK /\ ListOK /\ RunningIsCurrent)
<1>1. IInv => TypeOK /\ ListOK /\ RunningIsCurrent
  BY DEF IInv, Core
<1> QED
  BY <1>1, AlwaysIInv, PTL

\* Every field of a process, the list and the queues keep their types for every size
\* of processes[], no process becomes PROC_DEAD, and process_count leaves the table
\* only in the fork that goes beyond its last slot (process.c:181).
THEOREM ProcessTypes == Spec => []TypeOK
  BY TableIsConsistent, PTL

\* schedule(), wait_process, exit_process and receive_message never leave a process
\* RUNNING that is not the current one.
THEOREM OnlyCurrentRuns == Spec => []RunningIsCurrent
  BY TableIsConsistent, PTL

\* A wait that blocked finds its child, and exit_process loses no wake-up.
THEOREM WaitsEndWell == Spec => [](WaitFindsChild /\ NoLostWakeup)
<1>1. IInv => WaitFindsChild /\ NoLostWakeup
  BY DEF IInv, Core
<1> QED
  BY <1>1, AlwaysIInv, PTL

\* wait_process, resumed after it blocked, never answers that the child is unknown.
THEOREM WaitsFindTheirChild == Spec => []WaitFindsChild
  BY WaitsEndWell, PTL

\* A ZOMBIE stays one: neither schedule(), nor the wake-up in exit_process, nor
\* a fork brings it back.
THEOREM ZombiesStay == Spec => ZombieForEver
<1>1. ASSUME IInv, Next, NEW p \in Proc, state[p] = "ZOMBIE" PROVE state'[p] = "ZOMBIE"
  <2> USE ProcFacts
  <2>1. TypeOK /\ Core /\ state \in [Proc -> States]
    <3>1. TypeOK /\ Core
      BY <1>1 DEF IInv
    <3> QED
      BY <3>1 DEF TypeOK
  <2>2. p \in Listed
    BY <1>1, <2>1 DEF Core, Untouched
  <2>3. CASE process_create
    <3>1. process_list = <<>>
      BY <2>1, <2>3 DEF process_create, Core, Untouched
    <3> QED
      BY <2>2, <3>1 DEF Listed, Range
  <2>4. CASE cpu = "run"
    <3>1. /\ me \in Proc /\ p # me /\ \A q \in Proc : state[q] = "RUNNING" => q = me
          /\ Listed = {USER} \cup 0 .. process_count - 1
      BY <1>1, <2>1, <2>4, RunningFacts
    <3>2. CASE state' = state
      BY <1>1, <3>2
    <3>3. CASE msg_fork
      <4>1. p # process_count
        BY <2>1, <2>2, <2>4, <3>1, NextSlot
      <4> QED
        BY <1>1, <2>1, <3>3, <4>1 DEF msg_fork
    <3>4. ASSUME NEW st \in [Proc -> States], NEW cur \in {me, NULL}, st[p] = "ZOMBIE",
                 \A q \in Proc : st[q] = "RUNNING" => q = cur, schedule(st, cur)
          PROVE  state'[p] = "ZOMBIE"
      BY <2>1, <3>1, <3>4, ScheduleStates
    <3>5. CASE msg_wait /\ state' # state
      <4> DEFINE st == [state EXCEPT ![me] = "BLOCKED"]
      <4>1. st \in [Proc -> States] /\ st[p] = "ZOMBIE" /\ \A q \in Proc : st[q] = "RUNNING" => q = me
        BY <1>1, <2>1, <3>1 DEF States
      <4>2. schedule(st, me)
        BY <3>5 DEF msg_wait
      <4> HIDE DEF st
      <4> QED
        BY <3>4, <4>1, <4>2
    <3>6. ASSUME NEW s \in Status, exit_process(s) PROVE state'[p] = "ZOMBIE"
      <4> DEFINE st == Woken
      <4>1. /\ st \in [Proc -> States] /\ st[me] = "ZOMBIE" /\ st[p] = "ZOMBIE"
            /\ \A q \in Proc \ {me} : st[q] = state[q] \/ (state[q] = "BLOCKED" /\ st[q] = "READY")
        <5>1. \A q \in Proc : state[q] = "ZOMBIE" => st[q] = "ZOMBIE"
          BY <2>1, <2>4, WakeStates
        <5> QED
          BY <1>1, <2>1, <2>4, <5>1, WakeStates
      <4>2. schedule(st, me)
        BY <3>6 DEF exit_process, Woken
      <4> HIDE DEF st
      <4>3. \A q \in Proc : st[q] = "RUNNING" => q = me
        BY <3>1, <4>1
      <4> QED
        BY <3>4, <4>1, <4>2, <4>3
    <3>7. ASSUME NEW s \in Status, process_exit(s) PROVE state'[p] = "ZOMBIE"
      <4> DEFINE st == [state EXCEPT ![me] = "ZOMBIE"]
      <4>1. st \in [Proc -> States] /\ st[p] = "ZOMBIE" /\ \A q \in Proc : st[q] = "RUNNING" => q = NULL
        BY <1>1, <2>1, <3>1 DEF States
      <4>2. schedule(st, NULL)
        BY <3>7 DEF process_exit
      <4> HIDE DEF st
      <4> QED
        BY <3>4, <4>1, <4>2
    <3>8. ASSUME NEW nonblock \in BOOLEAN, receive_message(nonblock), state' # state
          PROVE  state'[p] = "ZOMBIE"
      <4>1. schedule(state, me)
        BY <3>8 DEF receive_message
      <4> QED
        BY <1>1, <2>1, <3>1, <3>4, <4>1
    <3> QED
      BY <1>1, <2>3, <3>2, <3>3, <3>5, <3>6, <3>7, <3>8
      DEF Next, msg_exec, msg_wait_resumed, queue_message, receive_resumed
  <2>5. process_create \/ cpu = "run"
    BY <1>1, NextRuns
  <2> QED
    BY <2>3, <2>4, <2>5
<1>2. IInv /\ [Next]_vars => [\A p \in Proc : state[p] = "ZOMBIE" => state'[p] = "ZOMBIE"]_state
  BY <1>1 DEF vars
<1> QED
  BY <1>2, AlwaysIInv, PTL DEF Spec, ZombieForEver

-----------------------------------------------------------------------------
(* Contexts.                                                               *)

\* What schedule() does to the contexts: with none READY it changes none, else it
\* stores that of cur, when there is one.
LEMMA ScheduleContexts ==
  ASSUME TypeOK, NEW st, NEW cur \in Proc \cup {NULL}, schedule(st, cur)
  PROVE  \/ ctx' = ctx /\ current_process' = cur /\ cpu' = "hang"
         \/ /\ \A p \in Proc : ctx'[p] = IF p = cur THEN Saved(p) ELSE ctx[p]
            /\ current_process' \in Proc
            /\ cpu' = IF Resumable(ctx'[current_process'], current_process') THEN "run" ELSE "wild"
<1> USE ProcFacts
<1>1. ctx \in [Proc -> [Words -> Word]] /\ process_list \in Seq(Proc)
  BY DEF TypeOK
<1>2. ASSUME NEW k \in DOMAIN process_list, NEW c,
             c = IF cur = NULL THEN ctx ELSE [ctx EXCEPT ![cur] = Saved(cur)],
             current_process' = process_list[k], ctx' = c,
             cpu' = IF Resumable(c[process_list[k]], process_list[k]) THEN "run" ELSE "wild"
      PROVE  /\ \A p \in Proc : ctx'[p] = IF p = cur THEN Saved(p) ELSE ctx[p]
             /\ current_process' \in Proc
             /\ cpu' = IF Resumable(ctx'[current_process'], current_process') THEN "run" ELSE "wild"
  <2>1. process_list[k] \in Proc
    BY <1>1, <1>2
  <2>2. \A p \in Proc : ctx'[p] = IF p = cur THEN Saved(p) ELSE ctx[p]
    BY <1>1, <1>2
  <2> QED
    BY <1>2, <2>1, <2>2
<1> QED
  BY <1>2 DEF schedule

\* schedule() leaves every process that gave up the processor with its context, when
\* the caller is stored or is not to go on.
LEMMA ScheduleSuspended ==
  ASSUME TypeOK, SuspendedKeepContext, me \in Proc, NEW st, NEW cur \in {me, NULL},
         schedule(st, cur), \A p \in Proc \ {me} : at'[p] = at[p],
         cur = NULL => at'[me] = "run"
  PROVE  SuspendedKeepContext'
<1> SUFFICES ASSUME NEW p \in Proc, at'[p] # "run", p # current_process'
             PROVE  LeadsBack(ctx'[p], p)
  BY DEF SuspendedKeepContext, LeadsBack
<1>1. CASE p = me
  <2>1. cur = p
    BY <1>1
  <2>2. ctx'[p] = Saved(p)
    BY <2>1, ScheduleContexts
  <2> QED
    BY <2>2, ProcessAssumption DEF LeadsBack, Saved, Words
<1>2. CASE p # me
  <2>1. p # cur
    BY <1>2, ProcFacts
  <2>2. ctx'[p] = ctx[p]
    BY <2>1, ScheduleContexts, ProcFacts
  <2> QED
    BY <1>2, <2>2 DEF SuspendedKeepContext, me
<1> QED
  BY <1>1, <1>2

\* Every step leaves the processes that gave up the processor with their contexts.
LEMMA NextSuspended ==
  ASSUME TypeOK, Core, SuspendedKeepContext, Next
  PROVE  SuspendedKeepContext'
<1> USE ProcFacts
<1>1. at \in [Proc -> {"run", "wait", "recv"}] /\ ctx \in [Proc -> [Words -> Word]]
  BY DEF TypeOK
<1>2. CASE process_create
  <2>1. Listed = {}
    BY <1>2 DEF process_create, Core, Untouched, Listed, Range
  <2> QED
    BY <1>2, <2>1 DEF process_create, Core, Untouched, SuspendedKeepContext
<1>3. CASE msg_fork
  <2>1. cpu = "run"
    BY <1>3 DEF msg_fork, Running
  <2>2. process_count \in Proc /\ process_count \notin Listed
    <3>1. process_count \in 0 .. MAX_PROCESSES /\ process_count \in Proc /\ process_count # USER
      BY <2>1, NextSlot
    <3>2. Listed = {USER} \cup 0 .. process_count - 1
      BY <2>1, RunningFacts
    <3> QED
      BY <3>1, <3>2
  <2>3. at[process_count] = "run"
    BY <2>2 DEF Core, Untouched
  <2>4. UNCHANGED <<at, current_process>> /\ \A p \in Proc \ {process_count} : ctx'[p] = ctx[p]
    BY <1>1, <1>3 DEF msg_fork
  <2> QED
    BY <2>3, <2>4 DEF SuspendedKeepContext, LeadsBack
<1>4. ASSUME cpu = "run", UNCHANGED current_process,
             \A p \in Proc \ {me} : at'[p] = at[p] /\ ctx'[p] = ctx[p]
      PROVE  SuspendedKeepContext'
  BY <1>4 DEF SuspendedKeepContext, LeadsBack, me
<1>5. CASE cpu = "run" /\ ~msg_fork
  <2>1. me \in Proc
    BY <1>5, RunningFacts
  <2>2. ASSUME NEW hasPath \in BOOLEAN, msg_exec(hasPath) PROVE SuspendedKeepContext'
    <3>1. UNCHANGED <<current_process, at>> /\ \A p \in Proc \ {me} : ctx'[p] = ctx[p]
      BY <1>1, <2>2 DEF msg_exec
    <3> QED
      BY <1>4, <1>5, <3>1
  <2>3. CASE msg_wait
    <3>1. CASE UNCHANGED <<state, ctx, current_process, at, cpu>>
      BY <1>4, <1>5, <3>1
    <3>2. CASE /\ at' = [at EXCEPT ![me] = "wait"]
               /\ schedule([state EXCEPT ![me] = "BLOCKED"], me)
      <4>1. \A p \in Proc \ {me} : at'[p] = at[p]
        BY <1>1, <3>2
      <4> QED
        BY <2>1, <3>2, <4>1, ScheduleSuspended
    <3> QED
      BY <2>3, <3>1, <3>2 DEF msg_wait
  <2>4. CASE msg_wait_resumed \/ receive_resumed
    <3>1. UNCHANGED <<current_process, ctx>> /\ \A p \in Proc \ {me} : at'[p] = at[p]
      BY <1>1, <2>4 DEF msg_wait_resumed, receive_resumed
    <3> QED
      BY <1>4, <1>5, <3>1
  <2>5. ASSUME NEW s \in Status, exit_process(s) PROVE SuspendedKeepContext'
    <3>1. at' = at /\ schedule(WakeParent([state EXCEPT ![me] = "ZOMBIE"]), me)
      BY <2>5 DEF exit_process
    <3> QED
      BY <2>1, <3>1, ScheduleSuspended
  <2>6. ASSUME NEW s \in Status, process_exit(s) PROVE SuspendedKeepContext'
    <3>1. at' = at /\ at[me] = "run" /\ schedule([state EXCEPT ![me] = "ZOMBIE"], NULL)
      BY <2>6 DEF process_exit, Running
    <3> QED
      BY <2>1, <3>1, ScheduleSuspended
  <2>7. ASSUME NEW p \in Proc, NEW m \in Message, queue_message(p, m) PROVE SuspendedKeepContext'
    <3>1. UNCHANGED <<current_process, ctx, at>>
      BY <2>7 DEF queue_message
    <3> QED
      BY <1>4, <1>5, <3>1
  <2>8. ASSUME NEW nonblock \in BOOLEAN, receive_message(nonblock) PROVE SuspendedKeepContext'
    <3>1. CASE UNCHANGED <<state, ctx, current_process, at, cpu>>
      BY <1>4, <1>5, <3>1
    <3>2. CASE at' = [at EXCEPT ![me] = "recv"] /\ schedule(state, me)
      <4>1. \A p \in Proc \ {me} : at'[p] = at[p]
        BY <1>1, <3>2
      <4> QED
        BY <2>1, <3>2, <4>1, ScheduleSuspended
    <3> QED
      BY <2>8, <3>1, <3>2 DEF receive_message
  <2>9. process_create => cpu # "run"
    BY DEF process_create
  <2> QED
    BY <1>5, <2>2, <2>3, <2>4, <2>5, <2>6, <2>7, <2>8, <2>9 DEF Next
<1>6. process_create \/ cpu = "run"
  BY NextRuns
<1> QED
  BY <1>2, <1>3, <1>5, <1>6

\* A process that gave up the processor in MSG_WAIT or receive_message keeps the
\* context context_switch saved for it until it is picked, whichever words the
\* routine uses: no fork, exec or exit of another process touches it.
THEOREM SuspendedGoOn == Spec => []SuspendedKeepContext
<1>1. Init => SuspendedKeepContext
  BY DEF Init, SuspendedKeepContext
<1>2. IInv /\ SuspendedKeepContext /\ [Next]_vars => SuspendedKeepContext'
  <2> SUFFICES ASSUME IInv, SuspendedKeepContext, [Next]_vars PROVE SuspendedKeepContext'
    OBVIOUS
  <2>1. CASE Next
    BY <2>1, NextSuspended DEF IInv
  <2>2. CASE UNCHANGED vars
    BY <2>2 DEF vars, SuspendedKeepContext, LeadsBack
  <2> QED
    BY <2>1, <2>2
<1> QED
  BY <1>1, <1>2, AlwaysIInv, PTL DEF Spec

\* The shell that kernel_main starts is the only process that ever runs.
OnlyShellRuns == cpu = "run" => current_process = USER

\* No context holds an address to go on at but the one of the shell's last call of
\* schedule().
NowhereToGo ==
  cpu \in {"boot", "run"} =>
    /\ OnlyShellRuns
    /\ \A p \in Proc : ctx[p][LR_WORD] \in {Zero, <<"ret", USER>>}

\* A switch to another process than the shell goes wild.
LEMMA ScheduleNowhere ==
  ASSUME TypeOK, NowhereToGo, cpu = "run", NEW st, NEW cur \in {me, NULL}, schedule(st, cur)
  PROVE  NowhereToGo'
<1> USE ProcFacts
<1>1. me = USER /\ \A p \in Proc : ctx[p][LR_WORD] \in {Zero, <<"ret", USER>>}
  BY DEF NowhereToGo, OnlyShellRuns, me
<1> SUFFICES ASSUME cpu' \in {"boot", "run"} PROVE NowhereToGo'
  BY DEF NowhereToGo
<1>2. /\ \A p \in Proc : ctx'[p] = IF p = cur THEN Saved(p) ELSE ctx[p]
      /\ current_process' \in Proc
      /\ Resumable(ctx'[current_process'], current_process')
  BY <1>1, ScheduleContexts
<1>3. Saved(USER)[LR_WORD] = <<"ret", USER>>
  BY ProcessAssumption DEF Saved, Words
<1>4. \A p \in Proc : ctx'[p][LR_WORD] \in {Zero, <<"ret", USER>>}
  BY <1>1, <1>2, <1>3
<1>5. current_process' = USER
  <2> DEFINE next == current_process'
  <2>1. ctx'[next][LR_WORD] \in {<<"ret", next>>, <<"process3", next>>}
    BY <1>2 DEF Resumable, LeadsBack
  <2>2. ctx'[next][LR_WORD] \in {Zero, <<"ret", USER>>}
    BY <1>2, <1>4
  <2> HIDE DEF next
  <2>3. next = USER
    BY <2>1, <2>2 DEF Zero
  <2> QED
    BY <2>3 DEF next
<1> QED
  BY <1>4, <1>5 DEF NowhereToGo, OnlyShellRuns

\* With the address for context_switch in one of the words of x[], neither fork nor
\* exec nor process_create stores one there.
LEMMA NextNowhere ==
  ASSUME LR_WORD >= CtxX, TypeOK, NowhereToGo, Next
  PROVE  NowhereToGo'
<1> USE ProcFacts
<1>1. /\ ctx \in [Proc -> [Words -> Word]] /\ LR_WORD \in Words
      /\ LR_WORD # CtxPC /\ LR_WORD # CtxSP /\ LR_WORD # CtxLR
  <2>1. ctx \in [Proc -> [Words -> Word]]
    BY DEF TypeOK
  <2>2. LR_WORD \in Words
    BY DEF Words
  <2>3. LR_WORD # CtxPC /\ LR_WORD # CtxSP /\ LR_WORD # CtxLR
    BY ProcessAssumption DEF CtxPC, CtxSP, CtxLR, CtxX
  <2> QED
    BY <2>1, <2>2, <2>3
<1>2. CASE process_create
  <2>1. current_process' = USER /\ \A p \in Proc : ctx'[p][LR_WORD] = ctx[p][LR_WORD]
    BY <1>1, <1>2 DEF process_create
  <2> QED
    BY <1>2, <2>1 DEF process_create, NowhereToGo, OnlyShellRuns
<1>3. CASE cpu = "run"
  <2>1. me = USER /\ \A p \in Proc : ctx[p][LR_WORD] \in {Zero, <<"ret", USER>>}
    BY <1>3 DEF NowhereToGo, OnlyShellRuns, me
  <2>2. ASSUME UNCHANGED <<ctx, current_process>> PROVE NowhereToGo'
    BY <2>1, <2>2 DEF NowhereToGo, OnlyShellRuns, me
  <2>3. CASE msg_fork
    <3>1. process_count \in Proc
      BY <1>3, NextSlot
    <3>2. ForkContext(process_count)[LR_WORD] = ctx[me][LR_WORD]
      BY <1>1, <2>1 DEF ForkContext
    <3>3. UNCHANGED current_process /\ ctx' = [ctx EXCEPT ![process_count] = ForkContext(process_count)]
      BY <2>3 DEF msg_fork
    <3>4. \A p \in Proc : ctx'[p][LR_WORD] \in {Zero, <<"ret", USER>>}
      BY <1>1, <2>1, <3>1, <3>2, <3>3
    <3> QED
      BY <2>1, <3>3, <3>4 DEF NowhereToGo, OnlyShellRuns, me
  <2>4. ASSUME NEW hasPath \in BOOLEAN, msg_exec(hasPath) PROVE NowhereToGo'
    <3>1. CASE ~hasPath
      BY <2>2, <2>4, <3>1 DEF msg_exec
    <3>2. CASE hasPath
      <4> DEFINE c == [w \in Words |-> CASE w = CtxPC -> <<"entry", me>>
                                         [] w = CtxSP -> <<"exec", me>>
                                         [] w >= CtxX -> Zero
                                         [] OTHER -> ctx[me][w]]
      <4>1. UNCHANGED current_process /\ ctx' = [ctx EXCEPT ![me] = c]
        BY <2>4, <3>2 DEF msg_exec
      <4>2. c[LR_WORD] = Zero
        BY <1>1
      <4> HIDE DEF c
      <4>3. \A p \in Proc : ctx'[p][LR_WORD] \in {Zero, <<"ret", USER>>}
        BY <1>1, <2>1, <4>1, <4>2
      <4> QED
        BY <2>1, <4>1, <4>3 DEF NowhereToGo, OnlyShellRuns, me
    <3> QED
      BY <3>1, <3>2
  <2>5. ASSUME NEW st, NEW cur \in {me, NULL}, schedule(st, cur) PROVE NowhereToGo'
    BY <1>3, <2>5, ScheduleNowhere
  <2>6. CASE msg_wait
    BY <2>2, <2>5, <2>6 DEF msg_wait
  <2>7. ASSUME NEW s \in Status, exit_process(s) \/ process_exit(s) PROVE NowhereToGo'
    BY <2>5, <2>7 DEF exit_process, process_exit
  <2>8. ASSUME NEW nonblock \in BOOLEAN, receive_message(nonblock) PROVE NowhereToGo'
    BY <2>2, <2>5, <2>8 DEF receive_message
  <2>9. CASE msg_wait_resumed \/ receive_resumed \/ \E p \in Proc, m \in Message : queue_message(p, m)
    BY <2>2, <2>9 DEF msg_wait_resumed, receive_resumed, queue_message
  <2> QED
    BY <1>2, <2>3, <2>4, <2>6, <2>7, <2>8, <2>9 DEF Next
<1>4. process_create \/ cpu = "run"
  BY NextRuns
<1> QED
  BY <1>2, <1>3, <1>4

\* With the words context_switch.S has (x30 from word 11, which is one of x[] for
\* create_process), a forked process never gets to run: nothing but the shell is
\* ever switched to soundly, so that the first switch to a child ends the program.
THEOREM ForkedNeverRun == ASSUME LR_WORD >= CtxX PROVE Spec => []OnlyShellRuns
<1>1. Init => NowhereToGo
  <2> SUFFICES ASSUME Init PROVE NowhereToGo
    OBVIOUS
  <2>1. \A p \in Proc : ctx[p][LR_WORD] = Zero
    BY DEF Init, Words
  <2> QED
    BY <2>1 DEF Init, NowhereToGo, OnlyShellRuns
<1>2. IInv /\ NowhereToGo /\ [Next]_vars => NowhereToGo'
  <2> SUFFICES ASSUME IInv, NowhereToGo, [Next]_vars PROVE NowhereToGo'
    OBVIOUS
  <2>1. CASE Next
    BY <2>1, NextNowhere DEF IInv
  <2>2. CASE UNCHANGED vars
    BY <2>2 DEF vars, NowhereToGo, OnlyShellRuns
  <2> QED
    BY <2>1, <2>2
<1>3. NowhereToGo => OnlyShellRuns
  BY DEF NowhereToGo, OnlyShellRuns
<1> QED
  BY <1>1, <1>2, <1>3, AlwaysIInv, PTL DEF Spec
=============================================================================
