------------------------------- MODULE Shell -------------------------------
(***************************************************************************)
(* The user shell (user_shell.S) and the system call path under it         *)
(* (exceptions.S, exceptions.c): a line is typed, taken apart in place,    *)
(* turned into a message on the stack and handed to the kernel, whose      *)
(* result comes back in x0 or stops the system.                            *)
(*                                                                         *)
(* A command name is one character of the line, as are a space and a       *)
(* letter.  x3 is the length of the line, sp the number of bytes the shell *)
(* has taken from its stack, x9 the path register of ls.  What the file    *)
(* systems answer is a choice: 0 or -1, and a number of entries for        *)
(* MSG_READ_DIR.  SYS_PUTC always returns 0, so that what is printed is    *)
(* one step, of which "said" keeps the kind.  The variables said, typed,   *)
(* res and entry_count only record what the properties are about; a key    *)
(* starts a new record.                                                    *)
(***************************************************************************)
EXTENDS Integers, FiniteSets, Sequences

CONSTANTS
  BUF_MAX,      \* characters the line buffer takes, 63
  HALF,         \* 2^32: a register is two halves
  MAX_DIRENTS,  \* entries handle_read_dir_message asks for, 32
  USER_DIRENTS, \* entries that fit in the 4096 bytes of ls, 15
  Letters       \* what a path is made of

ASSUME ShellAssumption ==
  /\ BUF_MAX \in Nat \ {0}
  /\ HALF \in Nat \ {0, 1}
  /\ MAX_DIRENTS \in 0 .. HALF - 1
  /\ USER_DIRENTS \in Nat

VARIABLES pc, input_buffer, x3, x9, sp, msg, x0, said, typed, res, entry_count

vars == <<pc, input_buffer, x3, x9, sp, msg, x0, said, typed, res, entry_count>>

line_vars == <<input_buffer, x3, typed>>

SPACE == "space"
NUL == "nul"

TextCommands == {"sysname", "help", "clear"}
OneArgCommands == {"touch", "mkdir", "rm", "unbind"}
TwoArgCommands == {"cp", "mv", "bind"}
Commands == {"echo", "ls", "pwd", "cd"} \cup TextCommands \cup OneArgCommands \cup TwoArgCommands

ASSUME LettersAssumption == Letters \cap (Commands \cup {SPACE, NUL}) = {}

Characters == Commands \cup Letters \cup {SPACE}

\* What x9 and the pointers of a message may hold: 0, an index in the line
\* buffer, the path buffer on the stack, the string "/", or the end of the name
\* that ls printed last.
Null == <<"null", 0>>
InBuffer(i) == <<"buf", i>>
Stack == <<"stack", 0>>
Root == <<"root", 0>>
NameEnd == <<"name", 0>>
Pointers == {Null, Stack, Root, NameEnd} \cup {InBuffer(i) : i \in 0 .. BUF_MAX}

Types == {"MSG_NONE", "MSG_READ_DIR", "MSG_CREATE", "MSG_MKDIR", "MSG_GETCWD", "MSG_CHDIR",
          "MSG_COPY", "MSG_REMOVE", "MSG_MOVE", "MSG_BIND", "MSG_UNBIND"}

Message(type, path, data) == [type |-> type, path |-> path, data |-> data, dirent_count |-> 0]
NoMessage == Message("MSG_NONE", Null, Null)

Zero == [hi |-> 0, lo |-> 0]

\* The stack space of a command: a message, with a path buffer for pwd, and with
\* a path buffer and room for the entries for ls.
MESSAGE_BYTES == 96
PWD_BYTES == 512 + 64
LS_BYTES == 512 + 4096 + 96

\* enter_usermode has cleared the registers; the shell sets x2 and x3.
Init ==
  /\ pc = "input"
  /\ input_buffer = [i \in 0 .. BUF_MAX |-> NUL]
  /\ x3 = 0
  /\ x9 = Null
  /\ sp = 0
  /\ msg = NoMessage
  /\ x0 = Zero
  /\ said = "prompt"
  /\ typed = <<>>
  /\ res = 0
  /\ entry_count = 0

-----------------------------------------------------------------------------
(* The line.                                                               *)

\* A name can be first on the line; what follows is one of its arguments.
Keys == IF x3 = 0 THEN Characters ELSE Letters \cup {SPACE}

new_record == said' = "prompt" /\ typed' = <<>> /\ entry_count' = 0

\* Mutated form of input_loop: bgt in place of bge.
input_loop_off_by_one ==
  /\ pc = "input"
  /\ x3 <= BUF_MAX
  /\ \E c \in Keys : input_buffer' = [input_buffer EXCEPT ![x3] = c]
  /\ x3' = x3 + 1
  /\ new_record
  /\ UNCHANGED <<pc, x9, sp, msg, x0, res>>

\* A character is stored if there is room for it and the terminator.
input_loop ==
  /\ pc = "input"
  /\ x3 < BUF_MAX
  /\ \E c \in Keys : input_buffer' = [input_buffer EXCEPT ![x3] = c]
  /\ x3' = x3 + 1
  /\ new_record
  /\ UNCHANGED <<pc, x9, sp, msg, x0, res>>

handle_backspace ==
  /\ pc = "input"
  /\ x3 > 0
  /\ x3' = x3 - 1
  /\ new_record
  /\ UNCHANGED <<pc, input_buffer, x9, sp, msg, x0, res>>

\* Enter: the line is ended, and an empty one is forgotten.
process_command ==
  /\ pc = "input"
  /\ input_buffer' = [input_buffer EXCEPT ![x3] = NUL]
  /\ pc' = IF x3 = 0 THEN "input" ELSE "command"
  /\ said' = "prompt"
  /\ typed' = [i \in 1 .. x3 |-> input_buffer[i - 1]]
  /\ entry_count' = 0
  /\ UNCHANGED <<x3, x9, sp, msg, x0, res>>

\* The line is cmd alone, or cmd and a space.
Alone(cmd) == x3 = 1 /\ input_buffer[0] = cmd
WithSpace(cmd) == x3 > 1 /\ input_buffer[0] = cmd /\ input_buffer[1] = SPACE
Is(cmd) == Alone(cmd) \/ WithSpace(cmd)

\* The loops that look for the start and the end of a word stop at the end of
\* the line.
NextWord(buf, i) ==
  CHOOSE j \in i .. x3 : (j = x3 \/ buf[j] # SPACE) /\ \A k \in i .. j - 1 : buf[k] = SPACE

\* Mutated form of WordEnd: the loop does not look for a space.
WordEnd_of_line(buf, i) == x3

WordEnd(buf, i) ==
  CHOOSE j \in i .. x3 : (j = x3 \/ buf[j] = SPACE) /\ \A k \in i .. j - 1 : buf[k] # SPACE

-----------------------------------------------------------------------------
(* The register a system call returns.                                     *)

\* (uint64_t)result of an int: the sign goes into the upper half.
Reg64(r) == [hi |-> IF r < 0 THEN HALF - 1 ELSE 0, lo |-> r % HALF]

\* A system call with number x8, whose message gave r: SYS_PUTC returns 0,
\* SYS_SEND_MESSAGE the result as a 64-bit value.
handle_sync_exception(x8, r) ==
  CASE x8 = "SYS_PUTC" -> Zero
    [] x8 = "SYS_SEND_MESSAGE" -> Reg64(r)

-----------------------------------------------------------------------------
(* What a command ends with.                                               *)

\* The print loops and reset_and_prompt: something is printed, the line is empty
\* again.  The SYS_PUTC of the prompt leave 0 in x0, and no message is looked at
\* any more.
reset_and_prompt(what) ==
  /\ pc' = "input"
  /\ x3' = 0
  /\ x0' = handle_sync_exception("SYS_PUTC", 0)
  /\ msg' = NoMessage
  /\ said' = what
  /\ res' = 0

\* print_message and print_message_simple leave the stack alone.
print_message(what) ==
  /\ reset_and_prompt(what)
  /\ UNCHANGED <<x9, sp, typed, entry_count>>

\* A message is built on the stack and handed over with SYS_SEND_MESSAGE.
svc(m) ==
  /\ pc' = "kernel"
  /\ msg' = m
  /\ UNCHANGED <<x3, x0, said, typed, res, entry_count>>

-----------------------------------------------------------------------------
(* The commands.                                                           *)

\* echo prints the rest of the line.
echo ==
  /\ pc = "command"
  /\ Is("echo")
  /\ print_message("text")
  /\ UNCHANGED input_buffer

\* sysname, help and clear, without anything after them.
text_command ==
  /\ pc = "command"
  /\ \E cmd \in TextCommands : Alone(cmd)
  /\ print_message("text")
  /\ UNCHANGED input_buffer

\* A command with one path: the word is ended in the line, and its place goes
\* into msg.path.
OneArg(cmd, type) ==
  LET start == NextWord(input_buffer, 2)
      end == WordEnd(input_buffer, start)
  IN /\ pc = "command"
     /\ Is(cmd)
     /\ IF Alone(cmd) \/ start = x3
          THEN print_message("usage") /\ UNCHANGED input_buffer
          ELSE /\ input_buffer' = [input_buffer EXCEPT ![end] = NUL]
               /\ sp' = sp + MESSAGE_BYTES
               /\ svc(Message(type, InBuffer(start), Null))
               /\ UNCHANGED x9

touch == OneArg("touch", "MSG_CREATE")
mkdir == OneArg("mkdir", "MSG_MKDIR")
rm == OneArg("rm", "MSG_REMOVE")
unbind == OneArg("unbind", "MSG_UNBIND")

\* The first path goes into msg.path and the second into msg.data; for MSG_BIND
\* msg.path is the target and msg.data the source.
PathsMessage(type, src, dst) ==
  IF type = "MSG_BIND" THEN Message(type, dst, src) ELSE Message(type, src, dst)

\* A command with two paths.  The first word is ended before the second one is
\* looked for, and stays so when there is none.
TwoArgs(cmd, type) ==
  LET src == NextWord(input_buffer, 2)
      src_end == WordEnd(input_buffer, src)
      buf == [input_buffer EXCEPT ![src_end] = NUL]
      dst == NextWord(buf, src_end + 1)
      dst_end == WordEnd(buf, dst)
  IN /\ pc = "command"
     /\ Is(cmd)
     /\ IF Alone(cmd) \/ src = x3 \/ src_end = x3
          THEN print_message("usage") /\ UNCHANGED input_buffer
          ELSE IF dst = x3
            THEN print_message("usage") /\ input_buffer' = buf
            ELSE /\ input_buffer' = [buf EXCEPT ![dst_end] = NUL]
                 /\ sp' = sp + MESSAGE_BYTES
                 /\ svc(PathsMessage(type, InBuffer(src), InBuffer(dst)))
                 /\ UNCHANGED x9

cp == TwoArgs("cp", "MSG_COPY")
mv == TwoArgs("mv", "MSG_MOVE")
bind == TwoArgs("bind", "MSG_BIND")

\* cd goes to "/" when there is no path.
cd ==
  LET start == NextWord(input_buffer, 2)
      end == WordEnd(input_buffer, start)
      noargs == Alone("cd") \/ start = x3
  IN /\ pc = "command"
     /\ Is("cd")
     /\ input_buffer' = IF noargs THEN input_buffer ELSE [input_buffer EXCEPT ![end] = NUL]
     /\ sp' = sp + MESSAGE_BYTES
     /\ svc(Message("MSG_CHDIR", IF noargs THEN Root ELSE InBuffer(start), Null))
     /\ UNCHANGED x9

pwd ==
  /\ pc = "command"
  /\ Is("pwd")
  /\ sp' = sp + PWD_BYTES
  /\ svc(Message("MSG_GETCWD", Null, Stack))
  /\ UNCHANGED <<input_buffer, x9>>

\* ls asks for the working directory only if the line is "ls" and nothing else;
\* with a path x9 points to it, and with spaces alone x9 is what it was.
ls ==
  LET start == NextWord(input_buffer, 2)
      end == WordEnd(input_buffer, start)
      has_path == WithSpace("ls") /\ start # x3
  IN /\ pc = "command"
     /\ Is("ls")
     /\ input_buffer' = IF has_path THEN [input_buffer EXCEPT ![end] = NUL] ELSE input_buffer
     /\ x9' = IF has_path THEN InBuffer(start) ELSE x9
     /\ sp' = sp + LS_BYTES
     /\ svc(IF Alone("ls") THEN Message("MSG_GETCWD", Null, Stack)
                           ELSE Message("MSG_READ_DIR", x9', Stack))

unknown_command ==
  /\ pc = "command"
  /\ ~ \E cmd \in Commands \ TextCommands : Is(cmd)
  /\ ~ \E cmd \in TextCommands : Alone(cmd)
  /\ print_message("unknown")
  /\ UNCHANGED input_buffer

-----------------------------------------------------------------------------
(* The kernel.                                                             *)

\* blt after a comparison with 0.
Negative(x) == x.hi >= HALF \div 2

\* What send_message returns: MSG_GETCWD succeeds, since the shell is the current
\* process and its cwd is shorter than the 512 bytes; a directory has any number
\* of entries; the other messages return 0 or -1.
send_message(m) ==
  CASE m.type = "MSG_GETCWD" -> {0}
    [] m.type = "MSG_READ_DIR" -> IF m.path = Null THEN {-1} ELSE {-1} \cup 0 .. MAX_DIRENTS
    [] OTHER -> {0, -1}

\* Mutated form of handle_read_dir_message: as many as fit are copied.
handle_read_dir_message_cut(r) == IF r <= USER_DIRENTS THEN r ELSE USER_DIRENTS

\* The entries are copied if all of them fit; if not, none is.
handle_read_dir_message(r) == IF r >= 0 /\ r <= USER_DIRENTS THEN r ELSE 0

\* Mutated form of Halts: the upper half is compared with 1.
Halts_on_one(x) == x.hi = 1

\* The way to halt_system.
Halts(x) == x.hi # 0

\* Mutated form of eret: ELR_EL1 was set back to the svc instruction.
eret_to_svc(x) == IF Halts(x) THEN "halted" ELSE "kernel"

eret(x) == IF Halts(x) THEN "halted" ELSE "returned"

\* The message is handled, and sync_handler returns to the shell with the result
\* in x0 or halts.
sync_handler ==
  /\ pc = "kernel"
  /\ \E r \in send_message(msg) :
       /\ res' = r
       /\ x0' = handle_sync_exception("SYS_SEND_MESSAGE", r)
       /\ IF msg.type = "MSG_READ_DIR" /\ r >= 0
            THEN /\ msg' = [msg EXCEPT !.dirent_count = handle_read_dir_message(r)]
                 /\ entry_count' = r
            ELSE UNCHANGED <<msg, entry_count>>
  /\ pc' = eret(x0')
  /\ UNCHANGED <<line_vars, x9, sp, said>>

-----------------------------------------------------------------------------
(* Back in the shell.                                                      *)

\* After touch, mkdir, cd, cp, rm, mv, bind and unbind: the space of the message is
\* given back, but not on the way to print_message_simple.
message_done ==
  /\ pc = "returned"
  /\ msg.type \notin {"MSG_GETCWD", "MSG_READ_DIR"}
  /\ sp' = IF Negative(x0) THEN sp ELSE sp - MESSAGE_BYTES
  /\ reset_and_prompt(IF Negative(x0) THEN "error" ELSE "prompt")
  /\ UNCHANGED <<input_buffer, x9, typed, entry_count>>

pwd_done ==
  /\ pc = "returned"
  /\ msg.type = "MSG_GETCWD"
  /\ input_buffer[0] = "pwd"
  /\ sp' = sp - PWD_BYTES
  /\ reset_and_prompt(IF Negative(x0) THEN "error" ELSE "text")
  /\ UNCHANGED <<input_buffer, x9, typed, entry_count>>

ls_do_readdir ==
  /\ pc = "returned"
  /\ msg.type = "MSG_GETCWD"
  /\ input_buffer[0] = "ls"
  /\ x9' = IF Negative(x0) THEN Root ELSE Stack
  /\ svc(Message("MSG_READ_DIR", x9', Stack))
  /\ UNCHANGED <<input_buffer, sp>>

\* Printing the names moves x9 to the end of the last one.
ls_loop ==
  /\ pc = "returned"
  /\ msg.type = "MSG_READ_DIR"
  /\ x9' = IF ~Negative(x0) /\ msg.dirent_count > 0 THEN NameEnd ELSE x9
  /\ sp' = sp - LS_BYTES
  /\ reset_and_prompt(IF Negative(x0) THEN "error"
                      ELSE IF msg.dirent_count = 0 THEN "empty" ELSE "list")
  /\ UNCHANGED <<input_buffer, typed, entry_count>>

Command ==
  \/ echo \/ text_command \/ touch \/ mkdir \/ rm \/ unbind \/ cp \/ mv \/ bind \/ cd \/ pwd \/ ls
  \/ unknown_command

Back == message_done \/ pwd_done \/ ls_do_readdir \/ ls_loop

\* What the processor does on its own, and what waits for a key.
Step == Command \/ sync_handler \/ Back
Key == input_loop \/ handle_backspace \/ process_command

Next == Step \/ Key

\* Nothing interrupts the shell (enter_usermode masks interrupts), so that the
\* processor always gets on with the next instruction.
Spec == Init /\ [][Next]_vars /\ WF_vars(Step)

-----------------------------------------------------------------------------
(* Properties.                                                             *)

\* The line and its terminator stay in the 64 bytes of input_buffer.
TypeOK ==
  /\ pc \in {"input", "command", "kernel", "returned", "halted"}
  /\ input_buffer \in [0 .. BUF_MAX -> Characters \cup {NUL}]
  /\ x3 \in 0 .. BUF_MAX
  /\ x9 \in Pointers
  /\ sp \in Int
  /\ msg \in [type : Types, path : Pointers, data : Pointers, dirent_count : 0 .. MAX_DIRENTS]
  /\ x0 \in [hi : 0 .. HALF - 1, lo : 0 .. HALF - 1]
  /\ said \in {"prompt", "text", "usage", "unknown", "error", "empty", "list"}
  /\ typed \in Seq(Characters)
  /\ res \in -1 .. MAX_DIRENTS
  /\ entry_count \in 0 .. MAX_DIRENTS

\* Whatever was typed and whatever the kernel answered, the shell prompts with
\* the stack it started with: the error exits, which do not give the message
\* back, are never taken, because sync_handler halts on every result they test for.
StackBalanced == pc \in {"input", "command"} => sp = 0

\* The system halts only after a message that failed: no number of entries and no
\* other success is taken for an exception by sync_handler.
HaltsOnlyOnFailure == pc = "halted" => res < 0

\* The words of the line as it was typed, by the place they start at.
Starts == {i \in 1 .. Len(typed) : typed[i] # SPACE /\ (i = 1 \/ typed[i - 1] = SPACE)}
Word(k) ==
  LET start == CHOOSE i \in Starts : Cardinality({j \in Starts : j <= i}) = k
      end == CHOOSE i \in start .. Len(typed) :
               /\ i = Len(typed) \/ typed[i + 1] = SPACE
               /\ \A j \in start .. i : typed[j] # SPACE
  IN SubSeq(typed, start, end)

\* The string the kernel finds at an index of input_buffer.
StringAt(i) ==
  LET end == CHOOSE j \in i .. BUF_MAX : input_buffer[j] = NUL /\ \A k \in i .. j - 1 : input_buffer[k] # NUL
  IN [k \in 1 .. end - i |-> input_buffer[i + k - 1]]

Holds(pointer, word) == pointer[1] = "buf" /\ StringAt(pointer[2]) = word

\* The kernel finds in the message the words that were typed, each ended where its
\* space was, and no rest of a longer line typed before; bind has them in the
\* other order.  ls alone asks for the working directory and lists it (ls with
\* nothing but spaces lists what x9 was left at).  A command says how it is used only if a word is missing.
ArgumentsArrive ==
  LET words == Cardinality(Starts)
  IN /\ pc = "kernel" /\ typed[1] \in OneArgCommands => words >= 2 /\ Holds(msg.path, Word(2))
     /\ pc = "kernel" /\ typed[1] \in {"cd", "ls"} /\ words >= 2 => Holds(msg.path, Word(2))
     /\ pc = "kernel" /\ typed = <<"ls">> =>
          \/ msg.type = "MSG_GETCWD" /\ msg.data = Stack
          \/ msg.type = "MSG_READ_DIR" /\ msg.path = Stack
     /\ pc = "kernel" /\ typed[1] \in {"cp", "mv"} =>
          words >= 3 /\ Holds(msg.path, Word(2)) /\ Holds(msg.data, Word(3))
     /\ pc = "kernel" /\ typed[1] = "bind" =>
          words >= 3 /\ Holds(msg.path, Word(3)) /\ Holds(msg.data, Word(2))
     /\ said = "usage" /\ pc = "input" =>
          words < 2 \/ (typed[1] \in TwoArgCommands /\ words < 3) \/ typed = <<>>

\* ls prints the names of a directory only if the kernel found room for all of them, and a directory is called
\* empty only if it has no entries or more than fit in the space of ls.
ListsAllOrNothing ==
  /\ said = "list" => entry_count \in 1 .. USER_DIRENTS
  /\ said = "empty" => entry_count = 0 \/ entry_count > USER_DIRENTS

\* A line that was entered is answered: the shell prompts again, or the system
\* has halted.
AnswersOrHalts == pc = "command" ~> pc \in {"input", "halted"}

\* "for syscalls: bits 63:32 = 0, bits 31:0 = syscall return value"
\* (exceptions.c:20).
SyscallResultFits == x0.hi = 0
=============================================================================
