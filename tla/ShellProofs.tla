---------------------------- MODULE ShellProofs ----------------------------
(***************************************************************************)
(* The shell prompts with the stack it started with, and the system halts  *)
(* only after a message that failed, for every length of the line buffer,  *)
(* every width of a register and every line.                               *)
(***************************************************************************)
EXTENDS Shell, TLAPS

\* The bytes that are on the stack while a message is in the kernel.
Frame ==
  IF msg.type = "MSG_READ_DIR" \/ (msg.type = "MSG_GETCWD" /\ input_buffer[0] = "ls") THEN LS_BYTES
  ELSE IF msg.type = "MSG_GETCWD" THEN PWD_BYTES
  ELSE MESSAGE_BYTES

\* The inductive invariant: between the command and the prompt the stack holds the
\* frame of the message, and the shell goes on only with a result that fits.
IInv ==
  /\ StackBalanced
  /\ "type" \in DOMAIN msg
  /\ pc \in {"kernel", "returned"} => sp = Frame
  /\ pc = "returned" => x0.hi = 0
  /\ HaltsOnlyOnFailure

\* A result that fits in the lower half is not negative for the shell.
LEMMA NotNegative == ASSUME x0.hi = 0 PROVE ~Negative(x0)
<1>1. HALF \div 2 \in Nat /\ HALF \div 2 > 0
  BY ShellAssumption
<1> QED
  BY <1>1 DEF Negative

\* The upper half of a result is 0 unless the result is negative.
LEMMA HaltsOnNegative ==
  ASSUME NEW r \in Int PROVE Halts(handle_sync_exception("SYS_SEND_MESSAGE", r)) <=> r < 0
<1>1. HALF - 1 # 0
  BY ShellAssumption
<1> QED
  BY <1>1 DEF Halts, handle_sync_exception, Reg64

\* What send_message returns is a number.
LEMMA ResultIsInt == send_message(msg) \subseteq Int
<1>1. 0 .. MAX_DIRENTS \subseteq Int
  OBVIOUS
<1> QED
  BY <1>1 DEF send_message

\* A command that prints leaves the stack as it is.
LEMMA PrintIInv ==
  ASSUME IInv, pc = "command", NEW what, print_message(what)
  PROVE  IInv'
BY DEF IInv, StackBalanced, HaltsOnlyOnFailure, print_message, reset_and_prompt, NoMessage, Message

\* A command that sends a message other than the ones of ls and pwd takes the space of
\* a message.
LEMMA SendIInv ==
  ASSUME IInv, pc = "command", NEW m, "type" \in DOMAIN m, m.type \notin {"MSG_READ_DIR", "MSG_GETCWD"},
         svc(m), sp' = sp + MESSAGE_BYTES
  PROVE  IInv'
BY DEF IInv, StackBalanced, HaltsOnlyOnFailure, svc, Frame, MESSAGE_BYTES

\* The commands with one path.
LEMMA OneArgIInv ==
  ASSUME IInv, NEW cmd, NEW type, type \notin {"MSG_READ_DIR", "MSG_GETCWD"}, OneArg(cmd, type)
  PROVE  IInv'
<1>1. CASE print_message("usage")
  BY <1>1, PrintIInv DEF OneArg
<1>2. ASSUME NEW i, sp' = sp + MESSAGE_BYTES, svc(Message(type, InBuffer(i), Null)) PROVE IInv'
  <2>1. Message(type, InBuffer(i), Null).type = type /\ "type" \in DOMAIN Message(type, InBuffer(i), Null)
    BY DEF Message
  <2> QED
    BY <1>2, <2>1, SendIInv DEF OneArg
<1> QED
  BY <1>1, <1>2 DEF OneArg

\* Every step keeps the invariant.
LEMMA NextIInv == IInv /\ [Next]_vars => IInv'
<1> SUFFICES ASSUME IInv, [Next]_vars PROVE IInv'
  OBVIOUS
<1> USE DEF StackBalanced, HaltsOnlyOnFailure
<1>1. CASE UNCHANGED vars
  BY <1>1 DEF IInv, vars, Frame
<1>2. CASE input_loop \/ handle_backspace \/ process_command
  BY <1>2 DEF IInv, input_loop, handle_backspace, process_command
<1>3. CASE echo \/ text_command \/ unknown_command
  BY <1>3, PrintIInv DEF echo, text_command, unknown_command
<1>4. CASE touch \/ mkdir \/ rm \/ unbind
  BY <1>4, OneArgIInv DEF touch, mkdir, rm, unbind
<1>5. ASSUME NEW cmd, NEW type, type \notin {"MSG_READ_DIR", "MSG_GETCWD"}, TwoArgs(cmd, type)
      PROVE  IInv'
  <2>1. pc = "command"
    BY <1>5 DEF TwoArgs
  <2>2. CASE print_message("usage")
    BY <2>1, <2>2, PrintIInv
  <2>3. ASSUME NEW i, NEW j, sp' = sp + MESSAGE_BYTES, svc(PathsMessage(type, i, j))
        PROVE  IInv'
    <3>1. PathsMessage(type, i, j).type = type /\ "type" \in DOMAIN PathsMessage(type, i, j)
      BY DEF PathsMessage, Message
    <3> QED
      BY <1>5, <2>1, <2>3, <3>1, SendIInv
  <2> QED
    BY <1>5, <2>2, <2>3 DEF TwoArgs
<1>6. CASE cp \/ mv \/ bind
  BY <1>5, <1>6 DEF cp, mv, bind
<1>7. CASE cd
  <2>1. ASSUME NEW p, svc(Message("MSG_CHDIR", p, Null)) PROVE IInv'
    <3>1. Message("MSG_CHDIR", p, Null).type = "MSG_CHDIR" /\ "type" \in DOMAIN Message("MSG_CHDIR", p, Null)
      BY DEF Message
    <3> QED
      BY <1>7, <2>1, <3>1, SendIInv DEF cd
  <2> QED
    BY <1>7, <2>1 DEF cd
<1>8. CASE pwd
  BY <1>8 DEF IInv, pwd, svc, Is, Alone, WithSpace, Message, Frame, PWD_BYTES
<1>9. CASE ls
  <2>1. pc = "command" /\ pc' = "kernel" /\ sp' = LS_BYTES
    BY <1>9 DEF ls, svc, IInv, LS_BYTES
  <2>2. CASE Alone("ls")
    <3>1. msg' = Message("MSG_GETCWD", Null, Stack) /\ input_buffer' = input_buffer
      BY <1>9, <2>2 DEF ls, svc, Alone, WithSpace
    <3> QED
      BY <2>1, <2>2, <3>1 DEF IInv, Frame, Message, Alone
  <2>3. CASE ~Alone("ls")
    <3>1. msg' = Message("MSG_READ_DIR", x9', Stack)
      BY <1>9, <2>3 DEF ls, svc
    <3> QED
      BY <2>1, <3>1 DEF IInv, Frame, Message
  <2> QED
    BY <2>2, <2>3
<1>10. CASE sync_handler
  <2>1. PICK r \in send_message(msg) :
          /\ res' = r
          /\ x0' = handle_sync_exception("SYS_SEND_MESSAGE", r)
          /\ msg' = msg \/ msg' = [msg EXCEPT !.dirent_count = handle_read_dir_message(r)]
    BY <1>10 DEF sync_handler
  <2>2. r \in Int /\ (Halts(x0') <=> r < 0)
    BY <2>1, HaltsOnNegative, ResultIsInt
  <2>3. pc' = (IF r < 0 THEN "halted" ELSE "returned")
    BY <1>10, <2>2 DEF sync_handler, eret
  <2>4. pc' = "returned" => x0'.hi = 0
    BY <2>2, <2>3 DEF Halts
  <2>5. msg'.type = msg.type /\ "type" \in DOMAIN msg'
    BY <2>1 DEF IInv
  <2>6. sp' = Frame'
    BY <1>10, <2>5 DEF sync_handler, line_vars, IInv, Frame
  <2> QED
    BY <2>1, <2>3, <2>4, <2>5, <2>6 DEF IInv
<1>11. ASSUME pc = "returned" PROVE ~Negative(x0) /\ sp = Frame
  BY <1>11, NotNegative DEF IInv
<1>12. CASE message_done
  BY <1>11, <1>12 DEF IInv, message_done, reset_and_prompt, NoMessage, Message, Frame, MESSAGE_BYTES
<1>13. CASE pwd_done
  BY <1>11, <1>13 DEF IInv, pwd_done, reset_and_prompt, NoMessage, Message, Frame, PWD_BYTES
<1>14. CASE ls_do_readdir
  BY <1>11, <1>14 DEF IInv, ls_do_readdir, svc, Frame, Message, LS_BYTES
<1>15. CASE ls_loop
  BY <1>11, <1>15 DEF IInv, ls_loop, reset_and_prompt, NoMessage, Message, Frame, LS_BYTES
<1> QED
  BY <1>1, <1>2, <1>3, <1>4, <1>6, <1>7, <1>8, <1>9, <1>10, <1>12, <1>13, <1>14, <1>15
  DEF Next, Step, Key, Command, Back

\* The shell prompts with the stack it started with, and the system halts only
\* after a message that failed: the error exits of user_shell.S, which do not give
\* the stack back, are never reached.
THEOREM PromptsWithWholeStack == Spec => [](StackBalanced /\ HaltsOnlyOnFailure)
<1>1. Init => IInv
  BY DEF Init, NoMessage, Message, IInv, StackBalanced, HaltsOnlyOnFailure
<1>2. IInv => StackBalanced /\ HaltsOnlyOnFailure
  BY DEF IInv
<1> QED
  BY <1>1, <1>2, NextIInv, PTL DEF Spec

\* sync_handler halts the system only after a message that the kernel failed.
THEOREM HaltsOnlyAfterFailure == Spec => []HaltsOnlyOnFailure
  BY PromptsWithWholeStack, PTL
=============================================================================
