----------------------------- MODULE AtChannel ------------------------------
(***************************************************************************)
(* The factory test of the radio, libFactoryRadioTest/factorytest_radio.c: *)
(*   AT+TELTEST=<dial>,<sim>,<number>  TestMakeCall                        *)
(*   AT+SIMTEST=<sim>                  TestCheckSIM                        *)
(* Both talk AT to the modem through sendATCmd, which writes a command,    *)
(* waits for the device to become readable and takes lines from readline   *)
(* until one says OK or ERROR.  readline keeps what it has read and not    *)
(* yet returned in s_ATBuffer, one buffer for all devices and all times,   *)
(* and the modem may answer late or never: lines that a command has not    *)
(* taken are taken by the next one.  One AT port, so one request at a time.*)
(***************************************************************************)
EXTENDS Integers, Sequences, FiniteSets

CONSTANTS
  Sims,        \* the slots, each with an AT device of its own
  PhoneTwo,    \* one of them, named where no slot is meant
  Requests,    \* the requests of the host, <<operation, slot>>
  Backlog,     \* commands the modem has not answered yet
  TtyRoom,     \* lines a device holds for the reader
  TmpRoom,     \* info lines that fit tmp[512]
  TelTimeout,  \* TEL_TIMEOUT, in polls of AT+CREG?
  Unasked      \* what the modem may say without having been asked

ASSUME AtChannelAssumption ==
  /\ PhoneTwo \in Sims
  /\ Requests \subseteq {"dial", "hang", "sim"} \X Sims
  /\ {Backlog, TtyRoom, TmpRoom, TelTimeout} \subseteq Nat \ {0}
  /\ Unasked \subseteq {"state0", "state1", "registered", "searching", "OK"}

\* What TestMakeCall and TestCheckSIM send, in the order they send it.
Commands == {"ATH", "AT", "SFUN=5", "SPTESTMODEM", "SFUN=4", "CREG?", "ATD", "SSAM=1", "EUICC?"}

\* A line of the modem: what it says, whether it answers the command under
\* way (fresh; no longer told once a command has been cut short), and whether
\* it is only the end of a line whose beginning has been read before (rest).
Info == {"state0", "state1", "registered", "searching"}
Lines == [says : Info \cup {"OK", "ERROR", "junk"}, fresh : BOOLEAN, rest : BOOLEAN]
NoLine == [says |-> "none", fresh |-> FALSE, rest |-> FALSE]

\* The modem is external: what it says to a command that it answers in full.
Says(cmd) ==
  {<<"ERROR">>} \cup
  CASE cmd = "EUICC?" -> {<<"state0", "OK">>, <<"state1", "OK">>}
    [] cmd = "CREG?" -> {<<"registered", "OK">>, <<"searching", "OK">>}
    [] OTHER -> {<<"OK">>}
\* Commands that are answered alike are queued alike.
Kind(cmd) == IF cmd \in {"EUICC?", "CREG?"} THEN cmd ELSE "AT"

VARIABLES
  todo,      \* by device, commands the modem has yet to answer
  tty,       \* by device, lines that wait for a read
  buffer,    \* the whole lines in s_ATBuffer from s_ATBufferCur on
  partial,   \* the beginning of a line behind them
  partialOf, \* the device it was read from
  task,      \* the request: its operation, slot
  cmd,       \* the command under way
  pc,        \* the step of it
  tmp,       \* the info lines in the tmp of TestMakeCall or TestCheckSIM
  rsp_len,   \* how many of them this command has copied there
  result,    \* what TestMakeCall or TestCheckSIM returns is not negative
  waited,    \* polls since AT+SFUN=4
  s_threadStarted,  \* a thread reads the URCs, as far as is known
  cut        \* since power-on a command was left before its last line was read,
             \* or the modem said a line unasked

vars == <<todo, tty, buffer, partial, partialOf, task, cmd, pc, tmp, rsp_len, result, waited,
          s_threadStarted, cut>>
modem == <<todo, tty>>
lines == <<buffer, partial, partialOf>>

Operations == {"none", "dial", "hang", "sim"}

TypeOK ==
  /\ \A s \in Sims :
       /\ todo[s] \in Seq({"AT", "CREG?", "EUICC?"} \X BOOLEAN) /\ Len(todo[s]) <= Backlog
       /\ tty[s] \in Seq(Lines) /\ Len(tty[s]) <= TtyRoom
  /\ buffer \in Seq(Lines) /\ Len(buffer) <= TtyRoom
  /\ partial \in Lines \cup {NoLine}
  /\ partialOf \in Sims
  /\ task \in [op : Operations, sim : Sims]
  /\ cmd \in Commands \cup {"none"}
  /\ pc \in {"idle", "send", "select", "lines", "next", "reply"}
  /\ tmp \in Seq(Lines) /\ Len(tmp) <= TmpRoom
  /\ rsp_len \in 0 .. TmpRoom
  /\ waited \in 0 .. TelTimeout + 1
  /\ {result, s_threadStarted, cut} \subseteq BOOLEAN

NoTask == [op |-> "none", sim |-> PhoneTwo]

Init ==
  /\ todo = [s \in Sims |-> <<>>] /\ tty = [s \in Sims |-> <<>>]
  /\ buffer = <<>> /\ partial = NoLine /\ partialOf = PhoneTwo
  /\ task = NoTask /\ cmd = "none" /\ pc = "idle"
  /\ tmp = <<>> /\ rsp_len = 0 /\ result = FALSE /\ waited = 0
  /\ s_threadStarted = FALSE
  /\ cut = FALSE

----------------------------------------------------------------------------
(* Requests.                                                               *)

First(op) == CASE op = "dial" -> "SFUN=5" [] op = "hang" -> "ATH" [] OTHER -> "EUICC?"

\* TestMakeCall clears tmp; in TestCheckSIM it is whatever the stack holds,
\* at worst what the last test left there.
Receive(op, sim) ==
  /\ pc = "idle"
  /\ task' = [op |-> op, sim |-> sim]
  /\ cmd' = First(op)
  /\ pc' = "send"
  /\ tmp' \in IF op = "sim" THEN {<<>>, tmp} ELSE {<<>>}
  /\ UNCHANGED <<modem, lines, rsp_len, result, waited, s_threadStarted, cut>>

\* Arguments out of range, a number that is neither 112 nor 10086, or a
\* device that cannot be opened: -1 before anything is sent.
Refuse(op, sim) ==
  /\ pc = "idle"
  /\ task' = [op |-> op, sim |-> sim]
  /\ result' = FALSE
  /\ pc' = "reply"
  /\ UNCHANGED <<modem, lines, cmd, tmp, rsp_len, waited, s_threadStarted, cut>>

----------------------------------------------------------------------------
(* sendATCmd.                                                              *)

Stale(q) == [i \in DOMAIN q |-> [q[i] EXCEPT !.fresh = FALSE]]
Pending(q) == [i \in DOMAIN q |-> <<q[i][1], FALSE>>]

\* The modem may not take the command; no earlier line answers it.
Send ==
  /\ pc = "send"
  /\ \E taken \in BOOLEAN :
       /\ taken => Len(todo[task.sim]) < Backlog
       /\ todo' = [s \in Sims |->
                     Pending(todo[s]) \o (IF taken /\ s = task.sim THEN <<<<Kind(cmd), ~cut>>>>
                                          ELSE <<>>)]
  /\ tty' = [s \in Sims |-> Stale(tty[s])]
  /\ buffer' = Stale(buffer)
  /\ partial' = [partial EXCEPT !.fresh = FALSE]
  /\ tmp' = IF cmd = "ATD" THEN <<>> ELSE Stale(tmp)
  /\ pc' = "select"
  /\ UNCHANGED <<partialOf, task, cmd, rsp_len, result, waited, s_threadStarted, cut>>

\* The command ends; its caller looks at the result of these two only.
Ends(ok) ==
  /\ result' = IF cmd \in {"ATD", "EUICC?"} THEN ok ELSE result
  /\ rsp_len' = 0
  /\ pc' = "next"

SendFail ==
  /\ pc = "send"
  /\ Ends(FALSE)
  /\ UNCHANGED <<modem, lines, task, cmd, tmp, waited, s_threadStarted, cut>>

\* select looks at the device only, whatever is left in the buffer.
Readable ==
  /\ pc = "select"
  /\ tty[task.sim] # <<>>
  /\ pc' = "lines"
  /\ UNCHANGED <<modem, lines, task, cmd, tmp, rsp_len, result, waited, s_threadStarted, cut>>

\* Nothing to read in time or, whatever there is to read, an error.
TimeOut ==
  /\ pc = "select"
  /\ Ends(FALSE)
  /\ cut' = TRUE
  /\ UNCHANGED <<modem, lines, task, cmd, tmp, waited, s_threadStarted>>

\* Mutation: the first line ends the answer.
InfoLineEnds(l) ==
  /\ tmp' = IF cmd \in {"CREG?", "EUICC?"} THEN <<l>> ELSE tmp
  /\ Ends(TRUE)
  /\ UNCHANGED cut

\* Mutation: the room in tmp is not looked at.
InfoLineUnbounded(l) ==
  IF cmd \notin {"CREG?", "EUICC?"}
  THEN UNCHANGED <<tmp, rsp_len, result, pc, cut>>
  ELSE /\ tmp' = [i \in 1 .. (IF rsp_len < Len(tmp) THEN Len(tmp) ELSE rsp_len + 1) |->
                    IF i = rsp_len + 1 THEN l ELSE tmp[i]]
       /\ rsp_len' = rsp_len + 1
       /\ UNCHANGED <<result, pc, cut>>

\* An info line is copied behind those of this command, over whatever tmp
\* holds there, or skipped if the caller gave no room for any.
InfoLine(l) ==
  IF cmd \notin {"CREG?", "EUICC?"}
  THEN UNCHANGED <<tmp, rsp_len, result, pc, cut>>
  ELSE IF rsp_len = TmpRoom
  THEN Ends(FALSE) /\ cut' = TRUE /\ UNCHANGED tmp
  ELSE /\ tmp' = [i \in 1 .. (IF rsp_len < Len(tmp) THEN Len(tmp) ELSE rsp_len + 1) |->
                    IF i = rsp_len + 1 THEN l ELSE tmp[i]]
       /\ rsp_len' = rsp_len + 1
       /\ UNCHANGED <<result, pc, cut>>

\* readline has a whole line.
TakeLine ==
  /\ pc = "lines"
  /\ buffer # <<>>
  /\ buffer' = Tail(buffer)
  /\ IF Head(buffer).says \in {"OK", "ERROR"}
     THEN Ends(Head(buffer).says = "OK") /\ UNCHANGED <<tmp, cut>>
     ELSE InfoLine(Head(buffer))
  /\ UNCHANGED <<modem, partial, partialOf, task, cmd, waited, s_threadStarted>>

\* A line and the beginning that was left in the buffer before it make one
\* line, which strstr takes for either unless one is the other's end.
Alone(l) == IF l.rest THEN [l EXCEPT !.says = "junk", !.rest = FALSE] ELSE l
Joined(l) ==
  CASE partial = NoLine -> {Alone(l)}
    [] partial # NoLine /\ l.rest /\ partialOf = task.sim -> {partial}
    [] OTHER -> {partial, Alone(l)}

\* readline has none and reads: some of the lines there are, the last of
\* them, perhaps, in part.
Read ==
  /\ pc = "lines"
  /\ buffer = <<>>
  /\ \E n \in 1 .. Len(tty[task.sim]), torn \in BOOLEAN :
       LET q == tty[task.sim]
           whole == IF torn THEN n - 1 ELSE n
       IN /\ torn => ~q[n].rest /\ (n > 1 \/ partial = NoLine)
          /\ IF whole = 0 THEN UNCHANGED buffer
             ELSE \E first \in Joined(q[1]) :
                    buffer' = <<first>> \o SubSeq(q, 2, whole)
          /\ partial' = IF torn THEN q[n] ELSE NoLine
          /\ partialOf' = IF torn THEN task.sim ELSE PhoneTwo
          /\ tty' = [tty EXCEPT ![task.sim] =
                       (IF torn THEN <<[q[n] EXCEPT !.rest = TRUE]>> ELSE <<>>)
                         \o SubSeq(q, n + 1, Len(q))]
  /\ UNCHANGED <<todo, task, cmd, pc, tmp, rsp_len, result, waited, s_threadStarted, cut>>

\* The device is not blocking: with nothing to read there is no line, and
\* what sendATCmd returns is the 1 of its select.
NoLineYet ==
  /\ pc = "lines"
  /\ buffer = <<>> /\ tty[task.sim] = <<>>
  /\ Ends(TRUE)
  /\ cut' = TRUE
  /\ UNCHANGED <<modem, lines, task, cmd, tmp, waited, s_threadStarted>>

----------------------------------------------------------------------------
(* TestMakeCall, TestCheckSIM: after each command.                         *)

FirstOf(kinds) ==
  LET found == {i \in DOMAIN tmp : tmp[i].says \in kinds}
  IN IF found = {} THEN NoLine ELSE tmp[CHOOSE i \in found : \A j \in found : i <= j]
Registration == FirstOf({"registered", "searching"})
SimState == FirstOf({"state0", "state1"})

Follows == [c \in {"ATH", "SFUN=5", "SPTESTMODEM", "ATD"} |->
  CASE c = "ATH" -> "AT" [] c = "SFUN=5" -> "SPTESTMODEM"
    [] c = "SPTESTMODEM" -> "SFUN=4" [] OTHER -> "SSAM=1"]

\* The results of all commands but the dialling are ignored.
NextCommand ==
  /\ pc = "next"
  /\ cmd \in DOMAIN Follows
  /\ cmd' = Follows[cmd]
  /\ pc' = "send"
  /\ UNCHANGED <<modem, lines, task, tmp, rsp_len, result, waited, s_threadStarted, cut>>

\* The protocol stack is opened; then the URC reader is started, unless the
\* flag says it was.  pthread_create returns no negative number, so the flag
\* says so after a failure as well.
StartReader ==
  /\ pc = "next" /\ cmd = "SFUN=4"
  /\ s_threadStarted' = TRUE
  /\ cmd' = "CREG?" /\ pc' = "send" /\ waited' = 0
  /\ UNCHANGED <<modem, lines, task, tmp, rsp_len, result, cut>>

\* Mutation: any answer to AT+CREG? will do.
RegisteredUnchecked == Registration # NoLine

Registered == Registration.says = "registered"

Dial ==
  /\ pc = "next" /\ cmd = "CREG?"
  /\ Registered
  /\ cmd' = "ATD" /\ pc' = "send" /\ waited' = 0
  /\ UNCHANGED <<modem, lines, task, tmp, rsp_len, result, s_threadStarted, cut>>

\* Mutation: the time is not looked at.
PollForever ==
  /\ pc = "next" /\ cmd = "CREG?"
  /\ ~Registered
  /\ pc' = "send"
  /\ UNCHANGED <<modem, lines, task, cmd, tmp, rsp_len, result, waited, s_threadStarted, cut>>

Poll ==
  /\ pc = "next" /\ cmd = "CREG?"
  /\ ~Registered
  /\ waited' = waited + 1
  /\ IF waited' > TelTimeout THEN result' = FALSE /\ pc' = "reply"
     ELSE pc' = "send" /\ UNCHANGED result
  /\ UNCHANGED <<modem, lines, task, cmd, tmp, rsp_len, s_threadStarted, cut>>

\* The last command: hanging up returns 0 whatever happened, the SIM test
\* whether the state is 0.
Finish ==
  /\ pc = "next" /\ cmd \in {"AT", "SSAM=1", "EUICC?"}
  /\ result' = CASE cmd = "AT" -> TRUE
                 [] cmd = "SSAM=1" -> result
                 [] OTHER -> result /\ SimState.says = "state0"
  /\ pc' = "reply"
  /\ UNCHANGED <<modem, lines, task, cmd, tmp, rsp_len, waited, s_threadStarted, cut>>

Quiet ==
  /\ task' = NoTask /\ cmd' = "none" /\ pc' = "idle"
  /\ rsp_len' = 0 /\ result' = FALSE /\ waited' = 0

\* The device is closed, and may or may not keep what has not been read.
Reply ==
  /\ pc = "reply"
  /\ tty' \in {tty, [tty EXCEPT ![task.sim] = <<>>]}
  /\ Quiet
  /\ UNCHANGED <<todo, lines, tmp, s_threadStarted, cut>>

----------------------------------------------------------------------------
(* The modem, the URC reader and the end of the process.                   *)

\* The modem answers the oldest command it has, late or at once, if ever.
Answer(s) ==
  /\ todo[s] # <<>>
  /\ \E said \in Says(Head(todo[s])[1]) :
       /\ Len(tty[s]) + Len(said) <= TtyRoom
       /\ tty' = [tty EXCEPT ![s] = @ \o
                    [i \in DOMAIN said |-> [says |-> said[i],
                                  fresh |-> Head(todo[s])[2], rest |-> FALSE]]]
  /\ todo' = [todo EXCEPT ![s] = Tail(@)]
  /\ UNCHANGED <<lines, task, cmd, pc, tmp, rsp_len, result, waited, s_threadStarted, cut>>

\* A line no command asked for: an unsolicited one, which may read like an
\* answer, or a bare OK, which may be all that is said to a command.  The
\* model lets the modem do so while all lines are in their place, so once.
Stray(s) ==
  /\ ~cut
  /\ Len(tty[s]) < TtyRoom
  /\ \E says \in Unasked :
       tty' = [tty EXCEPT ![s] = Append(@, [says |-> says, fresh |-> FALSE, rest |-> FALSE])]
  /\ todo' \in {todo, [todo EXCEPT ![s] = IF @ = <<>> THEN @ ELSE Tail(@)]}
  /\ cut' = TRUE
  /\ UNCHANGED <<lines, task, cmd, pc, tmp, rsp_len, result, waited, s_threadStarted>>

\* readURCThread ends when the modem goes, and leaves its devices open.
ReaderEnds ==
  /\ s_threadStarted
  /\ s_threadStarted' = FALSE
  /\ UNCHANGED <<modem, lines, task, cmd, pc, tmp, rsp_len, result, waited, cut>>

Restart ==
  /\ Quiet
  /\ buffer' = <<>> /\ partial' = NoLine /\ partialOf' = PhoneTwo /\ tmp' = <<>>
  /\ s_threadStarted' = FALSE
  /\ cut' = (cut \/ pc # "idle")
  /\ UNCHANGED modem

Handle ==
  \/ Send \/ SendFail \/ Readable \/ TimeOut \/ TakeLine \/ Read \/ NoLineYet
  \/ NextCommand \/ StartReader \/ Dial \/ Poll \/ Finish \/ Reply

Next ==
  \/ \E r \in Requests : Receive(r[1], r[2]) \/ Refuse(r[1], r[2])
  \/ Handle
  \/ \E s \in Sims : Answer(s) \/ Stray(s)
  \/ ReaderEnds
  \/ Restart

Spec == Init /\ [][Next]_vars

\* The AT thread runs on: select has a timeout and read does not block.
FairSpec == Spec /\ WF_vars(Handle)
----------------------------------------------------------------------------
(* Properties.                                                             *)

\* As long as no command has been left before its last line was read (by a
\* timeout, an error, a line that had not come whole, too many lines, a
\* restart) and the modem has said nothing but answers in full, a SIM is reported present by an answer of its own device to this very test,
\* though the buffer and the stack are shared with everything before.
SimAnswerIsOwn ==
  pc = "reply" /\ task.op = "sim" /\ result /\ ~cut
    => SimState.fresh

\* Likewise the number is dialled when the slot's own device has just said
\* that it is registered, not because some earlier poll or test said so.
DialOwnRegistration ==
  pc = "send" /\ cmd = "ATD" =>
    /\ Registration.says = "registered"
    /\ ~cut => Registration.fresh

\* Unless one has been, no line is anywhere between two requests: nothing
\* but a command left early, or a modem that says what it was not asked, puts
\* the answers out of step with the commands.
InStep ==
  pc = "idle" /\ ~cut =>
    /\ buffer = <<>> /\ partial = NoLine
    /\ \A s \in Sims : todo[s] = <<>> /\ tty[s] = <<>>

\* A request ends whatever the modem does or does not say, as long as it is
\* not a line for every one that is read, for ever: every wait has a timeout
\* and the polling a limit.
EveryRequestEnds == pc # "idle" ~> pc = "idle"
=============================================================================
