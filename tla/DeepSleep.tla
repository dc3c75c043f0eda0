----------------------------- MODULE DeepSleep ------------------------------
(***************************************************************************)
(* Putting the AP to sleep, diag 0x11/2,                                   *)
(* libapdeepsleep/app_deep_sleep_cmd.c: ap_deep_sleep_handler opens        *)
(* /sys/power/wakeup_count and starts ap_ds_thread_fastsleep, which waits  *)
(* for the USB cable to be pulled and then, for ever, reads the count of   *)
(* wakeup events, writes it back and suspends.  The kernel refuses the     *)
(* write if an event has come since, and, after a write it has taken,      *)
(* breaks off a suspend if one comes before it is asleep.                  *)
(* Each command starts another thread; all of them use the one global      *)
(* wakeup_count_fd, with its one file position, as it is at each call.     *)
(* The kernel, its events and the cable are external.  The count itself is *)
(* left out: all that matters is whether an event has come since a read.   *)
(***************************************************************************)
EXTENDS Integers, FiniteSets

CONSTANTS
  Threads,  \* the threads that can be started (a bound on the commands)
  Polls     \* how often the cable is looked at; 300 in the code

VARIABLES
  handler,   \* "idle", or "create" between the open and the thread
  fd,        \* wakeup_count_fd: never or not opened, open, or closed again
  rewound,   \* its position is 0
  thread,    \* the step of each thread
  polls,     \* how often each has looked at the cable
  current,   \* no event since the thread has read the count
  refused,   \* the kernel did not take the count the thread wrote last
  check,     \* the kernel's check: off, or on with or without a later event
  asleep,    \* while the system is, the thread that put it to sleep
  lost,      \* an event had come since that thread read the count
  usb        \* the cable is in

vars == <<handler, fd, rewound, thread, polls, current, refused, check, asleep, lost, usb>>

ThreadSteps == {"free", "wait", "seek", "read", "write", "suspend", "ended"}

TypeOK ==
  /\ handler \in {"idle", "create"}
  /\ fd \in {"none", "open", "closed"}
  /\ thread \in [Threads -> ThreadSteps]
  /\ polls \in [Threads -> 0 .. Polls]
  /\ {current, refused} \subseteq [Threads -> BOOLEAN]
  /\ check \in {"off", "on", "stale"}
  /\ asleep \in {{}} \cup {{t} : t \in Threads}
  /\ {rewound, lost, usb} \subseteq BOOLEAN

Init ==
  /\ handler = "idle" /\ fd = "none" /\ rewound = TRUE
  /\ thread = [t \in Threads |-> "free"]
  /\ polls = [t \in Threads |-> 0]
  /\ current = [t \in Threads |-> FALSE]
  /\ refused = [t \in Threads |-> FALSE]
  /\ check = "off" /\ asleep = {} /\ lost = FALSE
  /\ usb \in BOOLEAN

Awake == asleep = {}
kernel == <<check, asleep, lost>>
file == <<fd, rewound>>

----------------------------------------------------------------------------
(* ap_deep_sleep_handler.                                                  *)

\* Whatever other threads read from, the variable is overwritten, with -1 if
\* the open fails.
Open ==
  /\ Awake /\ handler = "idle"
  /\ \/ fd' = "open" /\ rewound' = TRUE /\ handler' = "create"
     \/ fd' = "none" /\ UNCHANGED <<rewound, handler>>
  /\ UNCHANGED <<thread, polls, current, refused, kernel, usb>>

\* The descriptor is closed if there is no thread, and stays in the variable.
Create ==
  /\ Awake /\ handler = "create"
  /\ handler' = "idle"
  /\ \/ /\ \E t \in Threads : thread[t] = "free" /\ thread' = [thread EXCEPT ![t] = "wait"]
        /\ UNCHANGED fd
     \/ fd' = "closed" /\ UNCHANGED thread
  /\ UNCHANGED <<rewound, polls, current, refused, kernel, usb>>

----------------------------------------------------------------------------
(* ap_ds_thread_fastsleep.                                                 *)

Goes(t, step) == thread' = [thread EXCEPT ![t] = step]

\* A state file that cannot be read passes for a cable pulled.
Wait(t) ==
  /\ Awake /\ thread[t] = "wait"
  /\ IF polls[t] = Polls THEN Goes(t, "ended") /\ UNCHANGED polls
     ELSE \/ Goes(t, "seek") /\ UNCHANGED polls
          \/ usb /\ polls' = [polls EXCEPT ![t] = @ + 1] /\ UNCHANGED thread
  /\ UNCHANGED <<handler, file, current, refused, kernel, usb>>

\* Mutation: the file is read on from where it was left.
SeekSkipped(t) ==
  /\ Awake /\ thread[t] = "seek"
  /\ Goes(t, "read")
  /\ UNCHANGED <<handler, file, polls, current, refused, kernel, usb>>

\* Three seconds' delay, then back to the start of the file.
Seek(t) ==
  /\ Awake /\ thread[t] = "seek"
  /\ rewound' = (rewound \/ fd = "open")
  /\ Goes(t, "read")
  /\ UNCHANGED <<handler, fd, polls, current, refused, kernel, usb>>

\* Nothing is read past what another thread has read through the same
\* descriptor, or from a bad one: the thread starts over.  The number of a
\* closed one may be another file's by now, and what is read of that passes
\* for a count.
Read(t) ==
  /\ Awake /\ thread[t] = "read"
  /\ IF fd = "open" /\ rewound
     THEN /\ rewound' = FALSE
          /\ current' = [current EXCEPT ![t] = TRUE]
          /\ Goes(t, "write")
     ELSE \/ Goes(t, "seek") /\ UNCHANGED <<rewound, current>>
          \/ /\ fd = "closed" /\ Goes(t, "write")
             /\ current' = [current EXCEPT ![t] = FALSE]
             /\ UNCHANGED rewound
  /\ UNCHANGED <<handler, fd, polls, refused, kernel, usb>>

\* "if (ret)": -1 is as good as a count, and 0 is never returned, so all that
\* is kept of ret is that the suspend comes next.  A count the kernel takes
\* moves the file position and turns its check on, one it refuses turns that
\* off.
Write(t) ==
  /\ Awake /\ thread[t] = "write"
  /\ LET taken == fd = "open" /\ current[t]
     IN /\ refused' = [refused EXCEPT ![t] = ~taken]
        /\ check' = IF taken THEN "on" ELSE IF fd = "open" THEN "off" ELSE check
        /\ rewound' = (rewound /\ ~taken)
  /\ Goes(t, "suspend")
  /\ UNCHANGED <<handler, fd, polls, current, asleep, lost, usb>>

\* Mutation: after waking the thread suspends again at once.
SuspendAgain(t) ==
  /\ Awake /\ thread[t] = "suspend"
  /\ check' = "off"
  /\ IF check = "stale" THEN UNCHANGED <<asleep, lost>>
     ELSE asleep' = {t} /\ lost' = ~current[t]
  /\ UNCHANGED <<handler, file, thread, polls, current, refused, usb>>

\* The kernel's check is spent by any attempt, whoever made it.
Suspend(t) ==
  /\ Awake /\ thread[t] = "suspend"
  /\ check' = "off"
  /\ IF check = "stale" THEN UNCHANGED <<asleep, lost>>
     ELSE asleep' = {t} /\ lost' = ~current[t]
  /\ Goes(t, "seek")
  /\ UNCHANGED <<handler, file, polls, current, refused, usb>>

----------------------------------------------------------------------------
\* A wakeup event; a system asleep wakes up.
Event ==
  /\ current' = [t \in Threads |-> FALSE]
  /\ check' = IF check = "on" THEN "stale" ELSE check
  /\ asleep' = {}
  /\ lost' = FALSE
  /\ UNCHANGED <<handler, file, thread, polls, refused, usb>>

Cable ==
  /\ usb' = ~usb
  /\ UNCHANGED <<handler, file, thread, polls, current, refused, kernel>>

Run(t) == Wait(t) \/ Seek(t) \/ Read(t) \/ Write(t) \/ Suspend(t)

Next ==
  \/ Open \/ Create
  \/ \E t \in Threads : Run(t)
  \/ Event
  \/ Cable

Spec == Init /\ [][Next]_vars

\* A system asleep is woken sometime, and a thread that can run again and
\* again, though the system sleeps in between, does: each round of another
\* thread's loop leaves it three seconds of waking time (:71).
FairSpec == Spec /\ WF_vars(Event) /\ \A t \in Threads : SF_vars(Run(t))
----------------------------------------------------------------------------
(* Properties.                                                             *)

InLoop == {t \in Threads : thread[t] \in {"seek", "read", "write", "suspend"}}

\* A wakeup event that came after a thread read the count is slept over only
\* if the kernel refused that thread's count, or if a second command's thread
\* runs beside it and has spent its check: one thread alone, with its count
\* taken, loses no wakeup at any point of its loop.
LossHasCause ==
  \A t \in asleep : lost => refused[t] \/ Cardinality(InLoop) > 1

\* The file position the threads share keeps none of them for ever from a
\* try at suspending: while the descriptor is good, some thread gets there.
LoopSuspends ==
  InLoop # {} ~> fd # "open" \/ asleep # {} \/ \E t \in Threads : thread[t] = "suspend"

\* "write wakeup count failed." (:88), with a try from the start: a count the
\* kernel has refused, for an event that came after it was read, does not
\* lead to the suspend that it is there to prevent.
NoRefusedSuspend ==
  \A t \in asleep : refused[t] => ~lost
=============================================================================
