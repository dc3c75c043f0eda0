------------------------------- MODULE Bench --------------------------------
(***************************************************************************)
(* AT+BENCHMARK, libucpubench/ucpubench.c: benchmark_test starts one       *)
(* thread per CPU, waits for all of them, prints their scores and says     *)
(* which CPU, if any, is too slow.  The AT port and the diag port serve    *)
(* the command in two threads of one process; the time to run (exec_time)  *)
(* and the scores (ucpubench_result) are globals without a lock.           *)
(* A score is the number a thread arrives at; the computation that is      *)
(* timed, the clock and the scheduler are external.                        *)
(***************************************************************************)
EXTENDS Integers, Sequences

CONSTANTS
  Ports,    \* the ports that serve the command
  Cpus,     \* how many CPUs the system has configured
  Speeds,   \* what a thread can measure
  Half,     \* 2^31, the first number too large for an int; smaller for TLC
  Requests  \* time: the digits after "t", none for 10 seconds;
            \* diff: the number after "d", 0 for 5 percent

\* tid and ucpubench_result have this many elements; with more CPUs both are
\* written past their ends (:327, :260), which is undefined.
THREAD_MAX_NUM == 10

ASSUME BenchAssumption ==
  /\ Cpus \in 1 .. THREAD_MAX_NUM
  /\ Speeds \subseteq Nat \ {0}
  /\ Half \in Nat \ {0}
  /\ Requests \subseteq [time : Seq(0 .. 9), diff : 0 .. Half - 1]

Cpu == 0 .. Cpus - 1
Ints == -Half .. Half - 1

VARIABLES
  exec_time,         \* global: seconds each thread is to run
  ucpubench_result,  \* global: the score of each CPU, 0 for none
  port               \* what each port's handler is doing

vars == <<exec_time, ucpubench_result, port>>

Steps == {"idle", "clear", "digits", "create", "join", "scores", "verdict", "answer"}
ThreadSteps == {"none", "created", "running", "ended", "failed"}
Results == [Cpu -> Speeds \cup {0}]
NoScores == [c \in Cpu |-> 0]

Handlers ==
  [pc : Steps,
   req : Requests \cup {[time |-> <<>>, diff |-> 0]},
   left : Seq(0 .. 9),            \* the digits of its time not yet read
   next : 0 .. Cpus,              \* the index of the loops that create and join
   thread : [Cpu -> ThreadSteps],
   pthread_flag : BOOLEAN,        \* no join of the request has failed
   printed : Results,             \* the scores put into the answer
   abnormal_cpu : 0 .. Cpus,      \* the CPU it names, from 1; 0 for none
   overlap : BOOLEAN,             \* history: another request was served meanwhile;
   measured : Results,            \* until then, what its threads arrived at,
   limits : SUBSET Int]           \* and for how long they ran

IdlePort ==
  [pc |-> "idle", req |-> [time |-> <<>>, diff |-> 0], left |-> <<>>, next |-> 0,
   thread |-> [c \in Cpu |-> "none"], pthread_flag |-> TRUE,
   printed |-> NoScores, abnormal_cpu |-> 0,
   measured |-> NoScores, limits |-> {}, overlap |-> FALSE]

TypeOK ==
  /\ exec_time \in Ints
  /\ ucpubench_result \in Results
  /\ port \in [Ports -> Handlers]

Init ==
  /\ exec_time = 0
  /\ ucpubench_result = NoScores
  /\ port = [p \in Ports |-> IdlePort]

At(p, step) == port[p].pc = step

----------------------------------------------------------------------------
(* The request.                                                            *)

Receive(p, r) ==
  /\ At(p, "idle")
  /\ LET busy == {q \in Ports : ~At(q, "idle")}
     IN port' = [q \in Ports |->
          IF q = p
          THEN [port[p] EXCEPT !.pc = "clear", !.req = r, !.overlap = busy # {}]
          ELSE IF q \in busy
          THEN [port[q] EXCEPT !.overlap = TRUE, !.measured = NoScores, !.limits = {}]
          ELSE port[q]]
  /\ UNCHANGED <<exec_time, ucpubench_result>>

\* Mutation: the time of the last request is not reset.
ClearScoreOnly(p) ==
  /\ At(p, "clear")
  /\ ucpubench_result' = [ucpubench_result EXCEPT ![0] = 0]
  /\ port' = [port EXCEPT ![p].pc = "digits", ![p].left = port[p].req.time]
  /\ UNCHANGED exec_time

\* Of the array, sizeof(int) bytes are cleared, which is the first score.
Clear(p) ==
  /\ At(p, "clear")
  /\ exec_time' = 0
  /\ ucpubench_result' = [ucpubench_result EXCEPT ![0] = 0]
  /\ port' = [port EXCEPT ![p].pc = "digits", ![p].left = port[p].req.time]

\* An int as the processor wraps it around.
Wrapped(n) == ((n + Half) % (2 * Half)) - Half

\* Each digit is appended to the global as it is read.
Digit(p) ==
  /\ At(p, "digits")
  /\ port[p].left # <<>>
  /\ exec_time' = Wrapped(exec_time * 10 + Head(port[p].left))
  /\ port' = [port EXCEPT ![p].left = Tail(@)]
  /\ UNCHANGED ucpubench_result

Parsed(p) ==
  /\ At(p, "digits")
  /\ port[p].left = <<>>
  /\ port' = [port EXCEPT ![p].pc = "create"]
  /\ UNCHANGED <<exec_time, ucpubench_result>>

----------------------------------------------------------------------------
(* The threads.                                                            *)

\* The result is compared with 1, which no thread of default attributes gives
\* for an error: one that could not be started goes unnoticed.
Create(p) ==
  /\ At(p, "create")
  /\ port[p].next < Cpus
  /\ \E t \in {"created", "failed"} :
       port' = [port EXCEPT ![p].thread[port[p].next] = t, ![p].next = @ + 1]
  /\ UNCHANGED <<exec_time, ucpubench_result>>

Created(p) ==
  /\ At(p, "create")
  /\ port[p].next = Cpus
  /\ port' = [port EXCEPT ![p].pc = "join", ![p].next = 0]
  /\ UNCHANGED <<exec_time, ucpubench_result>>

Seconds(n) == IF n = 0 THEN 10 ELSE n

\* benchmark() reads the global once, when its thread gets to run.
Begin(p, c) ==
  /\ port[p].thread[c] = "created"
  /\ port' = [port EXCEPT ![p].thread[c] = "running",
                ![p].limits = IF port[p].overlap THEN @ ELSE @ \cup {Seconds(exec_time)}]
  /\ UNCHANGED <<exec_time, ucpubench_result>>

Measure(p, c) ==
  /\ port[p].thread[c] = "running"
  /\ \E s \in Speeds :
       /\ ucpubench_result' = [ucpubench_result EXCEPT ![c] = s]
       /\ port' = [port EXCEPT ![p].thread[c] = "ended",
                     ![p].measured[c] = IF port[p].overlap THEN @ ELSE s]
  /\ UNCHANGED exec_time

\* A round that took no time, or during which the clock was set back, ends
\* the thread without a score.
NoDuration(p, c) ==
  /\ port[p].thread[c] = "running"
  /\ port' = [port EXCEPT ![p].thread[c] = "ended"]
  /\ UNCHANGED <<exec_time, ucpubench_result>>

\* The thread the loop of joins has come to is in this state.
Joins(p, state) ==
  /\ At(p, "join")
  /\ port[p].next < Cpus
  /\ port[p].thread[port[p].next] = state

Join(p) ==
  /\ Joins(p, "ended")
  /\ port' = [port EXCEPT ![p].next = @ + 1]
  /\ UNCHANGED <<exec_time, ucpubench_result>>

\* Mutation: the result of the join is only logged.
JoinUnstartedUnseen(p) ==
  /\ Joins(p, "failed")
  /\ port' = [port EXCEPT ![p].next = @ + 1]
  /\ UNCHANGED <<exec_time, ucpubench_result>>

\* A thread that was not started has no handle; the join of what malloc left
\* in its place returns an error or ends the process.
JoinUnstarted(p) ==
  /\ Joins(p, "failed")
  /\ port' = [port EXCEPT ![p].next = @ + 1, ![p].pthread_flag = FALSE]
  /\ UNCHANGED <<exec_time, ucpubench_result>>

Abort(p) ==
  /\ Joins(p, "failed")
  /\ exec_time' = 0
  /\ ucpubench_result' = NoScores
  /\ port' = [q \in Ports |-> IdlePort]

Joined(p) ==
  /\ At(p, "join")
  /\ port[p].next = Cpus
  /\ port' = [port EXCEPT ![p].pc = IF port[p].pthread_flag THEN "scores" ELSE "answer"]
  /\ UNCHANGED <<exec_time, ucpubench_result>>

----------------------------------------------------------------------------
(* The answer.                                                             *)

Larger(a, b) == IF a > b THEN a ELSE b
Abs(n) == IF n < 0 THEN -n ELSE n

\* The pairs of CPUs with scores that differ by more than diff percent.
Pairs(s, diff) ==
  {p \in Cpu \X Cpu :
     /\ p[1] < p[2]
     /\ s[p[1]] # 0 /\ s[p[2]] # 0
     /\ Abs(s[p[1]] - s[p[2]]) * 100 > diff * Larger(s[p[1]], s[p[2]])}

\* Mutation: the CPU named is the faster of the two.
NameFaster(s, diff) ==
  IF Pairs(s, diff) = {} THEN 0
  ELSE LET f == CHOOSE p \in Pairs(s, diff) : TRUE
       IN IF s[f[1]] > s[f[2]] THEN f[1] + 1 ELSE f[2] + 1

\* The slower of the first pair that differs, counted from 1.
ucpubench_result_check(s, diff) ==
  IF Pairs(s, diff) = {} THEN 0
  ELSE LET f == CHOOSE p \in Pairs(s, diff) : \A q \in Pairs(s, diff) :
                  p[1] < q[1] \/ (p[1] = q[1] /\ p[2] <= q[2])
       IN IF s[f[1]] > s[f[2]] THEN f[2] + 1 ELSE f[1] + 1

Percent(d) == IF d = 0 THEN 5 ELSE d

Scores(p) ==
  /\ At(p, "scores")
  /\ port' = [port EXCEPT ![p].pc = "verdict", ![p].printed = ucpubench_result]
  /\ UNCHANGED <<exec_time, ucpubench_result>>

\* The array is read once more.
Verdict(p) ==
  /\ At(p, "verdict")
  /\ port' = [port EXCEPT ![p].pc = "answer",
                ![p].abnormal_cpu = ucpubench_result_check(ucpubench_result,
                                                           Percent(port[p].req.diff))]
  /\ UNCHANGED <<exec_time, ucpubench_result>>

Answer(p) ==
  /\ At(p, "answer")
  /\ port' = [port EXCEPT ![p] = IdlePort]
  /\ UNCHANGED <<exec_time, ucpubench_result>>

----------------------------------------------------------------------------
Handle(p) ==
  \/ Clear(p) \/ Digit(p) \/ Parsed(p) \/ Create(p) \/ Created(p)
  \/ Join(p) \/ JoinUnstarted(p) \/ Abort(p) \/ Joined(p)
  \/ Scores(p) \/ Verdict(p) \/ Answer(p)

Run(p, c) == Begin(p, c) \/ Measure(p, c) \/ NoDuration(p, c)

Next ==
  \E p \in Ports :
    \/ \E r \in Requests : Receive(p, r)
    \/ Handle(p)
    \/ \E c \in Cpu : Run(p, c)

Spec == Init /\ [][Next]_vars
----------------------------------------------------------------------------
(* Properties.                                                             *)

Answered(p) == At(p, "answer") /\ port[p].pthread_flag

\* What the digits of a request mean.
Number(digits) ==
  LET n[i \in 0 .. Len(digits)] == IF i = 0 THEN 0 ELSE n[i - 1] * 10 + digits[i]
  IN n[Len(digits)]

\* A request that no other overlaps is answered with what its own threads
\* measured, each of them running for the time it asked for, if an int can
\* hold that: how many digits it has is not looked at.  A score left by
\* an earlier request shows only for a CPU, not the first, whose thread ended
\* without one: of the array only the first score is cleared (:290).
OwnScores ==
  \A p \in Ports : Answered(p) /\ ~port[p].overlap =>
    /\ LET asked == Number(port[p].req.time)
       IN asked < Half => port[p].limits = {Seconds(asked)}
    /\ \A c \in Cpu : port[p].printed[c] # port[p].measured[c] =>
                        port[p].measured[c] = 0 /\ c # 0

\* Under the same condition the verdict is right about what was measured: a
\* CPU is named only if it is more than diff percent slower than another one
\* in the answer, and none only if no two of the threads' own scores are so
\* far apart.
VerdictTells ==
  \A p \in Ports : Answered(p) /\ ~port[p].overlap =>
    LET Slower(s, a, b) == s[a] * 100 < s[b] * (100 - Percent(port[p].req.diff))
        own == port[p].measured
        cpu == port[p].abnormal_cpu
    IN IF cpu = 0 THEN \A a, b \in Cpu : own[a] # 0 => ~Slower(own, a, b)
       ELSE \E b \in Cpu : Slower(port[p].printed, cpu - 1, b)

\* Scores are answered only if every thread was started and has ended, though
\* nobody looks at what pthread_create returns; and no thread outlives its
\* request, whose stack holds the CPU number (tid) it works with.
ThreadsJoined ==
  \A p \in Ports :
    /\ At(p, "scores") \/ At(p, "verdict") \/ Answered(p) =>
         \A c \in Cpu : port[p].thread[c] = "ended"
    /\ At(p, "answer") => \A c \in Cpu : port[p].thread[c] \in {"ended", "failed"}
=============================================================================
