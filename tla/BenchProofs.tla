----------------------------- MODULE BenchProofs ----------------------------
(***************************************************************************)
(* Theorems about Bench, for any ports, number of CPUs, speeds and         *)
(* requests.                                                               *)
(***************************************************************************)
EXTENDS Bench, WellFoundedInduction, TLAPS

Started == {"created", "running", "ended", "failed"}

\* How far a handler h has come with its threads: those before the loop's
\* index are started (or could not be), then joined (or could not be); the
\* flag tells whether all of them could.
Progress(h) ==
  /\ h.pc \in {"idle", "clear", "digits"} => h.next = 0
  /\ h.pc \in {"idle", "clear", "digits", "create"} => h.pthread_flag
  /\ h.pc = "create" => \A c \in Cpu : c < h.next => h.thread[c] \in Started
  /\ h.pc = "join" =>
       \A c \in Cpu : c < h.next =>
         h.thread[c] = "ended" \/ (h.thread[c] = "failed" /\ ~h.pthread_flag)
  /\ h.pc \in {"scores", "verdict", "answer"} =>
       \A c \in Cpu : h.thread[c] = "ended" \/ (h.thread[c] = "failed" /\ ~h.pthread_flag)
  /\ h.pc \in {"scores", "verdict"} => h.pthread_flag

IInv == TypeOK /\ \A p \in Ports : Progress(port[p])

LEMMA CpuFacts == Cpus \in Nat \ {0} /\ Cpu \subseteq Nat /\ 0 \in 0 .. Cpus
                  /\ \A c \in Cpu : c < Cpus
BY BenchAssumption DEF Cpu, THREAD_MAX_NUM

LEMMA IntsFacts == 0 \in Ints /\ Ints \subseteq Int /\ Half \in Nat \ {0}
BY BenchAssumption DEF Ints

----------------------------------------------------------------------------
(* What the operators of the model compute.                                *)

LEMMA Least ==
  ASSUME NEW T \in SUBSET Nat, T # {}
  PROVE  \E n \in T : \A m \in T : n <= m
<1> DEFINE R == OpToRel(<, Nat)
<1>1. IsWellFoundedOn(R, Nat)
  BY NatLessThanWellFounded
<1>2. PICK n \in T : \A m \in T : ~(<<m, n>> \in R)
  <2> HIDE DEF R
  <2>1. QED
    BY <1>1, WFMin
<1>3. \A m \in T : ~(m < n)
  BY <1>2 DEF OpToRel
<1>4. QED
  BY <1>3

LEMMA Induction ==
  ASSUME NEW S \in SUBSET Nat, 0 \in S, \A n \in S : n + 1 \in S
  PROVE  S = Nat
<1> SUFFICES ASSUME Nat \ S # {} PROVE FALSE
  OBVIOUS
<1>1. PICK n \in Nat \ S : \A m \in Nat \ S : n <= m
  BY Least
<1>2. n - 1 \in Nat /\ n - 1 < n /\ n = (n - 1) + 1
  BY <1>1
<1>3. n - 1 \in S
  BY <1>1, <1>2
<1>4. QED
  BY <1>1, <1>2, <1>3

\* The values of the prefixes of a row of digits.
Values(digits) ==
  CHOOSE n : n = [i \in 0 .. Len(digits) |->
                    IF i = 0 THEN 0 ELSE n[i - 1] * 10 + digits[i]]

LEMMA ValuesExist ==
  ASSUME NEW d \in Seq(0 .. 9)
  PROVE  /\ Values(d) \in [0 .. Len(d) -> Nat]
         /\ Values(d) = [i \in 0 .. Len(d) |->
                           IF i = 0 THEN 0 ELSE Values(d)[i - 1] * 10 + d[i]]
<1> DEFINE Body(f, k) == [i \in 0 .. k |-> IF i = 0 THEN 0 ELSE f[i - 1] * 10 + d[i]]
           S == {k \in Nat : k <= Len(d) => \E f \in [0 .. k -> Nat] : f = Body(f, k)}
<1>1. Len(d) \in Nat /\ \A i \in 1 .. Len(d) : d[i] \in 0 .. 9
  OBVIOUS
<1>2. 0 \in S
  <2> DEFINE f == [i \in 0 .. 0 |-> 0]
  <2>1. f \in [0 .. 0 -> Nat] /\ f = Body(f, 0)
    OBVIOUS
  <2>2. QED
    BY <2>1
<1>3. ASSUME NEW k \in S PROVE k + 1 \in S
  <2>1. k \in Nat
    OBVIOUS
  <2> HIDE DEF Body
  <2> SUFFICES ASSUME k + 1 <= Len(d)
               PROVE  \E g \in [0 .. k + 1 -> Nat] : g = Body(g, k + 1)
    BY <2>1, SMT
  <2> USE DEF Body
  <2>2. PICK f \in [0 .. k -> Nat] : f = Body(f, k)
    BY <1>1, <1>3, <2>1
  <2> DEFINE g == [i \in 0 .. k + 1 |-> IF i = k + 1 THEN f[k] * 10 + d[k + 1] ELSE f[i]]
  <2>3. f[k] \in Nat /\ d[k + 1] \in 0 .. 9
    BY <1>1, <2>1
  <2>4. f[k] * 10 + d[k + 1] \in Nat
    BY <2>3
  <2>5. g \in [0 .. k + 1 -> Nat]
    BY <2>1, <2>4
  <2>6. \A i \in 0 .. k + 1 : g[i] = Body(g, k + 1)[i]
    <3> SUFFICES ASSUME NEW i \in 0 .. k + 1
                 PROVE  g[i] = IF i = 0 THEN 0 ELSE g[i - 1] * 10 + d[i]
      OBVIOUS
    <3>1. CASE i = k + 1
      BY <2>1, <3>1
    <3>2. CASE i # k + 1
      <4>1. i \in 0 .. k /\ g[i] = f[i] /\ (i # 0 => g[i - 1] = f[i - 1])
        BY <2>1, <3>2
      <4>2. f[i] = Body(f, k)[i]
        BY <2>2
      <4>3. QED
        BY <4>1, <4>2
    <3>3. QED
      BY <3>1, <3>2
  <2>7. g = Body(g, k + 1)
    BY <2>6
  <2>8. QED
    BY <2>5, <2>7
<1>4. Len(d) \in S
  <2> HIDE DEF S
  <2>1. S \in SUBSET Nat
    BY DEF S
  <2>2. S = Nat
    BY <1>2, <1>3, <2>1, Induction
  <2>3. QED
    BY <1>1, <2>2
<1>5. PICK f \in [0 .. Len(d) -> Nat] : f = Body(f, Len(d))
  BY <1>1, <1>4
<1>6. Values(d) = Body(Values(d), Len(d))
  BY <1>5 DEF Values
<1>7. \A i \in 0 .. Len(d) : Values(d)[i] \in Nat
  <2> DEFINE V == Values(d)
             P == {k \in Nat : k <= Len(d) => V[k] \in Nat}
  <2>1. \A i \in 0 .. Len(d) : V[i] = IF i = 0 THEN 0 ELSE V[i - 1] * 10 + d[i]
    BY <1>6
  <2> HIDE DEF V
  <2>2. 0 \in P
    BY <1>1, <2>1
  <2>3. ASSUME NEW k \in P PROVE k + 1 \in P
    <3> SUFFICES ASSUME k + 1 <= Len(d) PROVE V[k + 1] \in Nat
      OBVIOUS
    <3>1. k \in Nat /\ V[k] \in Nat /\ d[k + 1] \in 0 .. 9 /\ (k + 1) - 1 = k
      BY <1>1
    <3>2. V[k + 1] = V[k] * 10 + d[k + 1]
      BY <1>1, <2>1, <3>1
    <3>3. QED
      BY <3>1, <3>2
  <2>4. P = Nat
    <3>1. P \in SUBSET Nat
      OBVIOUS
    <3> HIDE DEF P
    <3>2. QED
      BY <2>2, <2>3, <3>1, Induction
  <2>5. QED
    BY <1>1, <2>4 DEF V
<1>8. Values(d) \in [0 .. Len(d) -> Nat]
  BY <1>6, <1>7
<1>9. QED
  BY <1>6, <1>8

LEMMA NumberFacts ==
  ASSUME NEW d \in Seq(0 .. 9)
  PROVE  /\ Number(d) = Values(d)[Len(d)] /\ Number(d) \in Nat
         /\ Values(d)[0] = 0
         /\ \A k \in 0 .. Len(d) : k < Len(d) =>
              Values(d)[k + 1] = Values(d)[k] * 10 + d[k + 1]
<1>1. Len(d) \in Nat
  OBVIOUS
<1>2. Number(d) = Values(d)[Len(d)]
  BY DEF Number, Values
<1>3. \A i \in 0 .. Len(d) : Values(d)[i] = IF i = 0 THEN 0 ELSE Values(d)[i - 1] * 10 + d[i]
  BY ValuesExist
<1>4. Values(d)[0] = 0 /\ Values(d)[Len(d)] \in Nat
  BY <1>1, <1>3, ValuesExist
<1>5. ASSUME NEW k \in 0 .. Len(d), k < Len(d)
      PROVE  Values(d)[k + 1] = Values(d)[k] * 10 + d[k + 1]
  <2>1. k + 1 \in 0 .. Len(d) /\ k + 1 # 0 /\ (k + 1) - 1 = k
    BY <1>1, <1>5
  <2>2. QED
    BY <1>3, <2>1
<1>6. QED
  BY <1>2, <1>4, <1>5

\* The number of some of the digits is not above the number of all.
LEMMA PrefixBelow ==
  ASSUME NEW d \in Seq(0 .. 9), NEW k \in 0 .. Len(d)
  PROVE  Values(d)[k] \in Nat /\ Values(d)[k] <= Number(d)
<1> DEFINE V == Values(d)
           P == {j \in Nat : j <= Len(d) => V[Len(d) - j] <= V[Len(d)]}
<1>1. /\ Len(d) \in Nat /\ \A i \in 1 .. Len(d) : d[i] \in 0 .. 9
      /\ \A i \in 0 .. Len(d) : V[i] \in Nat
  <2>1. Len(d) \in Nat /\ \A i \in 1 .. Len(d) : d[i] \in 0 .. 9
    OBVIOUS
  <2>2. V \in [0 .. Len(d) -> Nat]
    BY ValuesExist
  <2> HIDE DEF V
  <2>3. QED
    BY <2>1, <2>2
<1>2. \A i \in 0 .. Len(d) : i < Len(d) => V[i + 1] = V[i] * 10 + d[i + 1]
  BY NumberFacts
<1> HIDE DEF V
<1>3. 0 \in P
  BY <1>1
<1>4. ASSUME NEW j \in P PROVE j + 1 \in P
  <2>1. j \in Nat
    OBVIOUS
  <2> SUFFICES ASSUME j + 1 <= Len(d) PROVE V[Len(d) - (j + 1)] <= V[Len(d)]
    BY <2>1
  <2> DEFINE i == Len(d) - (j + 1)
  <2>2. i \in 0 .. Len(d) /\ i < Len(d) /\ i + 1 = Len(d) - j /\ i + 1 \in 1 .. Len(d)
    BY <1>1, <2>1
  <2>3. V[i + 1] <= V[Len(d)]
    BY <2>1, <2>2
  <2> HIDE DEF i
  <2>4. V[i] <= V[i + 1] /\ V[i] \in Nat /\ V[i + 1] \in Nat /\ V[Len(d)] \in Nat
    <3>1. V[i] \in Nat /\ V[i + 1] \in Nat /\ V[Len(d)] \in Nat /\ d[i + 1] \in 0 .. 9
      BY <1>1, <2>2
    <3>2. V[i + 1] = V[i] * 10 + d[i + 1]
      BY <1>2, <2>2
    <3>3. \A x \in Nat, y \in 0 .. 9 : x <= x * 10 + y
      OBVIOUS
    <3>4. V[i] <= V[i] * 10 + d[i + 1]
      BY <3>1, <3>3, Zenon
    <3>5. QED
      BY <3>1, <3>2, <3>4, Zenon
  <2>5. QED
    BY <2>3, <2>4 DEF i
<1>5. P = Nat
  <2>1. P \in SUBSET Nat
    OBVIOUS
  <2> HIDE DEF P
  <2>2. QED
    BY <1>3, <1>4, <2>1, Induction
<1>6. Len(d) - k \in Nat /\ Len(d) - (Len(d) - k) = k /\ Len(d) - k <= Len(d)
  BY <1>1
<1>7. V[k] <= V[Len(d)]
  BY <1>5, <1>6
<1>8. QED
  BY <1>1, <1>7, NumberFacts DEF V

\* An int stays what it is.
LEMMA WrappedFacts ==
  ASSUME NEW n \in Int
  PROVE  Wrapped(n) \in Ints /\ (n \in 0 .. Half - 1 => Wrapped(n) = n)
<1> DEFINE w == 2 * Half
           m == n + Half
<1>1. Half \in Nat \ {0} /\ w \in Nat \ {0} /\ m \in Int
  BY BenchAssumption
<1>2. Wrapped(n) = (m % w) - Half
  BY DEF Wrapped
<1>3. w = Half + Half
  BY <1>1
<1> HIDE DEF w, m
<1>4. m % w \in 0 .. w - 1
  BY <1>1
<1>5. m \in 0 .. w - 1 => m % w = m
  BY <1>1
<1>6. n \in 0 .. Half - 1 => m \in 0 .. w - 1
  BY <1>1, <1>3 DEF m
<1>7. QED
  BY <1>1, <1>2, <1>3, <1>4, <1>5, <1>6 DEF m, Ints

LEMMA RequestFacts ==
  ASSUME NEW r \in Requests \cup {[time |-> <<>>, diff |-> 0]}
  PROVE  r.time \in Seq(0 .. 9) /\ r.diff \in Nat /\ Percent(r.diff) \in Nat
<1>1. CASE r \in Requests
  <2>1. r \in [time : Seq(0 .. 9), diff : 0 .. Half - 1]
    BY <1>1, BenchAssumption
  <2>2. QED
    BY <2>1 DEF Percent
<1>2. CASE r = [time |-> <<>>, diff |-> 0]
  <2>1. r.time = <<>> /\ r.diff = 0
    BY <1>2
  <2>2. QED
    BY <2>1 DEF Percent
<1>3. QED
  BY <1>1, <1>2

First(P, f) == \A q \in P : f[1] < q[1] \/ (f[1] = q[1] /\ f[2] <= q[2])

\* Of any set of pairs of CPUs there is one that comes first.
LEMMA FirstPair ==
  ASSUME NEW P \in SUBSET (Cpu \X Cpu), P # {}
  PROVE  \E f \in P : First(P, f)
<1> DEFINE A == {n \in Nat : \E q \in P : q[1] = n}
<1>1. ASSUME NEW q \in P PROVE q[1] \in Nat /\ q[2] \in Nat /\ q = <<q[1], q[2]>>
  <2>1. q \in Cpu \X Cpu
    OBVIOUS
  <2>2. q[1] \in Cpu /\ q[2] \in Cpu /\ q = <<q[1], q[2]>>
    BY <2>1
  <2>3. QED
    BY <2>2, CpuFacts
<1>2. A \in SUBSET Nat /\ A # {}
  BY <1>1
<1>3. PICK a \in A : \A m \in A : a <= m
  <2> HIDE DEF A
  <2>1. QED
    BY <1>2, Least
<1> DEFINE B == {n \in Nat : <<a, n>> \in P}
<1>4. B \in SUBSET Nat /\ B # {}
  BY <1>1
<1>5. PICK b \in B : \A m \in B : b <= m
  <2> HIDE DEF B
  <2>1. QED
    BY <1>4, Least
<1>6. <<a, b>> \in P
  OBVIOUS
<1>7. ASSUME NEW q \in P PROVE a < q[1] \/ (a = q[1] /\ b <= q[2])
  <2>1. q[1] \in A /\ a <= q[1] /\ a \in Nat
    BY <1>1, <1>3
  <2>2. CASE a = q[1]
    BY <1>1, <1>5, <2>2
  <2>3. QED
    BY <1>1, <2>1, <2>2
<1>8. QED
  BY <1>6, <1>7 DEF First

\* What the verdict is: 0 if there is no pair too far apart, otherwise the
\* slower of the two of one pair that is.
LEMMA CheckFacts ==
  ASSUME NEW s \in Results, NEW d \in Nat
  PROVE  /\ ucpubench_result_check(s, d) \in 0 .. Cpus
         /\ ucpubench_result_check(s, d) = 0 => Pairs(s, d) = {}
         /\ ucpubench_result_check(s, d) # 0 =>
              \E f \in Pairs(s, d) :
                ucpubench_result_check(s, d) = IF s[f[1]] > s[f[2]] THEN f[2] + 1 ELSE f[1] + 1
<1>1. CASE Pairs(s, d) = {}
  BY <1>1, CpuFacts DEF ucpubench_result_check
<1>2. CASE Pairs(s, d) # {}
  <2> DEFINE f == CHOOSE p \in Pairs(s, d) : \A q \in Pairs(s, d) :
                    p[1] < q[1] \/ (p[1] = q[1] /\ p[2] <= q[2])
  <2>1. Pairs(s, d) \in SUBSET (Cpu \X Cpu)
    BY DEF Pairs
  <2>2. f \in Pairs(s, d)
    BY <1>2, <2>1, FirstPair DEF First
  <2>3. ucpubench_result_check(s, d) = IF s[f[1]] > s[f[2]] THEN f[2] + 1 ELSE f[1] + 1
    BY <1>2 DEF ucpubench_result_check
  <2> HIDE DEF f
  <2>4. f[1] + 1 \in 1 .. Cpus /\ f[2] + 1 \in 1 .. Cpus
    BY <2>1, <2>2, BenchAssumption DEF Cpu
  <2>5. QED
    BY <2>2, <2>3, <2>4
<1>3. QED
  BY <1>1, <1>2

\* Two scores are too far apart if the smaller one is below the larger one's
\* share, and only then.
LEMMA Apart ==
  ASSUME NEW x \in Nat, NEW y \in Nat, NEW d \in Nat
  PROVE  /\ x * 100 < y * (100 - d) => x < y /\ Abs(x - y) * 100 > d * Larger(x, y)
                                           /\ Abs(y - x) * 100 > d * Larger(y, x)
         /\ x <= y /\ (Abs(x - y) * 100 > d * Larger(x, y) \/ Abs(y - x) * 100 > d * Larger(y, x))
              => x * 100 < y * (100 - d)
<1>1. d * y \in Nat /\ y * (100 - d) = y * 100 - d * y
  OBVIOUS
<1>2. x <= y => Abs(x - y) = y - x /\ Abs(y - x) = y - x /\ Larger(x, y) = y /\ Larger(y, x) = y
  BY DEF Abs, Larger
<1>3. (y - x) * 100 = y * 100 - x * 100
  OBVIOUS
<1>4. QED
  BY <1>1, <1>2, <1>3

----------------------------------------------------------------------------
(* The types and the threads.                                              *)

LEMMA IdleFacts == IdlePort \in Handlers /\ Progress(IdlePort)
<1>1. NoScores \in Results
  BY DEF NoScores, Results
<1>2. [c \in Cpu |-> "none"] \in [Cpu -> ThreadSteps]
  BY DEF ThreadSteps
<1>3. <<>> \in Seq(0 .. 9) /\ {} \in SUBSET Int /\ 0 \in 0 .. Cpus
  BY CpuFacts
<1>4. IdlePort \in Handlers
  BY <1>1, <1>2, <1>3 DEF IdlePort, Handlers, Steps
<1>5. Progress(IdlePort)
  BY DEF IdlePort, Progress
<1>6. QED
  BY <1>4, <1>5

LEMMA InitIInv == Init => IInv
BY IdleFacts, IntsFacts DEF Init, IInv, TypeOK, NoScores, Results

\* A step of one port: its handler becomes h, the globals keep their types.
LEMMA OneStep ==
  ASSUME IInv, NEW p \in Ports, NEW h \in Handlers, Progress(h),
         port' = [port EXCEPT ![p] = h],
         exec_time' \in Ints, ucpubench_result' \in Results
  PROVE  IInv'
BY DEF IInv, TypeOK

LEMMA ThreadsJoinedFromIInv == IInv => ThreadsJoined
<1> SUFFICES ASSUME IInv, NEW p \in Ports
             PROVE  /\ At(p, "scores") \/ At(p, "verdict") \/ Answered(p) =>
                         \A c \in Cpu : port[p].thread[c] = "ended"
                    /\ At(p, "answer") => \A c \in Cpu : port[p].thread[c] \in {"ended", "failed"}
  BY DEF ThreadsJoined
<1>1. Progress(port[p])
  BY DEF IInv
<1>2. QED
  BY <1>1 DEF Progress, At, Answered

\* A request arrives: its port starts, the busy ones learn of it.
LEMMA ReceiveIInv ==
  ASSUME IInv, NEW p \in Ports, NEW r \in Requests, Receive(p, r)
  PROVE  IInv'
<1> DEFINE busy == {q \in Ports : ~At(q, "idle")}
           h(q) == IF q = p
                   THEN [port[p] EXCEPT !.pc = "clear", !.req = r, !.overlap = busy # {}]
                   ELSE IF q \in busy
                   THEN [port[q] EXCEPT !.overlap = TRUE, !.measured = NoScores, !.limits = {}]
                   ELSE port[q]
<1>1. port' = [q \in Ports |-> h(q)] /\ UNCHANGED <<exec_time, ucpubench_result>>
  BY DEF Receive
<1>2. NoScores \in Results /\ {} \in SUBSET Int
  BY DEF NoScores, Results
<1>3. (busy # {}) \in BOOLEAN
  OBVIOUS
<1> HIDE DEF busy
<1>4. ASSUME NEW q \in Ports PROVE h(q) \in Handlers /\ Progress(h(q))
  <2>1. port[q] \in Handlers /\ Progress(port[q])
    BY DEF IInv, TypeOK
  <2>2. CASE q = p
    <3>1. h(q) = [port[q] EXCEPT !.pc = "clear", !.req = r, !.overlap = busy # {}]
      BY <2>2
    <3>2. h(q) \in Handlers
      BY <1>3, <2>1, <3>1 DEF Handlers, Steps
    <3>3. port[q].pc = "idle"
      BY <2>2 DEF Receive, At
    <3>4. h(q).pc = "clear" /\ h(q).next = port[q].next /\ h(q).pthread_flag = port[q].pthread_flag
      BY <2>1, <3>1 DEF Handlers
    <3> HIDE DEF h
    <3>5. QED
      BY <2>1, <3>2, <3>3, <3>4 DEF Progress
  <2>3. CASE q # p /\ q \in busy
    <3>1. h(q) = [port[q] EXCEPT !.overlap = TRUE, !.measured = NoScores, !.limits = {}]
      BY <2>3
    <3>2. h(q) \in Handlers
      BY <1>2, <2>1, <3>1 DEF Handlers
    <3>3. /\ h(q).pc = port[q].pc /\ h(q).next = port[q].next /\ h(q).thread = port[q].thread
          /\ h(q).pthread_flag = port[q].pthread_flag
      BY <2>1, <3>1 DEF Handlers
    <3> HIDE DEF h
    <3>4. QED
      BY <2>1, <3>2, <3>3 DEF Progress
  <2>4. CASE q # p /\ q \notin busy
    BY <2>1, <2>4
  <2>5. QED
    BY <2>2, <2>3, <2>4
<1> HIDE DEF h
<1>5. QED
  BY <1>1, <1>4 DEF IInv, TypeOK

\* The request is parsed: nothing has been started.
LEMMA ParseIInv ==
  ASSUME IInv, NEW p \in Ports, Clear(p) \/ Digit(p) \/ Parsed(p)
  PROVE  IInv'
<1>1. port[p] \in Handlers /\ Progress(port[p])
  BY DEF IInv, TypeOK
<1>2. CASE Clear(p)
  <2> DEFINE h == [port[p] EXCEPT !.pc = "digits", !.left = port[p].req.time]
  <2>1. port[p].req.time \in Seq(0 .. 9)
    BY <1>1, RequestFacts DEF Handlers
  <2>2. h \in Handlers
    BY <1>1, <2>1 DEF Handlers, Steps
  <2>3. /\ h.pc = "digits" /\ h.next = port[p].next /\ h.pthread_flag = port[p].pthread_flag
        /\ port[p].pc = "clear"
    BY <1>1, <1>2 DEF Handlers, Clear, At
  <2>4. port' = [port EXCEPT ![p] = h] /\ exec_time' \in Ints
    BY <1>2, IntsFacts DEF Clear
  <2>5. ucpubench_result' \in Results
    BY <1>2 DEF Clear, IInv, TypeOK, Results
  <2> HIDE DEF h
  <2>6. Progress(h)
    BY <1>1, <2>3 DEF Progress
  <2>7. QED
    BY <2>2, <2>4, <2>5, <2>6, OneStep
<1>3. CASE Digit(p)
  <2> DEFINE h == [port[p] EXCEPT !.left = Tail(@)]
  <2>1. port[p].left \in Seq(0 .. 9) /\ port[p].left # <<>> /\ port[p].pc = "digits"
    BY <1>1, <1>3 DEF Handlers, Digit, At
  <2>2. Tail(port[p].left) \in Seq(0 .. 9) /\ Head(port[p].left) \in 0 .. 9
    BY <2>1
  <2>3. h \in Handlers
    BY <1>1, <2>2 DEF Handlers
  <2>4. h.pc = "digits" /\ h.next = port[p].next /\ h.pthread_flag = port[p].pthread_flag
    BY <1>1, <2>1 DEF Handlers
  <2>5. port' = [port EXCEPT ![p] = h] /\ UNCHANGED ucpubench_result
    BY <1>3 DEF Digit
  <2>6. exec_time' \in Ints
    <3>1. exec_time \in Int /\ exec_time' = Wrapped(exec_time * 10 + Head(port[p].left))
      BY <1>3, IntsFacts DEF Digit, IInv, TypeOK
    <3>2. exec_time * 10 + Head(port[p].left) \in Int
      BY <2>2, <3>1
    <3>3. QED
      BY <3>1, <3>2, WrappedFacts
  <2> HIDE DEF h
  <2>7. Progress(h)
    BY <1>1, <2>1, <2>4 DEF Progress
  <2>8. QED
    BY <2>3, <2>5, <2>6, <2>7, OneStep DEF IInv, TypeOK
<1>4. CASE Parsed(p)
  <2> DEFINE h == [port[p] EXCEPT !.pc = "create"]
  <2>1. h \in Handlers
    BY <1>1 DEF Handlers, Steps
  <2>2. /\ h.pc = "create" /\ h.next = port[p].next /\ h.pthread_flag = port[p].pthread_flag
        /\ h.thread = port[p].thread /\ port[p].pc = "digits"
    BY <1>1, <1>4 DEF Handlers, Parsed, At
  <2>3. port' = [port EXCEPT ![p] = h] /\ UNCHANGED <<exec_time, ucpubench_result>>
    BY <1>4 DEF Parsed
  <2> HIDE DEF h
  <2>4. Progress(h)
    BY <1>1, <2>2, CpuFacts DEF Progress
  <2>5. QED
    BY <2>1, <2>3, <2>4, OneStep DEF IInv, TypeOK
<1>5. QED
  BY <1>2, <1>3, <1>4

\* The loops that create the threads and join them.
LEMMA LoopIInv ==
  ASSUME IInv, NEW p \in Ports,
         Create(p) \/ Created(p) \/ Join(p) \/ JoinUnstarted(p) \/ Joined(p)
  PROVE  IInv'
<1>1. port[p] \in Handlers /\ Progress(port[p]) /\ port[p].next \in 0 .. Cpus
  BY DEF IInv, TypeOK, Handlers
<1>2. UNCHANGED <<exec_time, ucpubench_result>> /\ exec_time \in Ints /\ ucpubench_result \in Results
  BY DEF Create, Created, Join, JoinUnstarted, Joined, IInv, TypeOK
<1>3. port[p].next < Cpus => port[p].next + 1 \in 0 .. Cpus /\ port[p].next \in Cpu
  BY <1>1, CpuFacts DEF Cpu
<1>4. \A c \in Cpu : c < port[p].next + 1 => c < port[p].next \/ c = port[p].next
  BY <1>1, CpuFacts
<1>5. CASE Create(p)
  <2>1. PICK t \in {"created", "failed"} :
          port' = [port EXCEPT ![p].thread[port[p].next] = t, ![p].next = @ + 1]
    BY <1>5 DEF Create
  <2> DEFINE threads == [port[p].thread EXCEPT ![port[p].next] = t]
             h == [port[p] EXCEPT !.thread = threads, !.next = @ + 1]
  <2>2. port[p].pc = "create" /\ port[p].next < Cpus
    BY <1>5 DEF Create, At
  <2>3. threads \in [Cpu -> ThreadSteps] /\ \A c \in Cpu : threads[c] \in {t, port[p].thread[c]}
          /\ threads[port[p].next] = t
    BY <1>1, <1>3, <2>2 DEF Handlers, ThreadSteps
  <2>4. port' = [port EXCEPT ![p] = h]
    BY <2>1
  <2> HIDE DEF threads
  <2>5. h \in Handlers
    BY <1>1, <1>3, <2>2, <2>3 DEF Handlers
  <2>6. /\ h.pc = "create" /\ h.next = port[p].next + 1 /\ h.thread = threads
        /\ h.pthread_flag = port[p].pthread_flag
    BY <1>1, <2>2 DEF Handlers
  <2> HIDE DEF h
  <2>7. Progress(h)
    BY <1>1, <1>4, <2>2, <2>3, <2>6 DEF Progress, Started
  <2>8. QED
    BY <1>2, <2>4, <2>5, <2>7, OneStep
<1>6. CASE Created(p)
  <2> DEFINE h == [port[p] EXCEPT !.pc = "join", !.next = 0]
  <2>1. h \in Handlers
    BY <1>1, CpuFacts DEF Handlers, Steps
  <2>2. h.pc = "join" /\ h.next = 0
    BY <1>1 DEF Handlers
  <2>3. port' = [port EXCEPT ![p] = h]
    BY <1>6 DEF Created
  <2> HIDE DEF h
  <2>4. Progress(h)
    BY <2>2, CpuFacts DEF Progress
  <2>5. QED
    BY <1>2, <2>1, <2>3, <2>4, OneStep
<1>7. CASE Join(p)
  <2> DEFINE h == [port[p] EXCEPT !.next = @ + 1]
  <2>1. port[p].pc = "join" /\ port[p].next < Cpus /\ port[p].thread[port[p].next] = "ended"
    BY <1>7 DEF Join, Joins, At
  <2>2. h \in Handlers
    BY <1>1, <1>3, <2>1 DEF Handlers
  <2>3. /\ h.pc = "join" /\ h.next = port[p].next + 1 /\ h.thread = port[p].thread
        /\ h.pthread_flag = port[p].pthread_flag
    BY <1>1, <2>1 DEF Handlers
  <2>4. port' = [port EXCEPT ![p] = h]
    BY <1>7 DEF Join
  <2> HIDE DEF h
  <2>5. Progress(h)
    BY <1>1, <1>4, <2>1, <2>3 DEF Progress
  <2>6. QED
    BY <1>2, <2>2, <2>4, <2>5, OneStep
<1>8. CASE JoinUnstarted(p)
  <2> DEFINE h == [port[p] EXCEPT !.next = @ + 1, !.pthread_flag = FALSE]
  <2>1. port[p].pc = "join" /\ port[p].next < Cpus /\ port[p].thread[port[p].next] = "failed"
    BY <1>8 DEF JoinUnstarted, Joins, At
  <2>2. h \in Handlers
    BY <1>1, <1>3, <2>1 DEF Handlers
  <2>3. /\ h.pc = "join" /\ h.next = port[p].next + 1 /\ h.thread = port[p].thread
        /\ ~h.pthread_flag
    BY <1>1, <2>1 DEF Handlers
  <2>4. port' = [port EXCEPT ![p] = h]
    BY <1>8 DEF JoinUnstarted
  <2> HIDE DEF h
  <2>5. Progress(h)
    BY <1>1, <1>4, <2>1, <2>3 DEF Progress
  <2>6. QED
    BY <1>2, <2>2, <2>4, <2>5, OneStep
<1>9. CASE Joined(p)
  <2> DEFINE h == [port[p] EXCEPT !.pc = IF port[p].pthread_flag THEN "scores" ELSE "answer"]
  <2>1. port[p].pc = "join" /\ port[p].next = Cpus
    BY <1>9 DEF Joined, At
  <2>2. h \in Handlers
    BY <1>1 DEF Handlers, Steps
  <2>3. /\ h.pc = IF port[p].pthread_flag THEN "scores" ELSE "answer"
        /\ h.thread = port[p].thread /\ h.pthread_flag = port[p].pthread_flag
    BY <1>1 DEF Handlers
  <2>4. port' = [port EXCEPT ![p] = h]
    BY <1>9 DEF Joined
  <2> HIDE DEF h
  <2>5. Progress(h)
    BY <1>1, <2>1, <2>3, CpuFacts DEF Progress
  <2>6. QED
    BY <1>2, <2>2, <2>4, <2>5, OneStep
<1>10. QED
  BY <1>5, <1>6, <1>7, <1>8, <1>9

\* A thread runs; one that has ended, or was not started, does not change.
LEMMA RunIInv ==
  ASSUME IInv, NEW p \in Ports, NEW c \in Cpu, Run(p, c)
  PROVE  IInv'
<1>1. port[p] \in Handlers /\ Progress(port[p])
  BY DEF IInv, TypeOK
<1>2. ASSUME NEW h \in Handlers, h.pc = port[p].pc, h.next = port[p].next,
             h.pthread_flag = port[p].pthread_flag,
             \A d \in Cpu : \/ h.thread[d] = port[p].thread[d]
                            \/ /\ port[p].thread[d] \in {"created", "running"}
                               /\ h.thread[d] \in Started
      PROVE  Progress(h)
  BY <1>1, <1>2 DEF Progress
<1>3. CASE Begin(p, c)
  <2> DEFINE threads == [port[p].thread EXCEPT ![c] = "running"]
             l == IF port[p].overlap THEN port[p].limits
                  ELSE port[p].limits \cup {Seconds(exec_time)}
             h == [port[p] EXCEPT !.thread = threads, !.limits = l]
  <2>1. l \in SUBSET Int
    BY <1>1, IntsFacts DEF Handlers, Seconds, IInv, TypeOK
  <2>2. threads \in [Cpu -> ThreadSteps]
    BY <1>1 DEF Handlers, ThreadSteps
  <2>3. port' = [port EXCEPT ![p] = h] /\ UNCHANGED <<exec_time, ucpubench_result>>
    BY <1>3 DEF Begin
  <2>4. \A d \in Cpu : threads[d] = port[p].thread[d]
                         \/ (port[p].thread[d] = "created" /\ threads[d] = "running")
    <3>1. port[p].thread[c] = "created"
      BY <1>3 DEF Begin
    <3>2. port[p].thread \in [Cpu -> ThreadSteps]
      BY <1>1 DEF Handlers
    <3>3. QED
      BY <3>1, <3>2
  <2> HIDE DEF threads, l
  <2>5. h \in Handlers
    BY <1>1, <2>1, <2>2 DEF Handlers
  <2>6. /\ h.pc = port[p].pc /\ h.next = port[p].next /\ h.thread = threads
        /\ h.pthread_flag = port[p].pthread_flag
    BY <1>1 DEF Handlers
  <2> HIDE DEF h
  <2>7. Progress(h)
    BY <1>2, <2>4, <2>5, <2>6 DEF Started
  <2>8. QED
    BY <2>3, <2>5, <2>7, OneStep DEF IInv, TypeOK
<1>4. CASE Measure(p, c) \/ NoDuration(p, c)
  <2> DEFINE threads == [port[p].thread EXCEPT ![c] = "ended"]
  <2>1. port[p].thread[c] = "running" /\ UNCHANGED exec_time
    BY <1>4 DEF Measure, NoDuration
  <2>2. threads \in [Cpu -> ThreadSteps]
    BY <1>1 DEF Handlers, ThreadSteps
  <2>3. \A d \in Cpu : threads[d] = port[p].thread[d]
                         \/ (port[p].thread[d] = "running" /\ threads[d] = "ended")
    <3>1. port[p].thread \in [Cpu -> ThreadSteps]
      BY <1>1 DEF Handlers
    <3>2. QED
      BY <2>1, <3>1
  <2>4. PICK m \in Results : /\ port' = [port EXCEPT ![p].thread[c] = "ended", ![p].measured = m]
                             /\ ucpubench_result' \in Results
    <3>1. CASE Measure(p, c)
      <4>1. PICK s \in Speeds :
              /\ ucpubench_result' = [ucpubench_result EXCEPT ![c] = s]
              /\ port' = [port EXCEPT ![p].thread[c] = "ended",
                            ![p].measured[c] = IF port[p].overlap THEN @ ELSE s]
        BY <3>1 DEF Measure
      <4> DEFINE m == [port[p].measured EXCEPT ![c] = IF port[p].overlap THEN @ ELSE s]
      <4>2. m \in Results
        BY <1>1 DEF Handlers, Results
      <4>3. port' = [port EXCEPT ![p].thread[c] = "ended", ![p].measured = m]
        BY <4>1
      <4>4. ucpubench_result' \in Results
        BY <4>1 DEF IInv, TypeOK, Results
      <4> HIDE DEF m
      <4>5. QED
        BY <4>2, <4>3, <4>4
    <3>2. CASE NoDuration(p, c)
      <4>1. port' = [port EXCEPT ![p].thread[c] = "ended", ![p].measured = port[p].measured]
        BY <1>1, <3>2 DEF NoDuration, IInv, TypeOK, Handlers
      <4>2. port[p].measured \in Results /\ UNCHANGED ucpubench_result
        BY <1>1, <3>2 DEF NoDuration, Handlers
      <4>3. QED
        BY <4>1, <4>2 DEF IInv, TypeOK
    <3>3. QED
      BY <1>4, <3>1, <3>2
  <2> DEFINE h == [port[p] EXCEPT !.thread = threads, !.measured = m]
  <2>5. port' = [port EXCEPT ![p] = h]
    BY <2>4
  <2> HIDE DEF threads
  <2>6. h \in Handlers
    BY <1>1, <2>2 DEF Handlers
  <2>7. /\ h.pc = port[p].pc /\ h.next = port[p].next /\ h.thread = threads
        /\ h.pthread_flag = port[p].pthread_flag
    BY <1>1 DEF Handlers
  <2> HIDE DEF h
  <2>8. Progress(h)
    BY <1>2, <2>3, <2>6, <2>7 DEF Started
  <2>9. QED
    BY <2>1, <2>4, <2>5, <2>6, <2>8, OneStep DEF IInv, TypeOK
<1>5. QED
  BY <1>3, <1>4 DEF Run

LEMMA AnswerIInv ==
  ASSUME IInv, NEW p \in Ports, Scores(p) \/ Verdict(p) \/ Answer(p) \/ Abort(p)
  PROVE  IInv'
<1>1. port[p] \in Handlers /\ Progress(port[p]) /\ ucpubench_result \in Results
  BY DEF IInv, TypeOK
<1>2. CASE Scores(p)
  <2> DEFINE h == [port[p] EXCEPT !.pc = "verdict", !.printed = ucpubench_result]
  <2>1. h \in Handlers
    BY <1>1 DEF Handlers, Steps
  <2>2. /\ h.pc = "verdict" /\ h.thread = port[p].thread /\ port[p].pc = "scores"
        /\ h.pthread_flag = port[p].pthread_flag
    BY <1>1, <1>2 DEF Handlers, Scores, At
  <2>3. port' = [port EXCEPT ![p] = h] /\ UNCHANGED <<exec_time, ucpubench_result>>
    BY <1>2 DEF Scores
  <2> HIDE DEF h
  <2>4. Progress(h)
    BY <1>1, <2>2 DEF Progress
  <2>5. QED
    BY <2>1, <2>3, <2>4, OneStep DEF IInv, TypeOK
<1>3. CASE Verdict(p)
  <2> DEFINE verdict == ucpubench_result_check(ucpubench_result, Percent(port[p].req.diff))
             h == [port[p] EXCEPT !.pc = "answer", !.abnormal_cpu = verdict]
  <2>1. Percent(port[p].req.diff) \in Nat
    BY <1>1, RequestFacts DEF Handlers
  <2>2. verdict \in 0 .. Cpus
    BY <1>1, <2>1, CheckFacts
  <2>3. port' = [port EXCEPT ![p] = h] /\ UNCHANGED <<exec_time, ucpubench_result>>
    BY <1>3 DEF Verdict
  <2> HIDE DEF verdict
  <2>4. h \in Handlers
    BY <1>1, <2>2 DEF Handlers, Steps
  <2>5. /\ h.pc = "answer" /\ h.thread = port[p].thread /\ port[p].pc = "verdict"
        /\ h.pthread_flag = port[p].pthread_flag
    BY <1>1, <1>3 DEF Handlers, Verdict, At
  <2> HIDE DEF h
  <2>6. Progress(h)
    BY <1>1, <2>5 DEF Progress
  <2>7. QED
    BY <2>3, <2>4, <2>6, OneStep DEF IInv, TypeOK
<1>4. CASE Answer(p)
  BY <1>4, IdleFacts, OneStep DEF Answer, IInv, TypeOK
<1>5. CASE Abort(p)
  BY <1>5, IdleFacts, IntsFacts DEF Abort, IInv, TypeOK, NoScores, Results
<1>6. QED
  BY <1>2, <1>3, <1>4, <1>5

LEMMA NextIInv == IInv /\ [Next]_vars => IInv'
<1> SUFFICES ASSUME IInv, [Next]_vars PROVE IInv'
  OBVIOUS
<1>1. ASSUME NEW p \in Ports, NEW r \in Requests, Receive(p, r) PROVE IInv'
  BY <1>1, ReceiveIInv
<1>2. ASSUME NEW p \in Ports, Handle(p) PROVE IInv'
  BY <1>2, ParseIInv, LoopIInv, AnswerIInv DEF Handle
<1>3. ASSUME NEW p \in Ports, NEW c \in Cpu, Run(p, c) PROVE IInv'
  BY <1>3, RunIInv
<1>4. CASE UNCHANGED vars
  BY <1>4 DEF vars, IInv, TypeOK
<1>5. QED
  BY <1>1, <1>2, <1>3, <1>4 DEF Next

\* Scores are answered only for threads that were all started and have ended:
\* ThreadsJoined, for any number of CPUs.
THEOREM Joining == Spec => []ThreadsJoined
<1>1. Spec => []IInv
  BY InitIInv, NextIInv, PTL DEF Spec
<1>2. QED
  BY <1>1, ThreadsJoinedFromIInv, PTL

\* Every reachable state is well typed, the CPU a verdict names included, for
\* any ports, CPUs, speeds and requests.
THEOREM TypeCorrect == Spec => []TypeOK
<1>1. IInv => TypeOK
  BY DEF IInv
<1>2. QED
  BY <1>1, InitIInv, NextIInv, PTL DEF Spec

----------------------------------------------------------------------------
(* A request that no other overlaps.                                       *)

\* Some of the digits are read, left are the others, and n is the value of
\* the former, unless there are too many of them.
ReadSoFar(time, left, n) ==
  \E k \in 0 .. Len(time) :
    /\ Len(left) = Len(time) - k
    /\ \A i \in 1 .. Len(left) : left[i] = time[k + i]
    /\ Number(time) < Half => n = Values(time)[k]

Parsing == {"clear", "digits"}
Working == {"create", "join", "scores", "verdict", "answer"}
Telling(h) == h.pc = "verdict" \/ (h.pc = "answer" /\ h.pthread_flag)

\* With the time n and the scores s in the globals, handler h has the time it
\* was asked to run, its threads have read no other, the scores are its own
\* threads' or left for a CPU without one, and the answer is made from them.
Alone(h, n, s) ==
  /\ h.pc \in Parsing => h.limits = {} /\ h.measured = NoScores
                           /\ \A c \in Cpu : h.thread[c] = "none"
  /\ h.pc = "digits" => ReadSoFar(h.req.time, h.left, n)
  /\ h.pc \in Working =>
       /\ Number(h.req.time) < Half => n = Number(h.req.time)
       /\ h.limits \subseteq {Seconds(n)}
       /\ \A c \in Cpu : h.thread[c] \in {"running", "ended"} => Seconds(n) \in h.limits
  /\ h.pc # "clear" => \A c \in Cpu : s[c] # h.measured[c] => h.measured[c] = 0 /\ c # 0
  /\ Telling(h) => h.printed = s
  /\ h.pc = "answer" /\ h.pthread_flag =>
       h.abnormal_cpu = ucpubench_result_check(s, Percent(h.req.diff))

Own ==
  \A p \in Ports :
    /\ At(p, "idle") => port[p] = IdlePort
    /\ ~At(p, "idle") /\ ~port[p].overlap =>
         /\ Alone(port[p], exec_time, ucpubench_result)
         /\ \A q \in Ports \ {p} : At(q, "idle")

LEMMA InitOwn == Init => Own
<1>1. IdlePort.pc = "idle"
  BY DEF IdlePort
<1>2. QED
  BY <1>1 DEF Init, Own, At

LEMMA AnswersFromOwn == IInv /\ Own => OwnScores /\ VerdictTells
<1> SUFFICES ASSUME IInv, Own, NEW p \in Ports, Answered(p), ~port[p].overlap
             PROVE  /\ Number(port[p].req.time) < Half =>
                         port[p].limits = {Seconds(Number(port[p].req.time))}
                    /\ \A c \in Cpu : port[p].printed[c] # port[p].measured[c] =>
                                        port[p].measured[c] = 0 /\ c # 0
                    /\ LET Slower(s, a, b) ==
                             s[a] * 100 < s[b] * (100 - Percent(port[p].req.diff))
                           own == port[p].measured
                           cpu == port[p].abnormal_cpu
                       IN IF cpu = 0 THEN \A a, b \in Cpu : own[a] # 0 => ~Slower(own, a, b)
                          ELSE \E b \in Cpu : Slower(port[p].printed, cpu - 1, b)
  BY DEF OwnScores, VerdictTells
<1> DEFINE h == port[p]
           d == Percent(h.req.diff)
           s == h.printed
           own == h.measured
           cpu == h.abnormal_cpu
<1>1. h.pc = "answer" /\ h.pthread_flag
  BY DEF Answered, At
<1>2. Alone(h, exec_time, ucpubench_result)
  BY <1>1 DEF Own, At
<1>3. /\ s = ucpubench_result /\ cpu = ucpubench_result_check(s, d)
      /\ \A c \in Cpu : s[c] # own[c] => own[c] = 0 /\ c # 0
  BY <1>1, <1>2 DEF Alone, Telling
<1>4. d \in Nat /\ s \in Results /\ own \in Results
  BY RequestFacts DEF IInv, TypeOK, Handlers
<1>5. \A c \in Cpu : s[c] \in Nat /\ own[c] \in Nat
  <2>1. Speeds \cup {0} \subseteq Nat
    BY BenchAssumption
  <2> HIDE DEF s, own
  <2>2. QED
    BY <1>4, <2>1 DEF Results
<1>6. Number(h.req.time) < Half => h.limits = {Seconds(Number(h.req.time))}
  <2>1. 0 \in Cpu
    BY BenchAssumption DEF Cpu
  <2>2. h.thread[0] = "ended"
    BY <1>1, <2>1 DEF IInv, Progress
  <2>3. QED
    BY <1>1, <1>2, <2>1, <2>2 DEF Alone, Working
<1>7. CASE cpu = 0
  <2> SUFFICES ASSUME NEW a \in Cpu, NEW b \in Cpu, own[a] # 0,
                      own[a] * 100 < own[b] * (100 - d)
               PROVE  FALSE
    BY <1>6, <1>3, <1>7
  <2>1. Pairs(s, d) = {}
    BY <1>3, <1>4, <1>7, CheckFacts
  <2>2. /\ own[a] < own[b] /\ Abs(own[a] - own[b]) * 100 > d * Larger(own[a], own[b])
        /\ Abs(own[b] - own[a]) * 100 > d * Larger(own[b], own[a])
    BY <1>4, <1>5, Apart
  <2>3. s[a] = own[a] /\ s[b] = own[b] /\ s[a] # 0 /\ s[b] # 0 /\ a # b
    BY <1>3, <1>5, <2>2
  <2>4. a < b \/ b < a
    BY <2>3, CpuFacts
  <2>5. <<a, b>> \in Pairs(s, d) \/ <<b, a>> \in Pairs(s, d)
    BY <2>2, <2>3, <2>4 DEF Pairs
  <2>6. QED
    BY <2>1, <2>5
<1>8. CASE cpu # 0
  <2>1. PICK f \in Pairs(s, d) : cpu = IF s[f[1]] > s[f[2]] THEN f[2] + 1 ELSE f[1] + 1
    BY <1>3, <1>4, <1>8, CheckFacts
  <2>2. /\ f[1] \in Cpu /\ f[2] \in Cpu
        /\ Abs(s[f[1]] - s[f[2]]) * 100 > d * Larger(s[f[1]], s[f[2]])
    BY <2>1 DEF Pairs
  <2>3. PICK a \in Cpu, b \in Cpu :
          /\ cpu = a + 1 /\ s[a] <= s[b]
          /\ \/ Abs(s[a] - s[b]) * 100 > d * Larger(s[a], s[b])
             \/ Abs(s[b] - s[a]) * 100 > d * Larger(s[b], s[a])
    <3>1. s[f[1]] \in Nat /\ s[f[2]] \in Nat
      BY <1>5, <2>2
    <3>2. CASE s[f[1]] > s[f[2]]
      BY <2>1, <2>2, <3>1, <3>2
    <3>3. CASE ~(s[f[1]] > s[f[2]])
      BY <2>1, <2>2, <3>1, <3>3
    <3>4. QED
      BY <3>2, <3>3
  <2>4. s[a] * 100 < s[b] * (100 - d)
    BY <1>4, <1>5, <2>3, Apart
  <2>5. cpu - 1 = a
    BY <2>3, CpuFacts
  <2>6. QED
    BY <1>3, <1>6, <1>8, <2>4, <2>5
<1>9. QED
  BY <1>7, <1>8

\* A step of a port that serves a request: nobody else does, or it overlaps.
LEMMA OwnStep ==
  ASSUME IInv, Own, NEW p \in Ports, ~At(p, "idle"), NEW h, h.pc # "idle",
         port' = [port EXCEPT ![p] = h], h.overlap = port[p].overlap,
         ~h.overlap => Alone(h, exec_time', ucpubench_result')
  PROVE  Own'
<1> SUFFICES ASSUME NEW q \in Ports
             PROVE  /\ At(q, "idle")' => port'[q] = IdlePort
                    /\ ~At(q, "idle")' /\ ~port'[q].overlap =>
                         /\ Alone(port'[q], exec_time', ucpubench_result')
                         /\ \A r \in Ports \ {q} : At(r, "idle")'
  BY DEF Own
<1>1. port \in [Ports -> Handlers]
  BY DEF IInv, TypeOK
<1>2. port'[p] = h /\ \A r \in Ports \ {p} : port'[r] = port[r]
  BY <1>1
<1>3. CASE q = p
  BY <1>2, <1>3 DEF Own, At
<1>4. CASE q # p
  BY <1>2, <1>4 DEF Own, At
<1>5. QED
  BY <1>3, <1>4

LEMMA ReceiveOwn ==
  ASSUME IInv, Own, NEW p \in Ports, NEW r \in Requests, Receive(p, r)
  PROVE  Own'
<1> DEFINE busy == {q \in Ports : ~At(q, "idle")}
           h(q) == IF q = p
                   THEN [port[p] EXCEPT !.pc = "clear", !.req = r, !.overlap = busy # {}]
                   ELSE IF q \in busy
                   THEN [port[q] EXCEPT !.overlap = TRUE, !.measured = NoScores, !.limits = {}]
                   ELSE port[q]
<1>1. port' = [q \in Ports |-> h(q)] /\ UNCHANGED <<exec_time, ucpubench_result>>
  BY DEF Receive
<1>2. port[p] = IdlePort
  BY DEF Receive, Own
<1>3. h(p) = [IdlePort EXCEPT !.pc = "clear", !.req = r, !.overlap = busy # {}]
  BY <1>2
<1> DEFINE some == busy # {}
<1>4. /\ h(p).pc = "clear" /\ h(p).overlap = some /\ h(p).limits = {}
      /\ h(p).measured = NoScores /\ \A c \in Cpu : h(p).thread[c] = "none"
  <2>1. h(p) = [IdlePort EXCEPT !.pc = "clear", !.req = r, !.overlap = some]
    BY <1>3
  <2> HIDE DEF some, h
  <2>2. QED
    BY <2>1 DEF IdlePort
<1>5. ASSUME NEW q \in Ports, q # p
      PROVE  /\ At(q, "idle") => h(q) = IdlePort
             /\ ~At(q, "idle") => h(q).pc # "idle" /\ h(q).overlap
  <2>1. CASE At(q, "idle")
    BY <1>5, <2>1 DEF Own
  <2>2. CASE ~At(q, "idle")
    <3>1. h(q) = [port[q] EXCEPT !.overlap = TRUE, !.measured = NoScores, !.limits = {}]
      BY <1>5, <2>2
    <3>2. port[q] \in Handlers
      BY DEF IInv, TypeOK
    <3>3. QED
      BY <2>2, <3>1, <3>2 DEF Handlers, At
  <2>3. QED
    BY <2>1, <2>2
<1>6. Alone(h(p), exec_time', ucpubench_result')
  <2> HIDE DEF h
  <2>1. QED
    BY <1>4 DEF Alone, Parsing, Working, Telling
<1> HIDE DEF h
<1>7. \A q \in Ports : port'[q] = h(q)
  BY <1>1
<1>8. ASSUME NEW q \in Ports
      PROVE  /\ At(q, "idle")' => port'[q] = IdlePort
             /\ ~At(q, "idle")' /\ ~port'[q].overlap =>
                  /\ Alone(port'[q], exec_time', ucpubench_result')
                  /\ \A t \in Ports \ {q} : At(t, "idle")'
  <2>1. CASE q = p
    <3>1. ASSUME busy = {}, NEW t \in Ports \ {p} PROVE At(t, "idle")'
      <4>1. IdlePort.pc = "idle"
        BY DEF IdlePort
      <4>2. QED
        BY <1>5, <1>7, <3>1, <4>1 DEF At
    <3>2. QED
      BY <1>4, <1>6, <1>7, <2>1, <3>1 DEF At
  <2>2. CASE q # p
    <3>1. IdlePort.pc = "idle"
      BY DEF IdlePort
    <3>2. QED
      BY <1>5, <1>7, <2>2, <3>1 DEF At
  <2>3. QED
    BY <2>1, <2>2
<1>9. QED
  BY <1>8 DEF Own

\* The digits are read one by one, and nobody else writes the time.
LEMMA ParseOwn ==
  ASSUME IInv, Own, NEW p \in Ports, Clear(p) \/ Digit(p) \/ Parsed(p)
  PROVE  Own'
<1> DEFINE time == port[p].req.time
<1>1. port[p] \in Handlers /\ exec_time \in Ints /\ ucpubench_result \in Results
  BY DEF IInv, TypeOK
<1>2. time \in Seq(0 .. 9) /\ Len(time) \in Nat
  BY <1>1, RequestFacts DEF Handlers
<1>3. ~At(p, "idle")
  BY DEF Clear, Digit, Parsed, At
<1>4. ~port[p].overlap => Alone(port[p], exec_time, ucpubench_result)
  BY <1>3 DEF Own
<1>5. CASE Clear(p)
  <2> DEFINE h == [port[p] EXCEPT !.pc = "digits", !.left = port[p].req.time]
  <2>1. /\ h.pc = "digits" /\ h.left = time /\ h.req = port[p].req /\ h.limits = port[p].limits
        /\ h.measured = port[p].measured /\ h.thread = port[p].thread
        /\ h.overlap = port[p].overlap
    BY <1>1 DEF Handlers
  <2>2. ReadSoFar(time, time, 0)
    BY <1>2, NumberFacts DEF ReadSoFar
  <2>3. /\ port' = [port EXCEPT ![p] = h] /\ exec_time' = 0
        /\ ucpubench_result' = [ucpubench_result EXCEPT ![0] = 0]
        /\ port[p].pc = "clear"
    BY <1>5 DEF Clear, At
  <2>4. \A c \in Cpu : NoScores[c] = 0 /\ (c = 0 => ucpubench_result'[c] = 0)
    BY <1>1, <2>3 DEF NoScores, Results
  <2> HIDE DEF h
  <2>5. ~h.overlap => Alone(h, exec_time', ucpubench_result')
    BY <1>4, <2>1, <2>2, <2>3, <2>4 DEF Alone, Parsing, Working, Telling
  <2>6. QED
    BY <1>3, <2>1, <2>3, <2>5, OwnStep
<1>6. CASE Digit(p)
  <2> DEFINE left == port[p].left
             h == [port[p] EXCEPT !.left = Tail(@)]
  <2>1. /\ h.pc = port[p].pc /\ h.left = Tail(left) /\ h.req = port[p].req
        /\ h.limits = port[p].limits /\ h.measured = port[p].measured
        /\ h.thread = port[p].thread /\ h.overlap = port[p].overlap
    BY <1>1 DEF Handlers
  <2>2. /\ port' = [port EXCEPT ![p] = h] /\ exec_time' = Wrapped(exec_time * 10 + Head(left))
        /\ UNCHANGED ucpubench_result /\ port[p].pc = "digits" /\ left # <<>>
    BY <1>6 DEF Digit, At
  <2>3. left \in Seq(0 .. 9)
    BY <1>1 DEF Handlers
  <2>4. ASSUME ~port[p].overlap PROVE ReadSoFar(time, Tail(left), exec_time')
    <3>1. PICK k \in 0 .. Len(time) :
            /\ Len(left) = Len(time) - k
            /\ \A i \in 1 .. Len(left) : left[i] = time[k + i]
            /\ Number(time) < Half => exec_time = Values(time)[k]
      BY <1>4, <2>2, <2>4 DEF Alone, ReadSoFar
    <3>2. /\ Len(left) \in Nat \ {0} /\ Head(left) = left[1] /\ Len(Tail(left)) = Len(left) - 1
          /\ \A i \in 1 .. Len(Tail(left)) : Tail(left)[i] = left[i + 1]
      BY <2>2, <2>3
    <3>3. k < Len(time) /\ k + 1 \in 0 .. Len(time) /\ Len(Tail(left)) = Len(time) - (k + 1)
      BY <1>2, <3>1, <3>2
    <3>4. ASSUME Number(time) < Half PROVE exec_time' = Values(time)[k + 1]
      <4>1. Head(left) = time[k + 1]
        BY <3>1, <3>2
      <4>2. Values(time)[k + 1] = Values(time)[k] * 10 + time[k + 1]
        BY <1>2, <3>3, NumberFacts
      <4>3. exec_time' = Wrapped(Values(time)[k + 1])
        BY <2>2, <3>1, <3>4, <4>1, <4>2
      <4>4. /\ Values(time)[k + 1] \in Nat /\ Values(time)[k + 1] <= Number(time)
            /\ Number(time) \in Nat
        BY <1>2, <3>3, PrefixBelow, NumberFacts
      <4>5. Values(time)[k + 1] \in 0 .. Half - 1
        BY <3>4, <4>4, IntsFacts
      <4>6. QED
        BY <4>3, <4>5, WrappedFacts
    <3>5. ASSUME NEW i \in 1 .. Len(Tail(left)) PROVE Tail(left)[i] = time[(k + 1) + i]
      <4>1. i + 1 \in 1 .. Len(left) /\ k + (i + 1) = (k + 1) + i
        BY <1>2, <3>2
      <4>2. QED
        BY <3>1, <3>2, <4>1
    <3>6. QED
      BY <3>3, <3>4, <3>5 DEF ReadSoFar
  <2> HIDE DEF h
  <2>5. ~h.overlap => Alone(h, exec_time', ucpubench_result')
    BY <1>4, <2>1, <2>2, <2>4 DEF Alone, Parsing, Working, Telling
  <2>6. QED
    BY <1>3, <2>1, <2>2, <2>5, OwnStep DEF At
<1>7. CASE Parsed(p)
  <2> DEFINE h == [port[p] EXCEPT !.pc = "create"]
  <2>1. /\ h.pc = "create" /\ h.left = port[p].left /\ h.req = port[p].req
        /\ h.limits = port[p].limits /\ h.measured = port[p].measured
        /\ h.thread = port[p].thread /\ h.overlap = port[p].overlap
    BY <1>1 DEF Handlers
  <2>2. /\ port' = [port EXCEPT ![p] = h] /\ UNCHANGED <<exec_time, ucpubench_result>>
        /\ port[p].pc = "digits" /\ port[p].left = <<>>
    BY <1>7 DEF Parsed, At
  <2>3. ASSUME ~port[p].overlap PROVE Number(time) < Half => exec_time = Number(time)
    <3>1. PICK k \in 0 .. Len(time) :
            0 = Len(time) - k /\ (Number(time) < Half => exec_time = Values(time)[k])
      BY <1>4, <2>2, <2>3 DEF Alone, ReadSoFar
    <3>2. QED
      BY <1>2, <3>1, NumberFacts
  <2> HIDE DEF h
  <2>4. ~h.overlap => Alone(h, exec_time', ucpubench_result')
    BY <1>4, <2>1, <2>2, <2>3 DEF Alone, Parsing, Working, Telling
  <2>5. QED
    BY <1>3, <2>1, <2>2, <2>4, OwnStep
<1>8. QED
  BY <1>5, <1>6, <1>7

LEMMA LoopOwn ==
  ASSUME IInv, Own, NEW p \in Ports,
         Create(p) \/ Created(p) \/ Join(p) \/ JoinUnstarted(p) \/ Joined(p)
  PROVE  Own'
<1>1. port[p] \in Handlers /\ ~At(p, "idle") /\ port[p].pc \in {"create", "join"}
  BY DEF IInv, TypeOK, Create, Created, Join, JoinUnstarted, Joins, Joined, At
<1>2. UNCHANGED <<exec_time, ucpubench_result>>
  BY DEF Create, Created, Join, JoinUnstarted, Joined
<1>3. ~port[p].overlap => Alone(port[p], exec_time, ucpubench_result)
  BY <1>1 DEF Own
\* None of these steps tells anything, or has a thread run.
<1>4. ASSUME NEW h, port' = [port EXCEPT ![p] = h],
             h.pc \in Working, h.pc # "verdict", h.pc # "answer" \/ ~h.pthread_flag,
             h.req = port[p].req, h.overlap = port[p].overlap,
             h.limits = port[p].limits, h.measured = port[p].measured,
             \A c \in Cpu : h.thread[c] \in {"running", "ended"} =>
                              h.thread[c] = port[p].thread[c]
      PROVE  Own'
  <2>1. ~h.overlap => Alone(h, exec_time', ucpubench_result')
    BY <1>1, <1>2, <1>3, <1>4 DEF Alone, Parsing, Working, Telling
  <2>2. h.pc # "idle"
    BY <1>4 DEF Working
  <2>3. QED
    BY <1>1, <1>4, <2>1, <2>2, OwnStep
<1>5. CASE Create(p)
  <2>1. PICK t \in {"created", "failed"} :
          port' = [port EXCEPT ![p].thread[port[p].next] = t, ![p].next = @ + 1]
    BY <1>5 DEF Create
  <2> DEFINE threads == [port[p].thread EXCEPT ![port[p].next] = t]
             h == [port[p] EXCEPT !.thread = threads, !.next = @ + 1]
  <2>2. port' = [port EXCEPT ![p] = h] /\ port[p].pc = "create"
    BY <1>5, <2>1 DEF Create, At
  <2>3. \A c \in Cpu : threads[c] \in {"running", "ended"} => threads[c] = port[p].thread[c]
    BY <1>1 DEF Handlers
  <2> HIDE DEF threads
  <2>4. /\ h.pc = "create" /\ h.req = port[p].req /\ h.overlap = port[p].overlap
        /\ h.limits = port[p].limits /\ h.measured = port[p].measured /\ h.thread = threads
    BY <1>1, <2>2 DEF Handlers
  <2> HIDE DEF h
  <2>5. QED
    BY <1>4, <2>2, <2>3, <2>4 DEF Working
<1>6. CASE Created(p)
  <2> DEFINE h == [port[p] EXCEPT !.pc = "join", !.next = 0]
  <2>1. /\ h.pc = "join" /\ h.req = port[p].req /\ h.overlap = port[p].overlap
        /\ h.limits = port[p].limits /\ h.measured = port[p].measured
        /\ h.thread = port[p].thread
    BY <1>1 DEF Handlers
  <2>2. port' = [port EXCEPT ![p] = h]
    BY <1>6 DEF Created
  <2> HIDE DEF h
  <2>3. QED
    BY <1>4, <2>1, <2>2 DEF Working
<1>7. CASE Join(p) \/ JoinUnstarted(p)
  <2>1. PICK flag \in BOOLEAN : port' = [port EXCEPT ![p].next = @ + 1, ![p].pthread_flag = flag]
    <3>1. CASE Join(p)
      <4>1. port' = [port EXCEPT ![p].next = @ + 1, ![p].pthread_flag = port[p].pthread_flag]
        BY <1>1, <3>1 DEF Join, IInv, TypeOK, Handlers
      <4>2. QED
        BY <1>1, <4>1 DEF Handlers
    <3>2. CASE JoinUnstarted(p)
      BY <3>2 DEF JoinUnstarted
    <3>3. QED
      BY <1>7, <3>1, <3>2
  <2> DEFINE h == [port[p] EXCEPT !.next = @ + 1, !.pthread_flag = flag]
  <2>2. port[p].pc = "join" /\ port' = [port EXCEPT ![p] = h]
    BY <1>7, <2>1 DEF Join, JoinUnstarted, Joins, At
  <2>3. /\ h.pc = "join" /\ h.req = port[p].req /\ h.overlap = port[p].overlap
        /\ h.limits = port[p].limits /\ h.measured = port[p].measured
        /\ h.thread = port[p].thread
    BY <1>1, <2>2 DEF Handlers
  <2> HIDE DEF h
  <2>4. QED
    BY <1>4, <2>2, <2>3 DEF Working
<1>8. CASE Joined(p)
  <2> DEFINE h == [port[p] EXCEPT !.pc = IF port[p].pthread_flag THEN "scores" ELSE "answer"]
  <2>1. /\ h.pc = IF port[p].pthread_flag THEN "scores" ELSE "answer"
        /\ h.pthread_flag = port[p].pthread_flag
        /\ h.req = port[p].req /\ h.overlap = port[p].overlap
        /\ h.limits = port[p].limits /\ h.measured = port[p].measured
        /\ h.thread = port[p].thread
    BY <1>1 DEF Handlers
  <2>2. port' = [port EXCEPT ![p] = h]
    BY <1>8 DEF Joined
  <2> HIDE DEF h
  <2>3. QED
    BY <1>4, <2>1, <2>2 DEF Working
<1>9. QED
  BY <1>5, <1>6, <1>7, <1>8

\* What a thread does while its request has the globals for itself.
LEMMA RunOwn ==
  ASSUME IInv, Own, NEW p \in Ports, NEW c \in Cpu, Run(p, c)
  PROVE  Own'
<1>1. /\ port[p] \in Handlers /\ Progress(port[p]) /\ ucpubench_result \in Results
      /\ port[p].thread[c] \in {"created", "running"}
  BY DEF IInv, TypeOK, Run, Begin, Measure, NoDuration
<1>2. ~At(p, "idle")
  BY <1>1 DEF Own, IdlePort
<1>3. ~port[p].overlap => Alone(port[p], exec_time, ucpubench_result)
  BY <1>2 DEF Own
<1>4. ~port[p].overlap => port[p].pc \in {"create", "join"}
  <2>1. port[p].pc \notin {"scores", "verdict", "answer"}
    BY <1>1 DEF Progress
  <2>2. ~port[p].overlap => port[p].pc \notin Parsing
    BY <1>1, <1>3 DEF Alone
  <2>3. QED
    BY <1>1, <1>2, <2>1, <2>2 DEF Handlers, Steps, Parsing, At
<1>5. CASE Begin(p, c)
  <2> DEFINE threads == [port[p].thread EXCEPT ![c] = "running"]
             l == IF port[p].overlap THEN port[p].limits
                  ELSE port[p].limits \cup {Seconds(exec_time)}
             h == [port[p] EXCEPT !.thread = threads, !.limits = l]
  <2>1. port' = [port EXCEPT ![p] = h] /\ UNCHANGED <<exec_time, ucpubench_result>>
    BY <1>5 DEF Begin
  <2>2. ~port[p].overlap => l = port[p].limits \cup {Seconds(exec_time)}
    OBVIOUS
  <2>3. \A x \in Cpu : threads[x] \in {"running", port[p].thread[x]}
    BY <1>1 DEF Handlers
  <2> HIDE DEF threads, l
  <2>4. /\ h.pc = port[p].pc /\ h.req = port[p].req /\ h.overlap = port[p].overlap
        /\ h.limits = l /\ h.measured = port[p].measured /\ h.thread = threads
    BY <1>1 DEF Handlers
  <2> HIDE DEF h
  <2>5. ~h.overlap => Alone(h, exec_time', ucpubench_result')
    BY <1>3, <1>4, <2>1, <2>2, <2>3, <2>4 DEF Alone, Parsing, Working, Telling
  <2>6. QED
    BY <1>2, <2>1, <2>4, <2>5, OwnStep DEF At
<1>6. CASE Measure(p, c)
  <2>1. PICK s \in Speeds :
          /\ ucpubench_result' = [ucpubench_result EXCEPT ![c] = s]
          /\ port' = [port EXCEPT ![p].thread[c] = "ended",
                        ![p].measured[c] = IF port[p].overlap THEN @ ELSE s]
    BY <1>6 DEF Measure
  <2> DEFINE threads == [port[p].thread EXCEPT ![c] = "ended"]
             m == [port[p].measured EXCEPT ![c] = IF port[p].overlap THEN @ ELSE s]
             h == [port[p] EXCEPT !.thread = threads, !.measured = m]
  <2>2. port' = [port EXCEPT ![p] = h] /\ UNCHANGED exec_time
    <3>1. port' = [port EXCEPT ![p].thread[c] = "ended", ![p].measured = m]
      BY <2>1
    <3>2. QED
      BY <1>6, <3>1 DEF Measure
  <2>3. ~port[p].overlap => \A x \in Cpu : \/ m[x] = ucpubench_result'[x]
                                           \/ /\ m[x] = port[p].measured[x]
                                              /\ ucpubench_result'[x] = ucpubench_result[x]
    BY <1>1, <2>1 DEF Handlers, Results
  <2>4. \A x \in Cpu : threads[x] = port[p].thread[x]
                         \/ (threads[x] = "ended" /\ port[p].thread[x] = "running")
    BY <1>1, <1>6 DEF Handlers, Measure
  <2> HIDE DEF threads, m
  <2>5. /\ h.pc = port[p].pc /\ h.req = port[p].req /\ h.overlap = port[p].overlap
        /\ h.limits = port[p].limits /\ h.measured = m /\ h.thread = threads
    BY <1>1 DEF Handlers
  <2> HIDE DEF h
  <2>6. ~h.overlap => Alone(h, exec_time', ucpubench_result')
    BY <1>3, <1>4, <2>2, <2>3, <2>4, <2>5 DEF Alone, Parsing, Working, Telling
  <2>7. QED
    BY <1>2, <2>2, <2>5, <2>6, OwnStep DEF At
<1>7. CASE NoDuration(p, c)
  <2> DEFINE threads == [port[p].thread EXCEPT ![c] = "ended"]
             h == [port[p] EXCEPT !.thread = threads]
  <2>1. port' = [port EXCEPT ![p] = h] /\ UNCHANGED <<exec_time, ucpubench_result>>
    BY <1>7 DEF NoDuration
  <2>2. \A x \in Cpu : threads[x] = port[p].thread[x]
                         \/ (threads[x] = "ended" /\ port[p].thread[x] = "running")
    BY <1>1, <1>7 DEF Handlers, NoDuration
  <2> HIDE DEF threads
  <2>3. /\ h.pc = port[p].pc /\ h.req = port[p].req /\ h.overlap = port[p].overlap
        /\ h.limits = port[p].limits /\ h.measured = port[p].measured /\ h.thread = threads
    BY <1>1 DEF Handlers
  <2> HIDE DEF h
  <2>4. ~h.overlap => Alone(h, exec_time', ucpubench_result')
    BY <1>3, <1>4, <2>1, <2>2, <2>3 DEF Alone, Parsing, Working, Telling
  <2>5. QED
    BY <1>2, <2>1, <2>3, <2>4, OwnStep DEF At
<1>8. QED
  BY <1>5, <1>6, <1>7 DEF Run

LEMMA AnswerOwn ==
  ASSUME IInv, Own, NEW p \in Ports, Scores(p) \/ Verdict(p) \/ Answer(p) \/ Abort(p)
  PROVE  Own'
<1>1. port[p] \in Handlers /\ port \in [Ports -> Handlers] /\ ~At(p, "idle")
  BY DEF IInv, TypeOK, Scores, Verdict, Answer, Abort, Joins, At
<1>2. ~port[p].overlap => Alone(port[p], exec_time, ucpubench_result)
  BY <1>1 DEF Own
<1>3. CASE Scores(p)
  <2> DEFINE h == [port[p] EXCEPT !.pc = "verdict", !.printed = ucpubench_result]
  <2>1. /\ h.pc = "verdict" /\ h.req = port[p].req /\ h.overlap = port[p].overlap
        /\ h.limits = port[p].limits /\ h.measured = port[p].measured
        /\ h.thread = port[p].thread /\ h.printed = ucpubench_result
    BY <1>1 DEF Handlers
  <2>2. port' = [port EXCEPT ![p] = h] /\ UNCHANGED <<exec_time, ucpubench_result>>
        /\ port[p].pc = "scores"
    BY <1>3 DEF Scores, At
  <2> HIDE DEF h
  <2>3. ~h.overlap => Alone(h, exec_time', ucpubench_result')
    BY <1>2, <2>1, <2>2 DEF Alone, Parsing, Working, Telling
  <2>4. QED
    BY <1>1, <2>1, <2>2, <2>3, OwnStep
<1>4. CASE Verdict(p)
  <2> DEFINE verdict == ucpubench_result_check(ucpubench_result, Percent(port[p].req.diff))
             h == [port[p] EXCEPT !.pc = "answer", !.abnormal_cpu = verdict]
  <2>1. port' = [port EXCEPT ![p] = h] /\ UNCHANGED <<exec_time, ucpubench_result>>
        /\ port[p].pc = "verdict"
    BY <1>4 DEF Verdict, At
  <2>2. /\ h.pc = "answer" /\ h.req = port[p].req /\ h.overlap = port[p].overlap
        /\ h.limits = port[p].limits /\ h.measured = port[p].measured
        /\ h.thread = port[p].thread /\ h.printed = port[p].printed
        /\ h.abnormal_cpu = ucpubench_result_check(ucpubench_result, Percent(h.req.diff))
    BY <1>1 DEF Handlers
  <2> HIDE DEF h
  <2>3. ~h.overlap => Alone(h, exec_time', ucpubench_result')
    BY <1>2, <2>1, <2>2 DEF Alone, Parsing, Working, Telling
  <2>4. QED
    BY <1>1, <2>1, <2>2, <2>3, OwnStep
<1>5. CASE Answer(p)
  <2>1. /\ port'[p] = IdlePort /\ \A q \in Ports \ {p} : port'[q] = port[q]
        /\ UNCHANGED <<exec_time, ucpubench_result>>
    BY <1>1, <1>5 DEF Answer
  <2>2. IdlePort.pc = "idle"
    BY DEF IdlePort
  <2>3. ASSUME NEW q \in Ports
        PROVE  /\ At(q, "idle")' => port'[q] = IdlePort
               /\ ~At(q, "idle")' /\ ~port'[q].overlap =>
                    /\ Alone(port'[q], exec_time', ucpubench_result')
                    /\ \A t \in Ports \ {q} : At(t, "idle")'
    <3>1. CASE q = p
      BY <2>1, <2>2, <3>1 DEF At
    <3>2. CASE q # p
      BY <1>1, <2>1, <3>2 DEF Own, At
    <3>3. QED
      BY <3>1, <3>2
  <2>4. QED
    BY <2>3 DEF Own
<1>6. CASE Abort(p)
  BY <1>6 DEF Abort, Own, At, IdlePort
<1>7. QED
  BY <1>3, <1>4, <1>5, <1>6

LEMMA NextOwn == IInv /\ Own /\ [Next]_vars => Own'
<1> SUFFICES ASSUME IInv, Own, [Next]_vars PROVE Own'
  OBVIOUS
<1>1. ASSUME NEW p \in Ports, NEW r \in Requests, Receive(p, r) PROVE Own'
  BY <1>1, ReceiveOwn
<1>2. ASSUME NEW p \in Ports, Handle(p) PROVE Own'
  BY <1>2, ParseOwn, LoopOwn, AnswerOwn DEF Handle
<1>3. ASSUME NEW p \in Ports, NEW c \in Cpu, Run(p, c) PROVE Own'
  BY <1>3, RunOwn
<1>4. CASE UNCHANGED vars
  BY <1>4 DEF vars, Own, At
<1>5. QED
  BY <1>1, <1>2, <1>3, <1>4 DEF Next

LEMMA OwnInvariant == Spec => [](OwnScores /\ VerdictTells)
<1>1. Spec => [](IInv /\ Own)
  BY InitIInv, NextIInv, InitOwn, NextOwn, PTL DEF Spec
<1>2. QED
  BY <1>1, AnswersFromOwn, PTL

\* A request that no other overlaps is answered with what its own threads
\* measured in the time it asked for: OwnScores, for any ports, CPUs, speeds
\* and digits.
THEOREM ScoresOwn == Spec => []OwnScores
BY OwnInvariant, PTL

\* A CPU is named only if it is too slow, and none only if none is:
\* VerdictTells, for any number of CPUs and any percentage.
THEOREM VerdictRight == Spec => []VerdictTells
BY OwnInvariant, PTL
=============================================================================
