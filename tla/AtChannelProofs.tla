-------------------------- MODULE AtChannelProofs --------------------------
(***************************************************************************)
(* Theorems about AtChannel, for any slots, requests, backlogs of the      *)
(* modem and room for lines: until a command is left before its last line  *)
(* was read, or the modem says what it was not asked, every answer is the  *)
(* answer to the command it is taken for.                                  *)
(***************************************************************************)
EXTENDS AtChannel, SequenceTheorems, WellFoundedInduction, TLAPS

Active == pc \in {"send", "select", "lines", "next"}
Asks == cmd \in {"CREG?", "EUICC?"}

\* What an info line of the answer to the command says.
InfoOf(c) ==
  CASE c = "EUICC?" -> {"state0", "state1"}
    [] c = "CREG?" -> {"registered", "searching"}
    [] OTHER -> {}

\* What the types leave open: the devices are functions of the slots, the
\* lines copied fit what tmp holds, and the polling stops in time.
Bounds ==
  /\ todo \in [Sims -> Seq({"AT", "CREG?", "EUICC?"} \X BOOLEAN)]
  /\ tty \in [Sims -> Seq(Lines)]
  /\ rsp_len <= Len(tmp)
  /\ pc # "lines" => rsp_len = 0
  /\ pc # "reply" => waited <= TelTimeout

\* Which commands belong to which request.
Underway ==
  Active => cmd \in Commands /\ (task.op = "sim" <=> cmd = "EUICC?")

\* The lines on their way to the reader: the whole ones in the buffer, then
\* those of the device, the first of them perhaps begun.
Device == tty[task.sim]
InTurn(b, p, d) ==
  [i \in 1 .. Len(b) + Len(d) |->
     IF i <= Len(b) THEN b[i]
     ELSE IF i = Len(b) + 1 /\ p # NoLine THEN p
     ELSE d[i - Len(b)]]
Coming == InTurn(buffer, partial, Device)

\* The beginning of a line belongs to the first line of the device.
Begun ==
  partial # NoLine =>
    /\ Device # <<>> /\ Device[1] = [partial EXCEPT !.rest = TRUE]
    /\ partialOf = task.sim

\* The command under way has copied its info line.
Told == Len(tmp) >= 1 /\ tmp[1].fresh /\ tmp[1].says \in InfoOf(cmd)

\* What remains of the answer to the command under way.
Remaining ==
  /\ \A i \in 1 .. Len(Coming) : Coming[i] \in Lines /\ Coming[i].fresh /\ ~Coming[i].rest
  /\ \/ /\ Len(Coming) = 2 /\ Coming[1].says \in InfoOf(cmd) /\ Coming[2].says = "OK"
        /\ rsp_len = 0
     \/ Len(Coming) = 1 /\ Coming[1].says = "ERROR"
     \/ Len(Coming) = 1 /\ Coming[1].says = "OK" /\ (Asks => rsp_len = 1 /\ Told)

\* As long as no command has been cut short, lines are under way only between
\* a command and the end of its answer, and only on the device it went to.
Nothing(s) == todo[s] = <<>> /\ tty[s] = <<>>
Empty == buffer = <<>> /\ partial = NoLine
InOrder ==
  ~cut =>
    /\ \A s \in Sims : (s = task.sim /\ pc \in {"select", "lines"}) \/ Nothing(s)
    /\ pc # "lines" => Empty
    /\ pc = "select" =>
         \/ Nothing(task.sim)
         \/ todo[task.sim] = <<<<Kind(cmd), TRUE>>>> /\ Device = <<>>
         \/ todo[task.sim] = <<>> /\ Remaining
    /\ pc = "lines" => todo[task.sim] = <<>> /\ Begun /\ Remaining

\* No answer to AT+CREG? but the one to the poll just made says that the
\* device is registered.
Unregistered ==
  /\ Active /\ cmd \in {"SFUN=5", "SPTESTMODEM", "SFUN=4"} =>
       \A i \in 1 .. Len(tmp) : tmp[i].says # "registered"
  /\ Active /\ cmd = "CREG?" /\ ~cut =>
       /\ \A i \in 2 .. Len(tmp) : tmp[i].says # "registered"
       /\ Len(tmp) >= 1 /\ tmp[1].says = "registered" =>
            tmp[1].fresh /\ (pc = "next" \/ (pc = "lines" /\ rsp_len = 1))

\* A SIM check that has not failed has an answer.
Answered == pc = "next" /\ cmd = "EUICC?" /\ result /\ ~cut => Told

IInv ==
  /\ TypeOK /\ Bounds /\ Underway
  /\ InOrder /\ Unregistered /\ Answered
  /\ SimAnswerIsOwn /\ DialOwnRegistration

----------------------------------------------------------------------------
(* Sequences.                                                              *)

LEMMA MadeSeq ==
  ASSUME NEW S, NEW n \in Nat, NEW f \in [1 .. n -> S]
  PROVE  f \in Seq(S) /\ Len(f) = n /\ DOMAIN f = 1 .. n
<1>1. f \in Seq(S)
  BY SeqDef
<1>2. QED
  BY <1>1, LenProperties

LEMMA TailFacts ==
  ASSUME NEW S, NEW q \in Seq(S), q # <<>>
  PROVE  /\ Tail(q) \in Seq(S) /\ Len(Tail(q)) = Len(q) - 1 /\ Len(q) \in Nat \ {0}
         /\ Head(q) = q[1] /\ q[1] \in S
         /\ \A i \in 1 .. Len(q) - 1 : Tail(q)[i] = q[i + 1]
<1>1. Len(q) \in Nat \ {0}
  BY EmptySeq, LenProperties
<1>2. QED
  BY <1>1, HeadTailProperties, ElementOfSeq

\* Marking a line read before makes it no other line.
LEMMA StaleFacts ==
  ASSUME NEW q \in Seq(Lines)
  PROVE  /\ Stale(q) \in Seq(Lines) /\ Len(Stale(q)) = Len(q)
         /\ \A i \in 1 .. Len(q) : Stale(q)[i].says = q[i].says
         /\ q = <<>> => Stale(q) = <<>>
<1>1. Len(q) \in Nat /\ DOMAIN q = 1 .. Len(q) /\ \A i \in 1 .. Len(q) : q[i] \in Lines
  BY LenProperties, ElementOfSeq
<1>2. Stale(q) \in [1 .. Len(q) -> Lines]
  BY <1>1 DEF Stale, Lines
<1>3. Stale(q) \in Seq(Lines) /\ Len(Stale(q)) = Len(q)
  BY <1>1, <1>2, MadeSeq
<1>4. QED
  BY <1>1, <1>3, EmptySeq DEF Stale, Lines

Sent == {"AT", "CREG?", "EUICC?"} \X BOOLEAN

LEMMA PendingFacts ==
  ASSUME NEW q \in Seq(Sent)
  PROVE  /\ Pending(q) \in Seq(Sent) /\ Len(Pending(q)) = Len(q)
         /\ q = <<>> => Pending(q) = <<>>
<1>1. Len(q) \in Nat /\ DOMAIN q = 1 .. Len(q) /\ \A i \in 1 .. Len(q) : q[i] \in Sent
  BY LenProperties, ElementOfSeq
<1>2. Pending(q) \in [1 .. Len(q) -> Sent]
  BY <1>1 DEF Pending, Sent
<1>3. Pending(q) \in Seq(Sent) /\ Len(Pending(q)) = Len(q)
  BY <1>1, <1>2, MadeSeq
<1>4. QED
  BY <1>3, EmptySeq

\* What tmp holds after one more line.
LEMMA CopiedFacts ==
  ASSUME NEW q \in Seq(Lines), NEW n \in Nat, n <= Len(q), NEW l \in Lines
  PROVE  LET m == IF n < Len(q) THEN Len(q) ELSE n + 1
             r == [i \in 1 .. m |-> IF i = n + 1 THEN l ELSE q[i]]
         IN  r \in Seq(Lines) /\ Len(r) = m /\ DOMAIN r = 1 .. m
<1> DEFINE m == IF n < Len(q) THEN Len(q) ELSE n + 1
           r == [i \in 1 .. m |-> IF i = n + 1 THEN l ELSE q[i]]
<1>1. Len(q) \in Nat /\ m \in Nat /\ \A i \in 1 .. Len(q) : q[i] \in Lines
  BY LenProperties, ElementOfSeq
<1>2. r \in [1 .. m -> Lines]
  BY <1>1
<1>3. QED
  BY <1>1, <1>2, MadeSeq

LEMMA SliceFacts ==
  ASSUME NEW S, NEW q \in Seq(S), NEW m \in 1 .. Len(q) + 1, NEW n \in m - 1 .. Len(q)
  PROVE  /\ SubSeq(q, m, n) \in Seq(S) /\ Len(SubSeq(q, m, n)) = n - (m - 1)
         /\ \A i \in 1 .. n - (m - 1) : SubSeq(q, m, n)[i] = q[(m - 1) + i]
<1>1. Len(q) \in Nat /\ \A i \in 1 .. Len(q) : q[i] \in S
  BY LenProperties, ElementOfSeq
<1>2. m \in Int /\ n \in Int /\ \A i \in m .. n : q[i] \in S
  BY <1>1
<1>3. /\ SubSeq(q, m, n) \in Seq(S)
      /\ Len(SubSeq(q, m, n)) = IF m <= n THEN n - m + 1 ELSE 0
      /\ \A i \in 1 .. n - m + 1 : SubSeq(q, m, n)[i] = q[m + i - 1]
  BY <1>2, SubSeqProperties
<1>4. n - m + 1 = n - (m - 1) /\ (IF m <= n THEN n - m + 1 ELSE 0) = n - (m - 1)
  BY <1>1, <1>2
<1>5. ASSUME NEW i \in 1 .. n - (m - 1) PROVE m + i - 1 = (m - 1) + i
  BY <1>2
<1>6. QED
  BY <1>3, <1>4, <1>5

LEMMA InFront ==
  ASSUME NEW S, NEW x \in S, NEW q \in Seq(S)
  PROVE  /\ <<x>> \o q \in Seq(S) /\ Len(<<x>> \o q) = 1 + Len(q) /\ (<<x>> \o q)[1] = x
         /\ \A i \in 1 .. Len(q) : (<<x>> \o q)[1 + i] = q[i]
OBVIOUS

\* What is behind a line, and with another one in front of it.
LEMMA BehindFacts ==
  ASSUME NEW q \in Seq(Lines), NEW n \in 1 .. Len(q), NEW l \in Lines
  PROVE  /\ SubSeq(q, n + 1, Len(q)) \in Seq(Lines)
         /\ Len(SubSeq(q, n + 1, Len(q))) = Len(q) - n
         /\ \A i \in 1 .. Len(q) - n : SubSeq(q, n + 1, Len(q))[i] = q[n + i]
         /\ <<l>> \o SubSeq(q, n + 1, Len(q)) \in Seq(Lines)
         /\ Len(<<l>> \o SubSeq(q, n + 1, Len(q))) = Len(q) - (n - 1)
         /\ \A i \in 1 .. Len(q) - (n - 1) :
              (<<l>> \o SubSeq(q, n + 1, Len(q)))[i] = IF i = 1 THEN l ELSE q[(n - 1) + i]
<1> DEFINE e == SubSeq(q, n + 1, Len(q))
<1>1. Len(q) \in Nat
  BY LenProperties
<1>2. /\ e \in Seq(Lines) /\ Len(e) = Len(q) - n
      /\ \A i \in 1 .. Len(q) - n : e[i] = q[n + i]
  <2>1. n + 1 \in 1 .. Len(q) + 1 /\ Len(q) \in (n + 1) - 1 .. Len(q) /\ (n + 1) - 1 = n
    BY <1>1
  <2>2. QED
    BY <2>1, SliceFacts
<1> HIDE DEF e
<1>3. /\ <<l>> \o e \in Seq(Lines) /\ Len(<<l>> \o e) = 1 + Len(e) /\ (<<l>> \o e)[1] = l
      /\ \A i \in 1 .. Len(e) : (<<l>> \o e)[1 + i] = e[i]
  <2>1. e \in Seq(Lines)
    BY <1>2
  <2>2. QED
    BY <2>1, InFront
<1>4. 1 + (Len(q) - n) = Len(q) - (n - 1)
  BY <1>1
<1>5. ASSUME NEW i \in 1 .. Len(q) - (n - 1), i # 1
      PROVE  (<<l>> \o e)[i] = q[(n - 1) + i]
  <2>1. i - 1 \in 1 .. Len(q) - n /\ i = 1 + (i - 1) /\ (n - 1) + i = n + (i - 1)
    BY <1>1, <1>5
  <2>2. (<<l>> \o e)[1 + (i - 1)] = e[i - 1] /\ e[i - 1] = q[n + (i - 1)]
    BY <1>2, <1>3, <2>1
  <2>3. QED
    BY <2>1, <2>2
<1>6. QED
  BY <1>2, <1>3, <1>4, <1>5 DEF e

LEMMA AloneFacts ==
  ASSUME NEW l \in Lines
  PROVE  Alone(l) \in Lines
<1>1. CASE l.rest
  BY <1>1 DEF Alone, Lines
<1>2. CASE ~l.rest
  BY <1>2 DEF Alone
<1>3. QED
  BY <1>1, <1>2

\* The whole lines, the first of them joined to what was begun.
LEMMA WholeFacts ==
  ASSUME NEW q \in Seq(Lines), NEW whole \in 1 .. Len(q), partial \in Lines \cup {NoLine},
         NEW first \in Joined(q[1])
  PROVE  /\ <<first>> \o SubSeq(q, 2, whole) \in Seq(Lines)
         /\ Len(<<first>> \o SubSeq(q, 2, whole)) = whole
         /\ (<<first>> \o SubSeq(q, 2, whole))[1] = first
         /\ \A i \in 2 .. whole : (<<first>> \o SubSeq(q, 2, whole))[i] = q[i]
<1> DEFINE more == SubSeq(q, 2, whole)
<1>1. Len(q) \in Nat /\ q[1] \in Lines
  BY LenProperties, ElementOfSeq
<1>2. first \in Lines
  BY <1>1, AloneFacts DEF Joined
<1>3. /\ more \in Seq(Lines) /\ Len(more) = whole - 1
      /\ \A i \in 1 .. whole - 1 : more[i] = q[1 + i]
  <2>1. 2 \in 1 .. Len(q) + 1 /\ whole \in 2 - 1 .. Len(q) /\ 2 - 1 = 1
    BY <1>1
  <2>2. QED
    BY <2>1, SliceFacts
<1> HIDE DEF more
<1>4. /\ <<first>> \o more \in Seq(Lines) /\ Len(<<first>> \o more) = 1 + Len(more)
      /\ (<<first>> \o more)[1] = first
      /\ \A i \in 1 .. Len(more) : (<<first>> \o more)[1 + i] = more[i]
  <2>1. more \in Seq(Lines)
    BY <1>3
  <2>2. QED
    BY <1>2, <2>1, InFront
<1>5. ASSUME NEW i \in 2 .. whole PROVE (<<first>> \o more)[i] = q[i]
  <2>1. i - 1 \in 1 .. whole - 1 /\ i = 1 + (i - 1)
    BY <1>1
  <2>2. (<<first>> \o more)[1 + (i - 1)] = more[i - 1] /\ more[i - 1] = q[1 + (i - 1)]
    BY <1>3, <1>4, <2>1
  <2>3. QED
    BY <2>1, <2>2
<1>6. 1 + (whole - 1) = whole
  BY <1>1
<1>7. QED
  BY <1>3, <1>4, <1>5, <1>6 DEF more

\* What a read leaves in the buffer and on the device.
LEMMA ReadFacts ==
  ASSUME TypeOK, Bounds, Read
  PROVE  \E n \in 1 .. Len(Device), torn \in BOOLEAN, whole \in Nat :
           /\ whole = IF torn THEN n - 1 ELSE n
           /\ torn => ~Device[n].rest /\ (n > 1 \/ partial = NoLine)
           /\ buffer' \in Seq(Lines) /\ Len(buffer') = whole
           /\ whole > 0 => buffer'[1] \in Joined(Device[1])
           /\ \A i \in 2 .. whole : buffer'[i] = Device[i]
           /\ partial' = IF torn THEN Device[n] ELSE NoLine
           /\ partialOf' = IF torn THEN task.sim ELSE PhoneTwo
           /\ tty' \in [Sims -> Seq(Lines)]
           /\ \A s \in Sims : s # task.sim => tty'[s] = tty[s]
           /\ Len(tty'[task.sim]) = Len(Device) - whole
           /\ \A i \in 1 .. Len(Device) - whole :
                tty'[task.sim][i] =
                  IF torn /\ i = 1 THEN [Device[n] EXCEPT !.rest = TRUE] ELSE Device[whole + i]
<1>1. task.sim \in Sims /\ Device \in Seq(Lines) /\ Len(Device) \in Nat
  BY LenProperties DEF TypeOK, Bounds, Device
<1>2. PICK n \in 1 .. Len(Device), torn \in BOOLEAN :
        LET q == Device
            whole == IF torn THEN n - 1 ELSE n
        IN /\ torn => ~q[n].rest /\ (n > 1 \/ partial = NoLine)
           /\ IF whole = 0 THEN UNCHANGED buffer
              ELSE \E first \in Joined(q[1]) : buffer' = <<first>> \o SubSeq(q, 2, whole)
           /\ partial' = IF torn THEN q[n] ELSE NoLine
           /\ partialOf' = IF torn THEN task.sim ELSE PhoneTwo
           /\ tty' = [tty EXCEPT ![task.sim] =
                        (IF torn THEN <<[q[n] EXCEPT !.rest = TRUE]>> ELSE <<>>)
                          \o SubSeq(q, n + 1, Len(q))]
  BY DEF Read, Device
<1> DEFINE whole == IF torn THEN n - 1 ELSE n
           left == (IF torn THEN <<[Device[n] EXCEPT !.rest = TRUE]>> ELSE <<>>)
                     \o SubSeq(Device, n + 1, Len(Device))
<1>3. whole \in 0 .. Len(Device) /\ whole \in Nat
  BY <1>1
<1>4. /\ buffer' \in Seq(Lines) /\ Len(buffer') = whole
      /\ whole > 0 => buffer'[1] \in Joined(Device[1])
      /\ \A i \in 2 .. whole : buffer'[i] = Device[i]
  <2>1. CASE whole = 0
    BY <1>2, <2>1, EmptySeq DEF Read
  <2>2. CASE whole # 0
    <3>1. PICK first \in Joined(Device[1]) : buffer' = <<first>> \o SubSeq(Device, 2, whole)
      BY <1>2, <2>2
    <3>2. whole \in 1 .. Len(Device) /\ partial \in Lines \cup {NoLine}
      BY <1>3, <2>2 DEF TypeOK
    <3>3. /\ <<first>> \o SubSeq(Device, 2, whole) \in Seq(Lines)
          /\ Len(<<first>> \o SubSeq(Device, 2, whole)) = whole
          /\ (<<first>> \o SubSeq(Device, 2, whole))[1] = first
          /\ \A i \in 2 .. whole : (<<first>> \o SubSeq(Device, 2, whole))[i] = Device[i]
      BY <1>1, <3>2, WholeFacts
    <3>4. QED
      BY <3>1, <3>3
  <2>3. QED
    BY <2>1, <2>2
<1>5. /\ left \in Seq(Lines) /\ Len(left) = Len(Device) - whole
      /\ \A i \in 1 .. Len(Device) - whole :
           left[i] = IF torn /\ i = 1 THEN [Device[n] EXCEPT !.rest = TRUE]
                     ELSE Device[whole + i]
  <2>1. Device[n] \in Lines /\ [Device[n] EXCEPT !.rest = TRUE] \in Lines
    <3>1. Device[n] \in Lines
      BY <1>1, ElementOfSeq
    <3>2. QED
      BY <3>1 DEF Lines
  <2>2. CASE torn
    <3>1. /\ whole = n - 1
          /\ left = <<[Device[n] EXCEPT !.rest = TRUE]>> \o SubSeq(Device, n + 1, Len(Device))
      BY <2>2
    <3>2. PICK l \in Lines : l = [Device[n] EXCEPT !.rest = TRUE]
      BY <2>1
    <3> DEFINE kept == <<l>> \o SubSeq(Device, n + 1, Len(Device))
    <3>3. /\ kept \in Seq(Lines) /\ Len(kept) = Len(Device) - (n - 1)
          /\ \A i \in 1 .. Len(Device) - (n - 1) :
               kept[i] = IF i = 1 THEN l ELSE Device[(n - 1) + i]
      BY <1>1, BehindFacts
    <3>4. left = kept
      BY <3>1, <3>2
    <3> HIDE DEF left, kept
    <3>5. QED
      BY <2>2, <3>1, <3>2, <3>3, <3>4
  <2>3. CASE ~torn
    <3>1. SubSeq(Device, n + 1, Len(Device)) \in Seq(Lines)
      BY <1>1, <2>1, BehindFacts
    <3>2. whole = n /\ left = SubSeq(Device, n + 1, Len(Device))
      BY <2>3, <3>1, ConcatEmptySeq
    <3>3. QED
      BY <1>1, <2>1, <2>3, <3>2, BehindFacts
  <2>4. QED
    BY <2>2, <2>3
<1>6. tty' = [tty EXCEPT ![task.sim] = left]
  BY <1>2
<1> HIDE DEF left
<1>7. /\ tty' \in [Sims -> Seq(Lines)] /\ tty'[task.sim] = left
      /\ \A s \in Sims : s # task.sim => tty'[s] = tty[s]
  BY <1>1, <1>5, <1>6 DEF Bounds
<1>8. /\ whole = IF torn THEN n - 1 ELSE n
      /\ torn => ~Device[n].rest /\ (n > 1 \/ partial = NoLine)
      /\ partial' = IF torn THEN Device[n] ELSE NoLine
      /\ partialOf' = IF torn THEN task.sim ELSE PhoneTwo
  BY <1>2
<1> HIDE DEF whole
<1>9. QED
  BY <1>3, <1>4, <1>5, <1>7, <1>8

----------------------------------------------------------------------------
(* Types.                                                                  *)

Shape == TypeOK /\ Bounds

\* Copying an info line.
LEMMA CopyShape ==
  ASSUME Shape, pc = "lines", NEW l \in Lines, InfoLine(l)
  PROVE  /\ tmp' \in Seq(Lines) /\ Len(tmp') <= TmpRoom
         /\ rsp_len' \in 0 .. TmpRoom /\ rsp_len' <= Len(tmp')
         /\ pc' \in {"lines", "next"} /\ (pc' = "next" => rsp_len' = 0)
         /\ {result', cut'} \subseteq BOOLEAN
<1>1. /\ tmp \in Seq(Lines) /\ Len(tmp) \in Nat /\ Len(tmp) <= TmpRoom
      /\ rsp_len \in Nat /\ rsp_len <= Len(tmp) /\ TmpRoom \in Nat
      /\ {result, cut} \subseteq BOOLEAN
  BY AtChannelAssumption, LenProperties DEF Shape, TypeOK, Bounds
<1>2. CASE ~Asks
  <2>1. UNCHANGED <<tmp, rsp_len, result, pc, cut>>
    BY <1>2 DEF InfoLine, Asks
  <2>2. QED
    BY <1>1, <2>1
<1>3. CASE Asks /\ rsp_len = TmpRoom
  <2>1. Ends(FALSE) /\ cut' = TRUE /\ UNCHANGED tmp
    BY <1>3 DEF InfoLine, Asks
  <2>2. result' \in BOOLEAN /\ cut' \in BOOLEAN
    BY <1>1, <2>1 DEF Ends
  <2>3. rsp_len' = 0 /\ pc' = "next" /\ tmp' = tmp
    BY <2>1 DEF Ends
  <2>4. 0 \in 0 .. TmpRoom /\ 0 <= Len(tmp)
    BY <1>1
  <2>5. {result', cut'} \subseteq BOOLEAN
    BY <2>2
  <2>6. QED
    BY <1>1, <2>3, <2>4, <2>5
<1>4. CASE Asks /\ rsp_len # TmpRoom
  <2> DEFINE m == IF rsp_len < Len(tmp) THEN Len(tmp) ELSE rsp_len + 1
             r == [i \in 1 .. m |-> IF i = rsp_len + 1 THEN l ELSE tmp[i]]
  <2>1. r \in Seq(Lines) /\ Len(r) = m
    BY <1>1, CopiedFacts
  <2>2. tmp' = r /\ rsp_len' = rsp_len + 1 /\ UNCHANGED <<result, pc, cut>>
    BY <1>4 DEF InfoLine, Asks
  <2>3. m \in Nat /\ m <= TmpRoom /\ rsp_len + 1 <= m /\ rsp_len + 1 \in 0 .. TmpRoom
    BY <1>1, <1>4
  <2> HIDE DEF r, m
  <2>4. QED
    BY <1>1, <2>1, <2>2, <2>3
<1>5. QED
  BY <1>2, <1>3, <1>4

\* What the modem says to a command it has.
LEMMA SaidFacts ==
  ASSUME NEW c \in {"AT", "CREG?", "EUICC?"}, NEW said \in Says(c), NEW fresh \in BOOLEAN
  PROVE  LET r == [i \in DOMAIN said |-> [says |-> said[i], fresh |-> fresh, rest |-> FALSE]]
         IN  /\ r \in Seq(Lines) /\ Len(r) = Len(said) /\ DOMAIN r = 1 .. Len(r)
             /\ \A i \in 1 .. Len(r) : r[i].fresh = fresh /\ ~r[i].rest
             /\ \/ Len(r) = 1 /\ r[1].says = "ERROR"
                \/ InfoOf(c) = {} /\ Len(r) = 1 /\ r[1].says = "OK"
                \/ Len(r) = 2 /\ r[1].says \in InfoOf(c) /\ r[2].says = "OK"
<1> DEFINE r == [i \in DOMAIN said |-> [says |-> said[i], fresh |-> fresh, rest |-> FALSE]]
<1>1. /\ DOMAIN said = 1 .. Len(said) /\ Len(said) \in Nat
      /\ \A i \in 1 .. Len(said) : said[i] \in Info \cup {"OK", "ERROR"}
      /\ \/ Len(said) = 1 /\ said[1] = "ERROR"
         \/ InfoOf(c) = {} /\ Len(said) = 1 /\ said[1] = "OK"
         \/ Len(said) = 2 /\ said[1] \in InfoOf(c) /\ said[2] = "OK"
  <2>1. CASE said = <<"ERROR">>
    BY <2>1
  <2>2. CASE c = "EUICC?" /\ said \in {<<"state0", "OK">>, <<"state1", "OK">>}
    BY <2>2 DEF InfoOf, Info
  <2>3. CASE c = "CREG?" /\ said \in {<<"registered", "OK">>, <<"searching", "OK">>}
    BY <2>3 DEF InfoOf, Info
  <2>4. CASE c = "AT" /\ said = <<"OK">>
    BY <2>4 DEF InfoOf
  <2>5. QED
    BY <2>1, <2>2, <2>3, <2>4 DEF Says
<1>2. r \in [1 .. Len(said) -> Lines]
  BY <1>1 DEF Lines
<1>3. r \in Seq(Lines) /\ Len(r) = Len(said) /\ DOMAIN r = 1 .. Len(said)
  BY <1>1, <1>2, MadeSeq
<1>4. \A i \in 1 .. Len(said) :
        r[i].says = said[i] /\ r[i].fresh = fresh /\ r[i].rest = FALSE
  BY <1>1
<1> HIDE DEF r
<1>5. QED
  BY <1>1, <1>3, <1>4 DEF r

LEMMA InitShape == Init => Shape
<1> SUFFICES ASSUME Init PROVE Shape
  OBVIOUS
<1>1. <<>> \in Seq(Lines) /\ <<>> \in Seq({"AT", "CREG?", "EUICC?"} \X BOOLEAN)
  BY EmptySeq
<1>2. Len(<<>>) = 0
  OBVIOUS
<1>3. PhoneTwo \in Sims /\ {Backlog, TtyRoom, TmpRoom, TelTimeout} \subseteq Nat
  BY AtChannelAssumption
<1>4. /\ todo \in [Sims -> Seq({"AT", "CREG?", "EUICC?"} \X BOOLEAN)]
      /\ tty \in [Sims -> Seq(Lines)]
  BY <1>1 DEF Init
<1>5. {result, s_threadStarted, cut} \subseteq BOOLEAN /\ task \in [op : Operations, sim : Sims]
  BY <1>3 DEF Init, NoTask, Operations
<1>6. QED
  BY <1>1, <1>2, <1>3, <1>4, <1>5 DEF Init, Shape, TypeOK, Bounds

LEMMA SendShape == Shape /\ Send => Shape'
<1> SUFFICES ASSUME Shape, Send PROVE Shape'
  OBVIOUS
<1>1. PICK taken \in BOOLEAN :
        /\ taken => Len(todo[task.sim]) < Backlog
        /\ todo' = [s \in Sims |->
                      Pending(todo[s]) \o (IF taken /\ s = task.sim
                                           THEN <<<<Kind(cmd), ~cut>>>> ELSE <<>>)]
  BY DEF Send
<1>2. ASSUME NEW s \in Sims
      PROVE  todo'[s] \in Seq(Sent) /\ Len(todo'[s]) <= Backlog
  <2>1. /\ todo[s] \in Seq(Sent) /\ Len(todo[s]) \in Nat /\ Len(todo[s]) <= Backlog
        /\ Backlog \in Nat
    BY AtChannelAssumption, LenProperties DEF Shape, TypeOK, Sent
  <2>2. PICK p \in Seq(Sent) : p = Pending(todo[s]) /\ Len(p) = Len(todo[s])
    BY <2>1, PendingFacts
  <2>3. CASE taken /\ s = task.sim
    <3>1. PICK x \in Sent : x = <<Kind(cmd), ~cut>>
      <4>1. Kind(cmd) \in {"AT", "CREG?", "EUICC?"}
        BY DEF Kind
      <4>2. (~cut) \in BOOLEAN
        BY Zenon
      <4>3. QED
        BY <4>1, <4>2, Zenon DEF Sent
    <3>2. todo'[s] = p \o <<x>>
      BY <1>1, <2>2, <2>3, <3>1
    <3>3. p \o <<x>> \in Seq(Sent) /\ Len(p \o <<x>>) = Len(p) + 1
      OBVIOUS
    <3>4. Len(p) < Backlog
      BY <1>1, <2>2, <2>3
    <3>5. QED
      BY <2>1, <2>2, <3>2, <3>3, <3>4
  <2>4. CASE ~(taken /\ s = task.sim)
    <3>1. todo'[s] = p
      BY <1>1, <2>2, <2>4, ConcatEmptySeq
    <3>2. QED
      BY <2>1, <2>2, <3>1
  <2>5. QED
    BY <2>3, <2>4
<1>3. ASSUME NEW s \in Sims
      PROVE  tty'[s] \in Seq(Lines) /\ Len(tty'[s]) <= TtyRoom
  <2>1. tty[s] \in Seq(Lines) /\ Len(tty[s]) <= TtyRoom
    BY DEF Shape, TypeOK
  <2>2. tty'[s] = Stale(tty[s])
    BY DEF Send
  <2>3. QED
    BY <2>1, <2>2, StaleFacts
<1>4. todo' \in [Sims -> Seq(Sent)] /\ tty' \in [Sims -> Seq(Lines)]
  BY <1>1, <1>2, <1>3 DEF Send
<1>5. buffer' \in Seq(Lines) /\ Len(buffer') <= TtyRoom
  BY StaleFacts DEF Send, Shape, TypeOK
<1>6. partial' \in Lines \cup {NoLine}
  <2>1. CASE partial = NoLine
    BY <2>1 DEF Send, NoLine
  <2>2. CASE partial \in Lines
    BY <2>2 DEF Send, Lines
  <2>3. QED
    BY <2>1, <2>2 DEF Shape, TypeOK
<1>7. tmp' \in Seq(Lines) /\ Len(tmp') <= TmpRoom /\ rsp_len <= Len(tmp')
  <2>1. CASE cmd = "ATD"
    BY <2>1, AtChannelAssumption, EmptySeq DEF Send, Shape, Bounds
  <2>2. CASE cmd # "ATD"
    BY <2>2, StaleFacts DEF Send, Shape, TypeOK, Bounds
  <2>3. QED
    BY <2>1, <2>2
<1>8. QED
  BY <1>2, <1>3, <1>4, <1>5, <1>6, <1>7 DEF Send, Shape, TypeOK, Bounds, Sent

LEMMA TakeLineShape == Shape /\ TakeLine => Shape'
<1> SUFFICES ASSUME Shape, TakeLine PROVE Shape'
  OBVIOUS
<1>1. /\ buffer' \in Seq(Lines) /\ Len(buffer') <= TtyRoom
      /\ Head(buffer) \in Lines
  <2>1. buffer \in Seq(Lines) /\ buffer # <<>> /\ Len(buffer) <= TtyRoom /\ TtyRoom \in Nat
    BY AtChannelAssumption DEF Shape, TypeOK, TakeLine
  <2>2. QED
    BY <2>1, TailFacts DEF TakeLine
<1>2. /\ tmp' \in Seq(Lines) /\ Len(tmp') <= TmpRoom
      /\ rsp_len' \in 0 .. TmpRoom /\ rsp_len' <= Len(tmp')
      /\ pc' \in {"lines", "next"} /\ (pc' = "next" => rsp_len' = 0)
      /\ {result', cut'} \subseteq BOOLEAN
  <2>1. CASE Head(buffer).says \in {"OK", "ERROR"}
    <3>1. Ends(Head(buffer).says = "OK") /\ UNCHANGED <<tmp, cut>>
      BY <2>1 DEF TakeLine
    <3>2. 0 \in 0 .. TmpRoom /\ 0 <= Len(tmp)
      BY AtChannelAssumption, LenProperties DEF Shape, TypeOK
    <3>3. QED
      BY <3>1, <3>2 DEF Ends, Shape, TypeOK
  <2>2. CASE Head(buffer).says \notin {"OK", "ERROR"}
    BY <1>1, <2>2, CopyShape DEF TakeLine
  <2>3. QED
    BY <2>1, <2>2
<1>3. /\ UNCHANGED <<modem, partial, partialOf, task, cmd, waited, s_threadStarted>>
      /\ pc = "lines"
  BY DEF TakeLine
<1>4. QED
  BY <1>1, <1>2, <1>3 DEF modem, Shape, TypeOK, Bounds

LEMMA ReadShape == Shape /\ Read => Shape'
<1> SUFFICES ASSUME Shape, Read PROVE Shape'
  OBVIOUS
<1>1. PICK n \in 1 .. Len(Device), torn \in BOOLEAN, whole \in Nat :
        /\ whole = IF torn THEN n - 1 ELSE n
        /\ buffer' \in Seq(Lines) /\ Len(buffer') = whole
        /\ partial' = IF torn THEN Device[n] ELSE NoLine
        /\ partialOf' = IF torn THEN task.sim ELSE PhoneTwo
        /\ tty' \in [Sims -> Seq(Lines)]
        /\ \A s \in Sims : s # task.sim => tty'[s] = tty[s]
        /\ Len(tty'[task.sim]) = Len(Device) - whole
  BY ReadFacts DEF Shape
<1>2. /\ task.sim \in Sims /\ Device \in Seq(Lines) /\ Len(Device) <= TtyRoom /\ TtyRoom \in Nat
      /\ Len(Device) \in Nat /\ Device[n] \in Lines
  BY AtChannelAssumption, LenProperties, ElementOfSeq DEF Shape, TypeOK, Device
<1>3. ASSUME NEW s \in Sims PROVE tty'[s] \in Seq(Lines) /\ Len(tty'[s]) <= TtyRoom
  <2>1. CASE s = task.sim
    <3>1. Len(tty'[s]) = Len(Device) - whole /\ tty'[s] \in Seq(Lines)
      BY <1>1, <2>1
    <3>2. QED
      BY <1>2, <3>1
  <2>2. CASE s # task.sim
    BY <1>1, <2>2 DEF Shape, TypeOK
  <2>3. QED
    BY <2>1, <2>2
<1>4. Len(buffer') <= TtyRoom
  BY <1>1, <1>2
<1>5. partial' \in Lines \cup {NoLine} /\ partialOf' \in Sims
  BY <1>1, <1>2, AtChannelAssumption
<1>6. UNCHANGED <<todo, task, cmd, pc, tmp, rsp_len, result, waited, s_threadStarted, cut>>
  BY DEF Read
<1>7. QED
  BY <1>1, <1>3, <1>4, <1>5, <1>6 DEF Shape, TypeOK, Bounds

LEMMA AnswerShape == ASSUME NEW s \in Sims PROVE Shape /\ Answer(s) => Shape'
<1> SUFFICES ASSUME Shape, Answer(s) PROVE Shape'
  OBVIOUS
<1> DEFINE c == Head(todo[s])[1]
<1>1. /\ todo[s] \in Seq(Sent) /\ todo[s] # <<>> /\ Len(todo[s]) <= Backlog /\ Backlog \in Nat
      /\ tty[s] \in Seq(Lines) /\ TtyRoom \in Nat
  BY AtChannelAssumption DEF Shape, TypeOK, Answer, Sent
<1>2. /\ Tail(todo[s]) \in Seq(Sent) /\ Len(Tail(todo[s])) <= Backlog
      /\ Head(todo[s]) \in Sent
  BY <1>1, TailFacts
<1>3. c \in {"AT", "CREG?", "EUICC?"} /\ Head(todo[s])[2] \in BOOLEAN
  BY <1>2 DEF Sent
<1>4. PICK said \in Says(c) :
        /\ Len(tty[s]) + Len(said) <= TtyRoom
        /\ tty' = [tty EXCEPT ![s] = @ \o
                     [i \in DOMAIN said |-> [says |-> said[i],
                                   fresh |-> Head(todo[s])[2], rest |-> FALSE]]]
  BY DEF Answer
<1>5. PICK r \in Seq(Lines) :
        /\ r = [i \in DOMAIN said |-> [says |-> said[i], fresh |-> Head(todo[s])[2],
                                       rest |-> FALSE]]
        /\ Len(r) = Len(said)
  <2> DEFINE b == Head(todo[s])[2]
             r == [i \in DOMAIN said |-> [says |-> said[i], fresh |-> b, rest |-> FALSE]]
  <2>1. r \in Seq(Lines) /\ Len(r) = Len(said)
    <3> HIDE DEF b, c
    <3>1. QED
      BY <1>3, SaidFacts DEF b
  <2>2. QED
    BY <2>1
<1>6. tty' = [tty EXCEPT ![s] = tty[s] \o r]
  BY <1>4, <1>5
<1>7. tty[s] \o r \in Seq(Lines) /\ Len(tty[s] \o r) = Len(tty[s]) + Len(r)
  BY <1>1, ConcatProperties
<1>8. todo' = [todo EXCEPT ![s] = Tail(todo[s])]
  BY DEF Answer
<1>9. /\ tty' \in [Sims -> Seq(Lines)]
      /\ \A t \in Sims : tty'[t] \in Seq(Lines) /\ Len(tty'[t]) <= TtyRoom
  BY <1>4, <1>5, <1>6, <1>7 DEF Shape, TypeOK, Bounds
<1>10. /\ todo' \in [Sims -> Seq(Sent)]
       /\ \A t \in Sims : todo'[t] \in Seq(Sent) /\ Len(todo'[t]) <= Backlog
  BY <1>2, <1>8 DEF Shape, TypeOK, Bounds, Sent
<1>11. QED
  BY <1>9, <1>10 DEF Answer, lines, Shape, TypeOK, Bounds, Sent

LEMMA StrayShape == ASSUME NEW s \in Sims PROVE Shape /\ Stray(s) => Shape'
<1> SUFFICES ASSUME Shape, Stray(s) PROVE Shape'
  OBVIOUS
<1>1. /\ todo[s] \in Seq(Sent) /\ Len(todo[s]) <= Backlog /\ Backlog \in Nat
      /\ tty[s] \in Seq(Lines) /\ Len(tty[s]) \in Nat /\ Len(tty[s]) < TtyRoom /\ TtyRoom \in Nat
  BY AtChannelAssumption, LenProperties DEF Shape, TypeOK, Stray, Sent
<1>2. PICK l \in Lines : tty' = [tty EXCEPT ![s] = Append(@, l)]
  BY AtChannelAssumption DEF Stray, Lines, Info
<1>3. Append(tty[s], l) \in Seq(Lines) /\ Len(Append(tty[s], l)) = Len(tty[s]) + 1
  BY <1>1, AppendProperties
<1>4. /\ tty' \in [Sims -> Seq(Lines)]
      /\ \A t \in Sims : tty'[t] \in Seq(Lines) /\ Len(tty'[t]) <= TtyRoom
  BY <1>1, <1>2, <1>3 DEF Shape, TypeOK, Bounds
<1>5. PICK q \in Seq(Sent) : Len(q) <= Backlog /\ todo' \in {todo, [todo EXCEPT ![s] = q]}
  <2>1. CASE todo[s] = <<>>
    BY <1>1, <2>1 DEF Stray
  <2>2. CASE todo[s] # <<>>
    <3>1. Tail(todo[s]) \in Seq(Sent) /\ Len(Tail(todo[s])) <= Backlog
      BY <1>1, <2>2, TailFacts
    <3>2. QED
      BY <2>2, <3>1 DEF Stray
  <2>3. QED
    BY <2>1, <2>2
<1>6. /\ todo' \in [Sims -> Seq(Sent)]
      /\ \A t \in Sims : todo'[t] \in Seq(Sent) /\ Len(todo'[t]) <= Backlog
  BY <1>5 DEF Shape, TypeOK, Bounds, Sent
<1>7. {result', s_threadStarted', cut'} \subseteq BOOLEAN
  BY DEF Stray, Shape, TypeOK
<1>8. QED
  BY <1>4, <1>6, <1>7 DEF Stray, lines, Shape, TypeOK, Bounds, Sent

LEMMA NextShape == Shape /\ [Next]_vars => Shape'
<1> SUFFICES ASSUME Shape, [Next]_vars PROVE Shape'
  OBVIOUS
<1>1. ASSUME NEW r \in Requests, Receive(r[1], r[2]) \/ Refuse(r[1], r[2]) PROVE Shape'
  <2>1. r[1] \in Operations /\ r[2] \in Sims /\ First(r[1]) \in Commands
    BY AtChannelAssumption DEF Operations, First, Commands
  <2>2. tmp' \in Seq(Lines) /\ Len(tmp') <= TmpRoom /\ rsp_len <= Len(tmp')
    <3>1. <<>> \in Seq(Lines) /\ Len(<<>>) = 0 /\ 0 <= TmpRoom /\ rsp_len = 0 /\ 0 <= Len(tmp)
      BY <1>1, AtChannelAssumption, LenProperties
         DEF Receive, Refuse, Shape, TypeOK, Bounds
    <3>2. tmp' \in {<<>>, tmp}
      BY <1>1 DEF Receive, Refuse
    <3>3. CASE tmp' = <<>>
      BY <3>1, <3>3
    <3>4. CASE tmp' = tmp
      BY <3>1, <3>4 DEF Shape, TypeOK
    <3>5. QED
      BY <3>2, <3>3, <3>4
  <2>3. CASE Receive(r[1], r[2])
    BY <2>1, <2>2, <2>3 DEF Receive, modem, lines, Shape, TypeOK, Bounds
  <2>4. CASE Refuse(r[1], r[2])
    BY <2>1, <2>4 DEF Refuse, modem, lines, Shape, TypeOK, Bounds
  <2>5. QED
    BY <1>1, <2>3, <2>4
<1>2. CASE SendFail \/ TimeOut \/ NoLineYet
  <2>1. PICK ok \in BOOLEAN : Ends(ok)
    BY <1>2 DEF SendFail, TimeOut, NoLineYet
  <2>2. /\ result' \in BOOLEAN /\ cut' \in BOOLEAN
        /\ rsp_len' = 0 /\ pc' = "next"
    BY <1>2, <2>1 DEF Ends, SendFail, TimeOut, NoLineYet, Shape, TypeOK
  <2>3. UNCHANGED <<modem, lines, task, cmd, tmp, waited, s_threadStarted>> /\ pc # "reply"
    BY <1>2 DEF SendFail, TimeOut, NoLineYet
  <2>4. 0 \in 0 .. TmpRoom /\ 0 <= Len(tmp)
    BY AtChannelAssumption, LenProperties DEF Shape, TypeOK
  <2>5. {result', cut'} \subseteq BOOLEAN
    BY <2>2
  <2>6. QED
    BY <2>2, <2>3, <2>4, <2>5 DEF modem, lines, Shape, TypeOK, Bounds
<1>3. CASE Readable
  BY <1>3 DEF Readable, modem, lines, Shape, TypeOK, Bounds
<1>4. CASE NextCommand
  <2>1. cmd' \in Commands
    BY <1>4 DEF NextCommand, Follows, Commands
  <2>2. QED
    BY <1>4, <2>1 DEF NextCommand, modem, lines, Shape, TypeOK, Bounds
<1>5. CASE StartReader
  BY <1>5, AtChannelAssumption
     DEF StartReader, Commands, modem, lines, Shape, TypeOK, Bounds
<1>6. CASE Dial
  BY <1>6, AtChannelAssumption DEF Dial, Commands, modem, lines, Shape, TypeOK, Bounds
<1>7. CASE Poll
  <2>1. waited' \in 0 .. TelTimeout + 1 /\ (pc' # "reply" => waited' <= TelTimeout)
    BY <1>7, AtChannelAssumption DEF Poll, Shape, TypeOK, Bounds
  <2>2. pc' \in {"reply", "send"} /\ result' \in BOOLEAN
    BY <1>7 DEF Poll, Shape, TypeOK
  <2>3. QED
    BY <1>7, <2>1, <2>2 DEF Poll, modem, lines, Shape, TypeOK, Bounds
<1>8. CASE Finish
  <2>1. result' \in BOOLEAN
    BY <1>8, Zenon DEF Finish, Shape, TypeOK
  <2>2. QED
    BY <1>8, <2>1 DEF Finish, modem, lines, Shape, TypeOK, Bounds
<1>9. ASSUME tty' \in {tty, [tty EXCEPT ![task.sim] = <<>>]}
      PROVE  /\ tty' \in [Sims -> Seq(Lines)]
             /\ \A s \in Sims : tty'[s] \in Seq(Lines) /\ Len(tty'[s]) <= TtyRoom
  <2>1. <<>> \in Seq(Lines) /\ Len(<<>>) = 0 /\ 0 <= TtyRoom
    BY AtChannelAssumption
  <2>2. QED
    BY <1>9, <2>1 DEF Shape, TypeOK, Bounds
<1>10. ASSUME Quiet
       PROVE  /\ task' \in [op : Operations, sim : Sims] /\ cmd' = "none" /\ pc' = "idle"
              /\ rsp_len' = 0 /\ rsp_len' \in 0 .. TmpRoom /\ result' \in BOOLEAN
              /\ waited' \in 0 .. TelTimeout + 1 /\ waited' <= TelTimeout
  <2>1. PhoneTwo \in Sims /\ 0 \in 0 .. TmpRoom /\ 0 \in 0 .. TelTimeout + 1 /\ 0 <= TelTimeout
    BY AtChannelAssumption
  <2>2. NoTask \in [op : Operations, sim : Sims]
    BY <2>1 DEF NoTask, Operations
  <2>3. QED
    BY <1>10, <2>1, <2>2 DEF Quiet
<1>11. CASE Reply
  <2>1. 0 <= Len(tmp)
    BY LenProperties DEF Shape, TypeOK
  <2>2. QED
    BY <1>9, <1>10, <1>11, <2>1 DEF Reply, lines, Shape, TypeOK, Bounds
<1>12. CASE ReaderEnds
  BY <1>12 DEF ReaderEnds, modem, lines, Shape, TypeOK, Bounds
<1>13. CASE Restart
  <2>1. /\ <<>> \in Seq(Lines) /\ Len(<<>>) = 0 /\ 0 <= TtyRoom /\ 0 <= TmpRoom
        /\ PhoneTwo \in Sims
    BY AtChannelAssumption
  <2>2. cut' \in BOOLEAN
    BY <1>13, Zenon DEF Restart, Shape, TypeOK
  <2>3. Quiet /\ UNCHANGED modem
    BY <1>13 DEF Restart
  <2>4. /\ buffer' = <<>> /\ partial' = NoLine /\ partialOf' = PhoneTwo /\ tmp' = <<>>
        /\ s_threadStarted' = FALSE
    BY <1>13 DEF Restart
  <2>5. {result', s_threadStarted', cut'} \subseteq BOOLEAN
    BY <1>10, <2>2, <2>3, <2>4
  <2>6. TypeOK'
    BY <1>10, <2>1, <2>3, <2>4, <2>5 DEF modem, Shape, TypeOK
  <2>7. Bounds'
    BY <1>10, <2>1, <2>3, <2>4 DEF modem, Shape, Bounds
  <2>8. QED
    BY <2>6, <2>7 DEF Shape
<1>14. CASE UNCHANGED vars
  BY <1>14 DEF vars, modem, lines, Shape, TypeOK, Bounds
<1>15. QED
  BY <1>1, <1>2, <1>3, <1>4, <1>5, <1>6, <1>7, <1>8, <1>11, <1>12, <1>13, <1>14,
     SendShape, TakeLineShape, ReadShape, AnswerShape, StrayShape
     DEF Next, Handle

----------------------------------------------------------------------------
(* The lines on their way.                                                 *)

LEMMA InTurnFacts ==
  ASSUME NEW b \in Seq(Lines), NEW p \in Lines \cup {NoLine}, NEW d \in Seq(Lines)
  PROVE  /\ InTurn(b, p, d) \in Seq(Lines) /\ Len(InTurn(b, p, d)) = Len(b) + Len(d)
         /\ Len(b) \in Nat /\ Len(d) \in Nat
         /\ \A i \in 1 .. Len(b) + Len(d) :
              InTurn(b, p, d)[i] = IF i <= Len(b) THEN b[i]
                                   ELSE IF i = Len(b) + 1 /\ p # NoLine THEN p
                                   ELSE d[i - Len(b)]
<1>1. /\ Len(b) \in Nat /\ \A i \in 1 .. Len(b) : b[i] \in Lines
      /\ Len(d) \in Nat /\ \A i \in 1 .. Len(d) : d[i] \in Lines
  BY LenProperties, ElementOfSeq
<1>2. p # NoLine => p \in Lines
  OBVIOUS
<1>3. InTurn(b, p, d) \in [1 .. Len(b) + Len(d) -> Lines]
  BY <1>1, <1>2 DEF InTurn
<1>4. InTurn(b, p, d) \in Seq(Lines) /\ Len(InTurn(b, p, d)) = Len(b) + Len(d)
  BY <1>1, <1>3, MadeSeq
<1>5. QED
  BY <1>1, <1>4 DEF InTurn

\* A read changes where the lines are, and not what they are.
LEMMA ReadKeeps ==
  ASSUME Shape, Read, Begun, \A i \in 1 .. Len(Coming) : ~Coming[i].rest
  PROVE  /\ Len(Coming') = Len(Coming) /\ \A i \in 1 .. Len(Coming) : Coming'[i] = Coming[i]
         /\ Begun'
<1> DEFINE q == Device
<1>1. PICK n \in 1 .. Len(q), torn \in BOOLEAN, whole \in Nat :
        /\ whole = IF torn THEN n - 1 ELSE n
        /\ torn => ~q[n].rest /\ (n > 1 \/ partial = NoLine)
        /\ buffer' \in Seq(Lines) /\ Len(buffer') = whole
        /\ whole > 0 => buffer'[1] \in Joined(q[1])
        /\ \A i \in 2 .. whole : buffer'[i] = q[i]
        /\ partial' = IF torn THEN q[n] ELSE NoLine
        /\ partialOf' = IF torn THEN task.sim ELSE PhoneTwo
        /\ tty' \in [Sims -> Seq(Lines)]
        /\ Len(tty'[task.sim]) = Len(q) - whole
        /\ \A i \in 1 .. Len(q) - whole :
             tty'[task.sim][i] =
               IF torn /\ i = 1 THEN [q[n] EXCEPT !.rest = TRUE] ELSE q[whole + i]
  BY ReadFacts DEF Shape
<1>2. /\ buffer = <<>> /\ task' = task /\ Len(buffer) = 0
      /\ Device' = tty'[task.sim]
  BY DEF Read, Device
<1>3. /\ q \in Seq(Lines) /\ Len(q) \in Nat /\ \A i \in 1 .. Len(q) : q[i] \in Lines
      /\ buffer \in Seq(Lines) /\ partial \in Lines \cup {NoLine}
  BY LenProperties, ElementOfSeq DEF Shape, TypeOK, Device
<1>4. /\ buffer' \in Seq(Lines) /\ Device' \in Seq(Lines) /\ partial' \in Lines \cup {NoLine}
  BY <1>1, <1>2, <1>3 DEF Shape, TypeOK
<1>5. partial' # NoLine <=> torn
  <2>1. q[n] # NoLine
    BY <1>3 DEF Lines, NoLine, Info
  <2>2. QED
    BY <1>1, <2>1
<1>6. /\ whole \in 0 .. Len(q)
      /\ (torn => n = whole + 1 /\ n \in 1 .. Len(q)) /\ (~torn => whole > 0)
      /\ torn => n > 1 \/ partial = NoLine
  BY <1>1, <1>3
<1>7. /\ Len(buffer') = whole /\ \A i \in 2 .. whole : buffer'[i] = q[i]
      /\ Len(Device') = Len(q) - whole
      /\ torn => partial' = q[n]
  BY <1>1, <1>2
<1>8. \A i \in 1 .. Len(q) - whole : ~(torn /\ i = 1) => Device'[i] = q[whole + i]
  BY <1>1, <1>2
<1>9. /\ Len(Coming) = Len(q)
      /\ \A i \in 1 .. Len(q) :
           Coming[i] = IF i = 1 /\ partial # NoLine THEN partial ELSE q[i]
  <2>1. /\ Len(Coming) = Len(buffer) + Len(q)
        /\ \A i \in 1 .. Len(buffer) + Len(q) :
             Coming[i] = IF i <= Len(buffer) THEN buffer[i]
                         ELSE IF i = Len(buffer) + 1 /\ partial # NoLine THEN partial
                         ELSE q[i - Len(buffer)]
    BY <1>3, InTurnFacts DEF Coming
  <2>2. QED
    BY <1>2, <1>3, <2>1
<1>10. /\ Len(Coming') = whole + (Len(q) - whole)
      /\ \A i \in 1 .. whole + (Len(q) - whole) :
           Coming'[i] = IF i <= whole THEN buffer'[i]
                        ELSE IF i = whole + 1 /\ partial' # NoLine THEN partial'
                        ELSE Device'[i - whole]
  <2> DEFINE turn == InTurn(buffer', partial', Device')
  <2>1. /\ Len(turn) = Len(buffer') + Len(Device')
        /\ \A i \in 1 .. Len(buffer') + Len(Device') :
             turn[i] = IF i <= Len(buffer') THEN buffer'[i]
                       ELSE IF i = Len(buffer') + 1 /\ partial' # NoLine THEN partial'
                       ELSE Device'[i - Len(buffer')]
    BY <1>4, InTurnFacts
  <2>2. Coming' = turn
    BY DEF Coming, InTurn
  <2> HIDE DEF turn
  <2>3. Len(buffer') = whole /\ Len(Device') = Len(q) - whole
    BY <1>7
  <2>4. QED
    BY <2>1, <2>2, <2>3
<1>11. Len(Coming') = Len(Coming)
  BY <1>3, <1>6, <1>10, <1>9
<1>12. whole > 0 => buffer'[1] = Coming[1]
  <2>1. ASSUME whole > 0, partial = NoLine PROVE buffer'[1] = Coming[1]
    <3>1. Coming[1] = q[1] /\ ~q[1].rest
      BY <1>3, <1>6, <1>9, <2>1
    <3>2. buffer'[1] = Alone(q[1])
      BY <1>1, <2>1 DEF Joined
    <3>3. QED
      BY <3>1, <3>2 DEF Alone
  <2>2. ASSUME whole > 0, partial # NoLine PROVE buffer'[1] = Coming[1]
    <3>1. partial \in Lines /\ partialOf = task.sim /\ q[1].rest
      BY <2>2 DEF Begun, Shape, TypeOK, Lines
    <3>2. buffer'[1] = partial
      BY <1>1, <2>2, <3>1 DEF Joined
    <3>3. QED
      BY <1>3, <1>6, <1>9, <2>2, <3>2
  <2>3. QED
    BY <2>1, <2>2
<1>13. ASSUME NEW i \in 1 .. Len(Coming) PROVE Coming'[i] = Coming[i]
  <2>1. i \in 1 .. Len(q) /\ i \in 1 .. whole + (Len(q) - whole)
    BY <1>3, <1>6, <1>9
  <2>2. CASE i <= whole
    <3>1. Coming'[i] = buffer'[i]
      BY <1>10, <2>1, <2>2
    <3>2. CASE i = 1
      BY <1>12, <2>2, <3>1, <3>2
    <3>3. CASE i # 1
      BY <1>7, <1>9, <2>1, <2>2, <3>1, <3>3
    <3>4. QED
      BY <3>2, <3>3
  <2>3. CASE i = whole + 1 /\ torn
    <3>1. ~(i <= whole)
      BY <1>6, <2>3
    <3>2. Coming'[i] = q[n] /\ i = n
      BY <1>5, <1>6, <1>10, <1>7, <2>1, <2>3, <3>1
    <3>3. Coming[i] = q[n]
      BY <1>6, <1>9, <2>1, <2>3, <3>2
    <3>4. QED
      BY <3>2, <3>3
  <2>4. CASE i > whole /\ ~(i = whole + 1 /\ torn)
    <3>1. /\ i - whole \in 1 .. Len(q) - whole /\ whole + (i - whole) = i
          /\ ~(torn /\ i - whole = 1) /\ ~(i <= whole) /\ i # 1
      BY <1>3, <1>6, <2>1, <2>4
    <3>2. Coming'[i] = Device'[i - whole]
      BY <1>5, <1>10, <2>1, <2>4, <3>1
    <3>3. Device'[i - whole] = q[i]
      BY <1>8, <3>1
    <3>4. Coming[i] = q[i]
      BY <1>9, <2>1, <3>1
    <3>5. QED
      BY <3>2, <3>3, <3>4
  <2>5. QED
    BY <1>6, <2>1, <2>2, <2>3, <2>4
<1>14. Begun'
  <2>1. ASSUME torn PROVE Device'[1] = [partial' EXCEPT !.rest = TRUE] /\ Device' # <<>>
    <3>1. 1 \in 1 .. Len(q) - whole /\ Len(Device') # 0
      BY <1>3, <1>6, <1>7, <2>1
    <3>2. tty'[task.sim][1] = [q[n] EXCEPT !.rest = TRUE]
      BY <1>1, <2>1, <3>1
    <3>3. Device' # <<>>
      BY <3>1
    <3>4. QED
      BY <1>2, <1>7, <2>1, <3>2, <3>3
  <2>2. torn => partialOf' = task'.sim
    BY <1>1, <1>2
  <2>3. QED
    BY <1>5, <2>1, <2>2 DEF Begun
<1>15. QED
  BY <1>11, <1>13, <1>14

----------------------------------------------------------------------------
(* The first line of a kind.                                               *)

LEMMA Least ==
  ASSUME NEW T \in SUBSET Nat, T # {}
  PROVE  \E n \in T : \A m \in T : n <= m
<1> DEFINE R == OpToRel(<, Nat)
<1>1. IsWellFoundedOn(R, Nat)
  BY NatLessThanWellFounded
<1>2. PICK n \in T : \A m \in T : ~(<<m, n>> \in R)
  <2> HIDE DEF R
  <2>1. QED
    BY <1>1, WFMin
<1>3. \A m \in T : ~(m < n)
  BY <1>2 DEF OpToRel
<1>4. QED
  BY <1>3

\* What FirstOf returns is a line of tmp that says so, and the first of tmp if
\* that one does.
LEMMA FirstFacts ==
  ASSUME Shape, NEW kinds
  PROVE  /\ \/ FirstOf(kinds) = NoLine
            \/ \E i \in 1 .. Len(tmp) : FirstOf(kinds) = tmp[i] /\ tmp[i].says \in kinds
         /\ Len(tmp) >= 1 /\ tmp[1].says \in kinds => FirstOf(kinds) = tmp[1]
<1> DEFINE found == {i \in DOMAIN tmp : tmp[i].says \in kinds}
<1>1. DOMAIN tmp = 1 .. Len(tmp) /\ Len(tmp) \in Nat
  BY LenProperties DEF Shape, TypeOK
<1>2. CASE found = {}
  <2>1. FirstOf(kinds) = NoLine
    BY <1>2 DEF FirstOf
  <2>2. ~(Len(tmp) >= 1 /\ tmp[1].says \in kinds)
    BY <1>1, <1>2
  <2>3. QED
    BY <2>1, <2>2
<1>3. CASE found # {}
  <2> DEFINE first == CHOOSE i \in found : \A j \in found : i <= j
  <2>1. FirstOf(kinds) = tmp[first]
    BY <1>3 DEF FirstOf
  <2>2. found \in SUBSET Nat
    BY <1>1
  <2>3. \E i \in found : \A j \in found : i <= j
    <3> HIDE DEF found
    <3>1. QED
      BY <1>3, <2>2, Least
  <2>4. first \in found /\ \A j \in found : first <= j
    <3> HIDE DEF found
    <3>1. QED
      BY <2>3
  <2>5. first \in 1 .. Len(tmp) /\ tmp[first].says \in kinds
    <3> HIDE DEF first
    <3>1. QED
      BY <1>1, <2>4
  <2>6. Len(tmp) >= 1 /\ tmp[1].says \in kinds => first = 1
    <3> HIDE DEF first
    <3>1. Len(tmp) >= 1 /\ tmp[1].says \in kinds => 1 \in found
      BY <1>1
    <3>2. QED
      BY <1>1, <2>4, <2>5, <3>1
  <2> HIDE DEF first
  <2>7. QED
    BY <2>1, <2>5, <2>6
<1>4. QED
  BY <1>2, <1>3

----------------------------------------------------------------------------
(* Lines and commands stay in order.                                       *)

LEMMA NextUnderway == Shape /\ Underway /\ [Next]_vars => Underway'
<1> SUFFICES ASSUME Shape, Underway, [Next]_vars PROVE Underway'
  OBVIOUS
<1> USE DEF Underway, Active
<1>1. ASSUME NEW r \in Requests, Receive(r[1], r[2]) \/ Refuse(r[1], r[2]) PROVE Underway'
  <2>1. r[1] \in {"dial", "hang", "sim"}
    BY AtChannelAssumption
  <2>2. First(r[1]) \in Commands /\ (r[1] = "sim" <=> First(r[1]) = "EUICC?")
    BY <2>1 DEF First, Commands
  <2>3. QED
    BY <1>1, <2>2 DEF Receive, Refuse
<1>2. CASE UNCHANGED <<task, cmd>> /\ (Active' => Active)
  BY <1>2
<1>3. CASE Send \/ SendFail \/ Readable \/ TimeOut \/ Read \/ NoLineYet \/ Poll \/ Finish
  BY <1>2, <1>3 DEF Send, SendFail, Readable, TimeOut, Read, NoLineYet, Poll, Finish
<1>4. CASE TakeLine
  BY <1>2, <1>4 DEF TakeLine
<1>5. CASE NextCommand
  <2>1. Follows[cmd] \in Commands \ {"EUICC?"} /\ cmd # "EUICC?"
    BY <1>5 DEF NextCommand, Follows, Commands
  <2>2. QED
    BY <1>5, <2>1 DEF NextCommand
<1>6. CASE StartReader \/ Dial
  BY <1>6 DEF StartReader, Dial, Commands
<1>7. CASE Reply \/ Restart
  BY <1>7 DEF Reply, Restart, Quiet
<1>8. ASSUME NEW s \in Sims, Answer(s) \/ Stray(s) PROVE Underway'
  BY <1>8 DEF Answer, Stray
<1>9. CASE ReaderEnds \/ UNCHANGED vars
  BY <1>9 DEF ReaderEnds, vars
<1>10. QED
  BY <1>1, <1>3, <1>4, <1>5, <1>6, <1>7, <1>8, <1>9 DEF Next, Handle

\* Nothing mends what has been cut short.
LEMMA CutKept == Shape /\ [Next]_vars /\ ~cut' => ~cut
<1> SUFFICES ASSUME Shape, [Next]_vars, ~cut' PROVE ~cut
  OBVIOUS
<1>1. CASE TakeLine
  <2>1. CASE Head(buffer).says \in {"OK", "ERROR"}
    BY <1>1, <2>1 DEF TakeLine
  <2>2. CASE Head(buffer).says \notin {"OK", "ERROR"}
    BY <1>1, <2>2 DEF TakeLine, InfoLine
  <2>3. QED
    BY <2>1, <2>2
<1>2. CASE Restart
  BY <1>2 DEF Restart
<1>3. ASSUME NEW s \in Sims, Answer(s) \/ Stray(s) PROVE ~cut
  BY <1>3 DEF Answer, Stray
<1>4. ASSUME NEW r \in Requests, Receive(r[1], r[2]) \/ Refuse(r[1], r[2]) PROVE ~cut
  BY <1>4 DEF Receive, Refuse
<1>5. CASE \/ Send \/ SendFail \/ Readable \/ TimeOut \/ Read \/ NoLineYet \/ NextCommand
           \/ StartReader \/ Dial \/ Poll \/ Finish \/ Reply \/ ReaderEnds \/ UNCHANGED vars
  BY <1>5 DEF Send, SendFail, Readable, TimeOut, Read, NoLineYet, NextCommand, StartReader,
     Dial, Poll, Finish, Reply, ReaderEnds, vars
<1>6. QED
  BY <1>1, <1>2, <1>3, <1>4, <1>5 DEF Next, Handle

\* A step between two answers, which puts no line anywhere.
LEMMA QuietInOrder ==
  ASSUME InOrder, ~cut, pc \notin {"select", "lines"}, pc' \notin {"select", "lines"},
         UNCHANGED todo, Empty => Empty',
         \A s \in Sims : tty[s] = <<>> => tty'[s] = <<>>
  PROVE  InOrder'
<1>1. Empty /\ \A s \in Sims : todo[s] = <<>> /\ tty[s] = <<>>
  BY DEF InOrder, Nothing
<1>2. Empty' /\ \A s \in Sims : todo'[s] = <<>> /\ tty'[s] = <<>>
  BY <1>1
<1>3. QED
  BY <1>2 DEF InOrder, Nothing

LEMMA SendInOrder == Shape /\ InOrder /\ Send /\ ~cut => InOrder'
<1> SUFFICES ASSUME Shape, InOrder, Send, ~cut PROVE InOrder'
  OBVIOUS
<1>1. PICK taken \in BOOLEAN :
        todo' = [s \in Sims |->
                   Pending(todo[s]) \o (IF taken /\ s = task.sim
                                        THEN <<<<Kind(cmd), ~cut>>>> ELSE <<>>)]
  BY DEF Send
<1>2. Empty /\ \A s \in Sims : todo[s] = <<>> /\ tty[s] = <<>>
  BY DEF Send, InOrder, Nothing
<1>3. Pending(<<>>) = <<>> /\ Stale(<<>>) = <<>> /\ task.sim \in Sims
  BY PendingFacts, StaleFacts, EmptySeq DEF Shape, TypeOK
<1>4. ASSUME NEW s \in Sims PROVE tty'[s] = <<>>
  BY <1>2, <1>3 DEF Send
<1>5. Empty'
  BY <1>2, <1>3 DEF Send, Empty, NoLine
<1>6. ASSUME NEW s \in Sims, ~(taken /\ s = task.sim) PROVE todo'[s] = <<>>
  <2>1. todo'[s] = <<>> \o <<>>
    BY <1>1, <1>2, <1>3, <1>6
  <2>2. QED
    BY <2>1
<1>7. taken => todo'[task.sim] = <<<<Kind(cmd), TRUE>>>>
  <2>1. ASSUME taken PROVE todo'[task.sim] = <<>> \o <<<<Kind(cmd), ~cut>>>>
    BY <1>1, <1>2, <1>3, <2>1
  <2>2. PICK x \in {<<Kind(cmd), TRUE>>} : x = <<Kind(cmd), ~cut>>
    BY Zenon
  <2>3. <<>> \o <<x>> = <<x>>
    OBVIOUS
  <2>4. QED
    BY <2>1, <2>2, <2>3
<1>8. pc' = "select" /\ UNCHANGED <<task, cmd>>
  BY DEF Send
<1>9. QED
  BY <1>3, <1>4, <1>5, <1>6, <1>7, <1>8 DEF InOrder, Nothing, Device

LEMMA ReadableInOrder == InOrder /\ Readable /\ ~cut => InOrder'
<1> SUFFICES ASSUME InOrder, Readable, ~cut PROVE InOrder'
  OBVIOUS
<1>1. /\ pc = "select" /\ pc' = "lines" /\ tty[task.sim] # <<>>
      /\ UNCHANGED <<modem, lines, task, cmd, tmp, rsp_len, cut>>
  BY DEF Readable
<1>2. todo[task.sim] = <<>> /\ Remaining /\ Empty
  BY <1>1 DEF InOrder, Nothing, Device
<1>3. Begun /\ (Begun => Begun')
  BY <1>1, <1>2 DEF Begun, Empty, Device, modem, lines
<1>4. Remaining'
  <2>1. Coming' = Coming /\ (Told => Told') /\ (Asks' => Asks)
    BY <1>1 DEF Coming, InTurn, Device, Told, Asks, modem, lines
  <2>2. QED
    BY <1>1, <1>2, <2>1 DEF Remaining
<1>5. QED
  BY <1>1, <1>2, <1>3, <1>4 DEF InOrder, Nothing, modem

\* The line taken is the first on its way.
LEMMA TakenFacts ==
  ASSUME Shape, TakeLine
  PROVE  /\ Len(Coming) \in Nat \ {0} /\ Coming[1] = Head(buffer) /\ Head(buffer) \in Lines
         /\ Len(Coming') = Len(Coming) - 1
         /\ \A i \in 1 .. Len(Coming) - 1 : Coming'[i] = Coming[i + 1]
         /\ Len(Coming) = 1 => buffer' = <<>> /\ Device = <<>>
         /\ Device' = Device
<1>1. /\ buffer \in Seq(Lines) /\ buffer # <<>> /\ Device \in Seq(Lines)
      /\ partial \in Lines \cup {NoLine}
  BY DEF Shape, TypeOK, TakeLine, Device
<1>2. /\ buffer' \in Seq(Lines) /\ Len(buffer') = Len(buffer) - 1
      /\ Len(buffer) \in Nat \ {0} /\ Head(buffer) = buffer[1] /\ buffer[1] \in Lines
      /\ \A i \in 1 .. Len(buffer) - 1 : buffer'[i] = buffer[i + 1]
  BY <1>1, TailFacts DEF TakeLine
<1>3. partial' = partial /\ Device' = Device
  BY DEF TakeLine, modem, Device
<1>4. /\ Len(Coming) = Len(buffer) + Len(Device) /\ Len(Device) \in Nat
      /\ \A i \in 1 .. Len(buffer) + Len(Device) :
           Coming[i] = IF i <= Len(buffer) THEN buffer[i]
                       ELSE IF i = Len(buffer) + 1 /\ partial # NoLine THEN partial
                       ELSE Device[i - Len(buffer)]
  BY <1>1, InTurnFacts DEF Coming
<1>5. /\ Len(Coming') = (Len(buffer) - 1) + Len(Device)
      /\ \A i \in 1 .. (Len(buffer) - 1) + Len(Device) :
           Coming'[i] = IF i <= Len(buffer) - 1 THEN buffer'[i]
                        ELSE IF i = (Len(buffer) - 1) + 1 /\ partial # NoLine THEN partial
                        ELSE Device[i - (Len(buffer) - 1)]
  <2> DEFINE turn == InTurn(buffer', partial, Device)
  <2>1. /\ Len(turn) = Len(buffer') + Len(Device)
        /\ \A i \in 1 .. Len(buffer') + Len(Device) :
             turn[i] = IF i <= Len(buffer') THEN buffer'[i]
                       ELSE IF i = Len(buffer') + 1 /\ partial # NoLine THEN partial
                       ELSE Device[i - Len(buffer')]
    BY <1>1, <1>2, InTurnFacts
  <2>2. Coming' = turn
    BY <1>3 DEF Coming, InTurn
  <2> HIDE DEF turn
  <2>3. QED
    BY <1>2, <2>1, <2>2
<1>6. ASSUME NEW i \in 1 .. Len(Coming) - 1 PROVE Coming'[i] = Coming[i + 1]
  <2>1. /\ i + 1 \in 1 .. Len(buffer) + Len(Device)
        /\ i \in 1 .. (Len(buffer) - 1) + Len(Device)
        /\ (i <= Len(buffer) - 1) <=> (i + 1 <= Len(buffer))
        /\ (i = (Len(buffer) - 1) + 1) <=> (i + 1 = Len(buffer) + 1)
        /\ i - (Len(buffer) - 1) = (i + 1) - Len(buffer)
        /\ i <= Len(buffer) - 1 => i \in 1 .. Len(buffer) - 1
    BY <1>2, <1>4
  <2>2. CASE i <= Len(buffer) - 1
    BY <1>2, <1>4, <1>5, <2>1, <2>2
  <2>3. CASE ~(i <= Len(buffer) - 1)
    <3>1. Coming'[i] = IF i = (Len(buffer) - 1) + 1 /\ partial # NoLine THEN partial
                       ELSE Device[i - (Len(buffer) - 1)]
      BY <1>5, <2>1, <2>3
    <3>2. Coming[i + 1] = IF i + 1 = Len(buffer) + 1 /\ partial # NoLine THEN partial
                          ELSE Device[(i + 1) - Len(buffer)]
      BY <1>4, <2>1, <2>3
    <3>3. QED
      BY <2>1, <3>1, <3>2
  <2>4. QED
    BY <2>2, <2>3
<1>7. Coming[1] = buffer[1] /\ Len(Coming) \in Nat \ {0}
  BY <1>2, <1>4
<1>8. Len(Coming) = 1 => buffer' = <<>> /\ Device = <<>>
  <2>1. ASSUME Len(Coming) = 1 PROVE Len(buffer') = 0 /\ Len(Device) = 0
    <3>1. /\ Len(buffer) \in Nat \ {0} /\ Len(Device) \in Nat /\ Len(buffer') = Len(buffer) - 1
          /\ Len(buffer) + Len(Device) = 1
      BY <1>2, <1>4, <2>1
    <3>2. QED
      BY <3>1
  <2>2. QED
    BY <1>1, <1>2, <2>1, EmptySeq
<1>9. Len(Coming') = Len(Coming) - 1
  BY <1>2, <1>4, <1>5
<1>10. QED
  BY <1>2, <1>3, <1>6, <1>7, <1>8, <1>9

LEMMA TakeLineInOrder ==
  ASSUME Shape, InOrder, TakeLine, ~cut
  PROVE  InOrder'
<1>1. /\ pc = "lines" /\ todo[task.sim] = <<>> /\ Begun /\ Remaining
      /\ \A s \in Sims : s # task.sim => Nothing(s)
  BY DEF InOrder, TakeLine
<1>2. UNCHANGED <<todo, tty, partial, partialOf, task, cmd>>
  BY DEF TakeLine, modem
<1>3. CASE Head(buffer).says \in {"OK", "ERROR"}
  <2>1. Len(Coming) = 1
    BY <1>1, <1>3, TakenFacts DEF Remaining, InfoOf
  <2>2. buffer' = <<>> /\ Device = <<>> /\ partial = NoLine
    BY <1>1, <2>1, TakenFacts DEF Begun
  <2>3. pc' = "next"
    BY <1>3 DEF TakeLine, Ends
  <2>4. \A s \in Sims : todo'[s] = <<>> /\ tty'[s] = <<>>
    BY <1>1, <1>2, <2>2 DEF Nothing, Device
  <2>5. QED
    BY <1>2, <2>2, <2>3, <2>4 DEF InOrder, Nothing, Empty
<1>4. CASE Head(buffer).says \notin {"OK", "ERROR"}
  <2>1. /\ Len(Coming) = 2 /\ Coming[1].says \in InfoOf(cmd) /\ Coming[2].says = "OK"
        /\ rsp_len = 0
    BY <1>1, <1>4, TakenFacts DEF Remaining
  <2>2. cmd \in {"CREG?", "EUICC?"} /\ rsp_len # TmpRoom
    BY <2>1, AtChannelAssumption DEF InfoOf
  <2>3. /\ tmp' = [i \in 1 .. (IF 0 < Len(tmp) THEN Len(tmp) ELSE 0 + 1) |->
                      IF i = 0 + 1 THEN Head(buffer) ELSE tmp[i]]
        /\ rsp_len' = 0 + 1 /\ UNCHANGED <<pc, cut>>
    BY <1>4, <2>1, <2>2 DEF TakeLine, InfoLine
  <2>4. Len(tmp') >= 1 /\ tmp'[1] = Coming[1]
    <3>1. /\ tmp \in Seq(Lines) /\ Len(tmp) \in Nat /\ 0 <= Len(tmp) /\ 0 \in Nat
          /\ Head(buffer) \in Lines /\ Coming[1] = Head(buffer)
      BY TakenFacts, LenProperties DEF Shape, TypeOK
    <3> DEFINE m == IF 0 < Len(tmp) THEN Len(tmp) ELSE 0 + 1
               r == [i \in 1 .. m |-> IF i = 0 + 1 THEN Head(buffer) ELSE tmp[i]]
    <3>2. Len(r) = m
      BY <3>1, CopiedFacts
    <3>3. 1 \in 1 .. m /\ m >= 1
      BY <3>1
    <3>4. r[1] = Head(buffer)
      BY <3>3
    <3> HIDE DEF r, m
    <3>5. tmp' = r
      BY <2>3 DEF r, m
    <3>6. QED
      BY <3>1, <3>2, <3>3, <3>4, <3>5
  <2>5. Coming[1].fresh
    BY <1>1, <2>1 DEF Remaining
  <2>6. Told'
    BY <1>2, <2>1, <2>4, <2>5 DEF Told
  <2>7. Len(Coming') = 1 /\ Coming'[1] = Coming[2]
    BY <2>1, TakenFacts
  <2>8. Coming[2] \in Lines /\ Coming[2].fresh /\ ~Coming[2].rest
    BY <1>1, <2>1 DEF Remaining
  <2>9. Remaining'
    BY <2>1, <2>3, <2>6, <2>7, <2>8 DEF Remaining
  <2>10. Begun'
    BY <1>1, <1>2 DEF Begun, Device
  <2>11. QED
    BY <1>1, <1>2, <2>3, <2>9, <2>10 DEF InOrder, Nothing
<1>5. QED
  BY <1>3, <1>4

LEMMA ReadInOrder ==
  ASSUME Shape, InOrder, Read, ~cut
  PROVE  InOrder'
<1>1. /\ pc = "lines" /\ todo[task.sim] = <<>> /\ Begun /\ Remaining
      /\ \A s \in Sims : s # task.sim => Nothing(s)
  BY DEF InOrder, Read
<1>2. UNCHANGED <<todo, task, cmd, pc, tmp, rsp_len, cut>>
  BY DEF Read
<1>3. \A s \in Sims : s # task.sim => tty'[s] = tty[s]
  BY ReadFacts DEF Shape
<1>4. \A i \in 1 .. Len(Coming) : ~Coming[i].rest
  BY <1>1 DEF Remaining
<1>5. /\ Len(Coming') = Len(Coming) /\ \A i \in 1 .. Len(Coming) : Coming'[i] = Coming[i]
      /\ Begun'
  BY <1>1, <1>4, ReadKeeps
<1>6. Remaining'
  BY <1>1, <1>2, <1>5 DEF Remaining, Told, Asks
<1>7. QED
  BY <1>1, <1>2, <1>3, <1>5, <1>6 DEF InOrder, Nothing

\* The modem answers the command that waits for it, and nothing else.
LEMMA AnswerInOrder ==
  ASSUME Shape, InOrder, NEW s \in Sims, Answer(s), ~cut
  PROVE  InOrder'
<1>1. /\ s = task.sim /\ pc = "select" /\ Empty
      /\ todo[s] = <<<<Kind(cmd), TRUE>>>> /\ tty[s] = <<>>
      /\ \A t \in Sims : t # s => Nothing(t)
  BY DEF InOrder, Nothing, Answer, Device
<1>2. PICK c, b :
        /\ c \in {"AT", "CREG?", "EUICC?"} /\ InfoOf(c) = InfoOf(cmd) /\ b = TRUE
        /\ Head(todo[s]) = <<c, b>> /\ Tail(todo[s]) = <<>>
  <2>1. PICK c \in {"AT", "CREG?", "EUICC?"} : c = Kind(cmd) /\ InfoOf(c) = InfoOf(cmd)
    BY DEF Kind, InfoOf
  <2>2. PICK x : x = <<c, TRUE>>
    OBVIOUS
  <2>3. Head(<<x>>) = x /\ Tail(<<x>>) = <<>>
    OBVIOUS
  <2>4. QED
    BY <1>1, <2>1, <2>2, <2>3
<1>3. PICK said \in Says(c) :
        tty' = [tty EXCEPT ![s] = tty[s] \o
                  [i \in DOMAIN said |-> [says |-> said[i], fresh |-> b, rest |-> FALSE]]]
  <2>1. Head(todo[s]) = <<c, b>>
    BY <1>2
  <2>2. Head(todo[s])[1] = c /\ Head(todo[s])[2] = b
    BY <2>1
  <2>3. QED
    BY <2>2 DEF Answer
<1>4. PICK r \in Seq(Lines) :
        /\ r = [i \in DOMAIN said |-> [says |-> said[i], fresh |-> b, rest |-> FALSE]]
        /\ \A i \in 1 .. Len(r) : r[i].fresh /\ ~r[i].rest
        /\ \/ Len(r) = 1 /\ r[1].says = "ERROR"
           \/ InfoOf(cmd) = {} /\ Len(r) = 1 /\ r[1].says = "OK"
           \/ Len(r) = 2 /\ r[1].says \in InfoOf(cmd) /\ r[2].says = "OK"
  <2> DEFINE r == [i \in DOMAIN said |-> [says |-> said[i], fresh |-> b, rest |-> FALSE]]
  <2>1. /\ r \in Seq(Lines)
        /\ \A i \in 1 .. Len(r) : r[i].fresh = b /\ ~r[i].rest
        /\ \/ Len(r) = 1 /\ r[1].says = "ERROR"
           \/ InfoOf(c) = {} /\ Len(r) = 1 /\ r[1].says = "OK"
           \/ Len(r) = 2 /\ r[1].says \in InfoOf(c) /\ r[2].says = "OK"
    <3>1. c \in {"AT", "CREG?", "EUICC?"} /\ b \in BOOLEAN
      BY <1>2
    <3>2. QED
      BY <3>1, SaidFacts
  <2> HIDE DEF r
  <2>2. QED
    BY <1>2, <2>1 DEF r
<1>5. tty' = [tty EXCEPT ![s] = r]
  <2>1. <<>> \o r = r
    BY ConcatEmptySeq
  <2>2. tty' = [tty EXCEPT ![s] = <<>> \o r]
    BY <1>1, <1>3, <1>4
  <2>3. QED
    BY <2>1, <2>2
<1>6. tty'[s] = r /\ \A t \in Sims : t # s => tty'[t] = tty[t]
  BY <1>5 DEF Shape, Bounds
<1>7. todo'[s] = <<>> /\ \A t \in Sims : t # s => todo'[t] = todo[t]
  BY <1>2 DEF Answer, Shape, Bounds
<1>8. UNCHANGED <<buffer, partial, partialOf, task, cmd, pc, tmp, rsp_len, cut>>
  BY DEF Answer, lines
<1>9. Len(Coming') = Len(r) /\ \A i \in 1 .. Len(r) : Coming'[i] = r[i]
  <2> DEFINE turn == InTurn(<<>>, NoLine, r)
  <2>1. /\ Len(turn) = Len(<<>>) + Len(r) /\ Len(r) \in Nat
        /\ \A i \in 1 .. Len(<<>>) + Len(r) :
             turn[i] = IF i <= Len(<<>>) THEN <<>>[i]
                       ELSE IF i = Len(<<>>) + 1 /\ NoLine # NoLine THEN NoLine
                       ELSE r[i - Len(<<>>)]
    <3>1. <<>> \in Seq(Lines) /\ NoLine \in Lines \cup {NoLine}
      BY EmptySeq
    <3>2. QED
      BY <3>1, InTurnFacts
  <2>2. Coming' = turn
    BY <1>1, <1>6, <1>8 DEF Coming, InTurn, Empty, Device
  <2>3. Len(<<>>) = 0
    OBVIOUS
  <2> HIDE DEF turn
  <2>4. QED
    BY <2>1, <2>2, <2>3
<1>10. rsp_len = 0
  BY <1>1 DEF Shape, Bounds
<1>11. InfoOf(cmd) = {} => ~Asks
  BY DEF InfoOf, Asks
<1>12. \A i \in 1 .. Len(r) : r[i] \in Lines
  BY ElementOfSeq
<1>13. Remaining'
  BY <1>4, <1>8, <1>9, <1>10, <1>11, <1>12 DEF Remaining, Asks
<1>14. QED
  BY <1>1, <1>6, <1>7, <1>8, <1>13 DEF InOrder, Nothing, Empty

LEMMA NextInOrder == Shape /\ InOrder /\ [Next]_vars => InOrder'
<1> SUFFICES ASSUME Shape, InOrder, [Next]_vars, ~cut' PROVE InOrder'
  BY DEF InOrder
<1>1. ~cut
  BY CutKept
<1>2. ASSUME NEW r \in Requests, Receive(r[1], r[2]) \/ Refuse(r[1], r[2]) PROVE InOrder'
  BY <1>1, <1>2, QuietInOrder DEF Receive, Refuse, modem, lines, Empty
<1>3. CASE SendFail \/ NextCommand \/ StartReader \/ Dial \/ Poll \/ Finish
  BY <1>1, <1>3, QuietInOrder
     DEF SendFail, NextCommand, StartReader, Dial, Poll, Finish, Ends, modem, lines, Empty
<1>4. CASE TimeOut \/ NoLineYet
  BY <1>4 DEF TimeOut, NoLineYet
<1>9. ASSUME NEW s \in Sims, Stray(s) PROVE InOrder'
  BY <1>9 DEF Stray
<1>5. CASE Reply
  BY <1>1, <1>5, QuietInOrder DEF Reply, Quiet, lines, Empty, Shape, Bounds
<1>6. CASE Restart
  BY <1>1, <1>6, QuietInOrder DEF Restart, Quiet, modem, Empty
<1>7. CASE ReaderEnds \/ UNCHANGED vars
  <2>1. UNCHANGED <<todo, tty, buffer, partial, partialOf, task, cmd, pc, tmp, rsp_len, cut>>
    BY <1>7 DEF ReaderEnds, vars, modem, lines
  <2>2. Coming' = Coming /\ (Told => Told') /\ (Asks' => Asks) /\ (Begun => Begun')
    BY <2>1 DEF Coming, InTurn, Device, Told, Asks, Begun
  <2>3. Remaining => Remaining'
    BY <2>1, <2>2 DEF Remaining
  <2>4. QED
    BY <1>1, <2>1, <2>2, <2>3 DEF InOrder, Nothing, Empty, Device
<1>8. QED
  BY <1>1, <1>2, <1>3, <1>4, <1>5, <1>6, <1>7, <1>9, SendInOrder, ReadableInOrder,
     TakeLineInOrder, ReadInOrder, AnswerInOrder DEF Next, Handle

----------------------------------------------------------------------------
(* What the lines copied say.                                              *)

\* What a line taken does, as long as nothing is cut short: the last one ends
\* the command, the info line before it is the first of tmp.
LEMMA TakenCopies ==
  ASSUME Shape, InOrder, TakeLine, ~cut
  PROVE  \/ /\ pc' = "next" /\ UNCHANGED tmp
            /\ cmd \in {"ATD", "EUICC?"} /\ result' /\ Asks => Told
         \/ /\ UNCHANGED <<pc, result>> /\ cmd \in {"CREG?", "EUICC?"} /\ rsp_len' = 1
            /\ Len(tmp') >= 1 /\ tmp'[1].fresh
            /\ \A i \in 2 .. Len(tmp') : i \in 2 .. Len(tmp) /\ tmp'[i] = tmp[i]
<1>1. pc = "lines" /\ Remaining
  BY DEF InOrder, TakeLine
<1>2. CASE Head(buffer).says \in {"OK", "ERROR"}
  <2>1. pc' = "next" /\ UNCHANGED tmp
    BY <1>2 DEF TakeLine, Ends
  <2>2. ASSUME cmd \in {"ATD", "EUICC?"}, result', Asks PROVE Told
    <3>1. Head(buffer).says = "OK"
      BY <1>2, <2>2 DEF TakeLine, Ends
    <3>2. QED
      BY <1>1, <2>2, <3>1, TakenFacts DEF Remaining, InfoOf
  <2>3. QED
    BY <2>1, <2>2
<1>3. CASE Head(buffer).says \notin {"OK", "ERROR"}
  <2>1. Len(Coming) = 2 /\ Coming[1].says \in InfoOf(cmd) /\ Coming[1].fresh /\ rsp_len = 0
    BY <1>1, <1>3, TakenFacts DEF Remaining
  <2>2. cmd \in {"CREG?", "EUICC?"} /\ rsp_len # TmpRoom
    BY <2>1, AtChannelAssumption DEF InfoOf
  <2>3. /\ tmp' = [i \in 1 .. (IF 0 < Len(tmp) THEN Len(tmp) ELSE 0 + 1) |->
                      IF i = 0 + 1 THEN Head(buffer) ELSE tmp[i]]
        /\ rsp_len' = 0 + 1 /\ UNCHANGED <<pc, result>>
    BY <1>3, <2>1, <2>2 DEF TakeLine, InfoLine
  <2>4. /\ tmp \in Seq(Lines) /\ Len(tmp) \in Nat /\ 0 <= Len(tmp) /\ 0 \in Nat
        /\ Head(buffer) \in Lines /\ Coming[1] = Head(buffer)
    BY TakenFacts, LenProperties DEF Shape, TypeOK
  <2> DEFINE m == IF 0 < Len(tmp) THEN Len(tmp) ELSE 0 + 1
             r == [i \in 1 .. m |-> IF i = 0 + 1 THEN Head(buffer) ELSE tmp[i]]
  <2>5. Len(r) = m
    BY <2>4, CopiedFacts
  <2>6. 1 \in 1 .. m /\ m >= 1 /\ m \in Nat /\ (m > 1 => m = Len(tmp))
    BY <2>4
  <2>7. r[1] = Head(buffer) /\ \A i \in 2 .. m : r[i] = tmp[i]
    BY <2>6
  <2> HIDE DEF r, m
  <2>8. tmp' = r
    BY <2>3 DEF r, m
  <2>9. \A i \in 2 .. m : i \in 2 .. Len(tmp)
    BY <2>4, <2>6
  <2>10. QED
    BY <2>1, <2>2, <2>3, <2>4, <2>5, <2>6, <2>7, <2>8, <2>9
<1>4. QED
  BY <1>2, <1>3

\* The commands before AT+CREG? in a call test.
Opening == cmd \in {"SFUN=5", "SPTESTMODEM", "SFUN=4"}

LEMMA NextUnregistered ==
  Shape /\ InOrder /\ Unregistered /\ [Next]_vars => Unregistered'
<1> SUFFICES ASSUME Shape, InOrder, Unregistered, [Next]_vars PROVE Unregistered'
  OBVIOUS
<1>1. ~cut' => ~cut
  BY CutKept
<1>2. \A i \in 1 .. Len(tmp) : tmp[i] \in Lines
  BY ElementOfSeq DEF Shape, TypeOK
<1>3. ASSUME NEW r \in Requests, Receive(r[1], r[2]) \/ Refuse(r[1], r[2]) PROVE Unregistered'
  <2>1. First(r[1]) # "CREG?" /\ (r[1] = "sim" => First(r[1]) = "EUICC?")
    BY DEF First
  <2>2. CASE Receive(r[1], r[2])
    <3>1. Opening' => tmp' = <<>>
      BY <2>1, <2>2 DEF Receive, Opening
    <3>2. QED
      BY <2>1, <2>2, <3>1 DEF Receive, Unregistered, Opening
  <2>3. CASE Refuse(r[1], r[2])
    BY <2>3 DEF Refuse, Unregistered, Active
  <2>4. QED
    BY <1>3, <2>2, <2>3
\* Steps that leave the command and its lines alone.
<1>4. ASSUME UNCHANGED <<cmd, tmp>>, Active' => Active,
             pc' = pc \/ pc' = "next" \/ (pc = "select" /\ pc' = "lines"),
             pc' = pc => rsp_len' = rsp_len
      PROVE  Unregistered'
  BY <1>1, <1>4 DEF Unregistered
<1>5. CASE SendFail \/ Readable \/ TimeOut \/ NoLineYet
  BY <1>4, <1>5 DEF SendFail, Readable, TimeOut, NoLineYet, Ends, Active
<1>6. CASE Read \/ ReaderEnds
  BY <1>4, <1>6 DEF Read, ReaderEnds, Active
<1>7. ASSUME NEW s \in Sims, Answer(s) \/ Stray(s) PROVE Unregistered'
  BY <1>4, <1>7 DEF Answer, Stray, Active
<1>8. CASE UNCHANGED vars
  BY <1>4, <1>8 DEF vars, Active
<1>9. CASE Send
  <2>1. tmp' = IF cmd = "ATD" THEN <<>> ELSE Stale(tmp)
    BY <1>9 DEF Send
  <2>2. cmd # "ATD" =>
          Len(tmp') = Len(tmp) /\ \A i \in 1 .. Len(tmp) : tmp'[i].says = tmp[i].says
    BY <2>1, StaleFacts DEF Shape, TypeOK
  <2>3. pc = "send" /\ pc' = "select" /\ UNCHANGED cmd
    BY <1>9 DEF Send
  <2>4. Len(tmp) \in Nat
    BY LenProperties DEF Shape, TypeOK
  <2>5. Opening => \A i \in 1 .. Len(tmp') : tmp'[i].says # "registered"
    <3>1. Opening => \A i \in 1 .. Len(tmp) : tmp[i].says # "registered"
      BY <2>3 DEF Unregistered, Active, Opening
    <3>2. QED
      BY <2>2, <3>1 DEF Opening
  <2>6. cmd = "CREG?" /\ ~cut => \A i \in 1 .. Len(tmp') : tmp'[i].says # "registered"
    <3>1. cmd = "CREG?" /\ ~cut => \A i \in 1 .. Len(tmp) : tmp[i].says # "registered"
      <4>1. ASSUME cmd = "CREG?", ~cut, NEW i \in 1 .. Len(tmp) PROVE tmp[i].says # "registered"
        <5>1. CASE i = 1
          BY <2>3, <2>4, <4>1, <5>1 DEF Unregistered, Active
        <5>2. CASE i # 1
          BY <2>3, <2>4, <4>1, <5>2 DEF Unregistered, Active
        <5>3. QED
          BY <5>1, <5>2
      <4>2. QED
        BY <4>1
    <3>2. QED
      BY <2>2, <3>1
  <2>7. cmd # "ATD" => Len(tmp') \in Nat
    BY <2>2, <2>4
  <2>8. QED
    BY <1>1, <2>3, <2>5, <2>6, <2>7 DEF Unregistered, Opening
<1>10. CASE TakeLine
  <2>1. pc = "lines" /\ UNCHANGED cmd
    BY <1>10 DEF TakeLine
  <2>2. Opening => UNCHANGED tmp
    BY <1>10 DEF TakeLine, InfoLine, Opening
  <2>3. Opening => \A i \in 1 .. Len(tmp') : tmp'[i].says # "registered"
    BY <2>1, <2>2 DEF Unregistered, Opening, Active
  <2>4. ASSUME cmd = "CREG?", ~cut'
        PROVE  /\ \A i \in 2 .. Len(tmp') : tmp'[i].says # "registered"
               /\ Len(tmp') >= 1 /\ tmp'[1].says = "registered" =>
                    tmp'[1].fresh /\ (pc' = "next" \/ (pc' = "lines" /\ rsp_len' = 1))
    <3>1. ~cut
      BY <1>1, <2>4
    <3>2. /\ \A i \in 2 .. Len(tmp) : tmp[i].says # "registered"
          /\ Len(tmp) >= 1 /\ tmp[1].says = "registered" => tmp[1].fresh
      BY <2>1, <2>4, <3>1 DEF Unregistered, Active
    <3>3. \/ pc' = "next" /\ UNCHANGED tmp
          \/ /\ UNCHANGED pc /\ rsp_len' = 1
             /\ Len(tmp') >= 1 /\ tmp'[1].fresh
             /\ \A i \in 2 .. Len(tmp') : i \in 2 .. Len(tmp) /\ tmp'[i] = tmp[i]
      BY <1>10, <3>1, TakenCopies
    <3>4. QED
      BY <2>1, <3>2, <3>3
  <2>5. QED
    BY <2>1, <2>3, <2>4 DEF Unregistered, Opening
<1>11. CASE NextCommand
  <2>1. pc = "next" /\ cmd' # "CREG?" /\ UNCHANGED tmp /\ (Opening' => Opening)
    BY <1>11 DEF NextCommand, Follows, Opening
  <2>2. QED
    BY <2>1 DEF Unregistered, Opening, Active
<1>12. CASE StartReader
  <2>1. pc = "next" /\ cmd = "SFUN=4" /\ cmd' = "CREG?" /\ UNCHANGED tmp
    BY <1>12 DEF StartReader
  <2>2. \A i \in 1 .. Len(tmp) : tmp[i].says # "registered"
    BY <2>1 DEF Unregistered, Active
  <2>3. Len(tmp) \in Nat
    BY LenProperties DEF Shape, TypeOK
  <2>4. QED
    BY <2>1, <2>2, <2>3 DEF Unregistered
<1>13. CASE Poll
  <2>1. pc = "next" /\ cmd = "CREG?" /\ ~Registered /\ UNCHANGED <<cmd, tmp>>
    BY <1>13 DEF Poll
  <2>2. ~(Len(tmp) >= 1 /\ tmp[1].says = "registered")
    <3>1. ASSUME Len(tmp) >= 1, tmp[1].says = "registered" PROVE Registered
      <4>1. tmp[1].says \in {"registered", "searching"}
        BY <3>1
      <4>2. Registration = tmp[1]
        BY <3>1, <4>1, FirstFacts DEF Registration
      <4>3. QED
        BY <3>1, <4>2 DEF Registered
    <3>2. QED
      BY <2>1, <3>1
  <2>3. QED
    BY <1>1, <2>1, <2>2 DEF Unregistered, Active
<1>14. CASE Dial \/ Finish \/ Reply \/ Restart
  BY <1>14 DEF Dial, Finish, Reply, Restart, Quiet, Unregistered, Active
<1>15. QED
  BY <1>3, <1>5, <1>6, <1>7, <1>8, <1>9, <1>10, <1>11, <1>12, <1>13, <1>14 DEF Next, Handle

LEMMA NextAnswered == Shape /\ InOrder /\ Answered /\ [Next]_vars => Answered'
<1> SUFFICES ASSUME Shape, InOrder, Answered, [Next]_vars,
                    pc' = "next", cmd' = "EUICC?", result', ~cut'
             PROVE  Told'
  BY DEF Answered
<1>1. ~cut
  BY CutKept
<1>2. CASE TakeLine
  <2>1. pc = "lines" /\ cmd = "EUICC?" /\ UNCHANGED cmd
    BY <1>2 DEF TakeLine
  <2>2. UNCHANGED tmp /\ Told
    BY <1>1, <1>2, <2>1, TakenCopies DEF Asks
  <2>3. QED
    BY <2>1, <2>2 DEF Told
<1>3. CASE UNCHANGED <<pc, cmd, tmp, result>>
  BY <1>1, <1>3 DEF Answered, Told
<1>4. ASSUME NEW s \in Sims, Answer(s) \/ Stray(s) PROVE Told'
  BY <1>3, <1>4 DEF Answer, Stray
<1>5. CASE ReaderEnds \/ UNCHANGED vars
  BY <1>3, <1>5 DEF ReaderEnds, vars
<1>6. ASSUME NEW r \in Requests, Receive(r[1], r[2]) \/ Refuse(r[1], r[2]) PROVE FALSE
  BY <1>6 DEF Receive, Refuse
<1>7. CASE \/ Send \/ SendFail \/ Readable \/ TimeOut \/ Read \/ NoLineYet \/ NextCommand
           \/ StartReader \/ Dial \/ Poll \/ Finish \/ Reply \/ Restart
  BY <1>7 DEF Send, SendFail, Readable, TimeOut, Read, NoLineYet, NextCommand, StartReader,
     Dial, Poll, Finish, Reply, Restart, Quiet, Ends
<1>8. QED
  BY <1>2, <1>4, <1>5, <1>6, <1>7 DEF Next, Handle

LEMMA NextSim ==
  Shape /\ Underway /\ Answered /\ SimAnswerIsOwn /\ [Next]_vars => SimAnswerIsOwn'
<1> SUFFICES ASSUME Shape, Underway, Answered, SimAnswerIsOwn, [Next]_vars,
                    pc' = "reply", task'.op = "sim", result', ~cut'
             PROVE  SimState'.fresh
  BY DEF SimAnswerIsOwn
<1>1. ~cut
  BY CutKept
<1>2. CASE Finish
  <2>1. pc = "next" /\ cmd = "EUICC?" /\ UNCHANGED <<task, cmd, tmp>>
    BY <1>2 DEF Finish, Underway, Active
  <2>2. Told
    BY <1>1, <1>2, <2>1 DEF Finish, Answered
  <2>3. Len(tmp) >= 1 /\ tmp[1].fresh /\ tmp[1].says \in {"state0", "state1"}
    BY <2>1, <2>2 DEF Told, InfoOf
  <2>4. SimState = tmp[1]
    BY <2>3, FirstFacts DEF SimState
  <2>5. SimState' = SimState
    BY <2>1 DEF SimState, FirstOf
  <2>6. QED
    BY <2>3, <2>4, <2>5
<1>3. CASE UNCHANGED <<pc, task, tmp, result>>
  <2>1. SimState' = SimState
    BY <1>3 DEF SimState, FirstOf
  <2>2. QED
    BY <1>1, <1>3, <2>1 DEF SimAnswerIsOwn
<1>4. ASSUME NEW s \in Sims, Answer(s) \/ Stray(s) PROVE SimState'.fresh
  BY <1>3, <1>4 DEF Answer, Stray
<1>5. CASE ReaderEnds \/ UNCHANGED vars
  BY <1>3, <1>5 DEF ReaderEnds, vars
<1>6. ASSUME NEW r \in Requests, Receive(r[1], r[2]) \/ Refuse(r[1], r[2]) PROVE FALSE
  BY <1>6 DEF Receive, Refuse
<1>7. CASE TakeLine
  BY <1>7 DEF TakeLine, InfoLine, Ends
<1>8. CASE \/ Send \/ SendFail \/ Readable \/ TimeOut \/ Read \/ NoLineYet \/ NextCommand
           \/ StartReader \/ Dial \/ Poll \/ Reply \/ Restart
  BY <1>8 DEF Send, SendFail, Readable, TimeOut, Read, NoLineYet, NextCommand, StartReader,
     Dial, Poll, Reply, Restart, Quiet, Ends
<1>9. QED
  BY <1>2, <1>4, <1>5, <1>6, <1>7, <1>8 DEF Next, Handle

LEMMA NextDial ==
  Shape /\ Unregistered /\ DialOwnRegistration /\ [Next]_vars => DialOwnRegistration'
<1> SUFFICES ASSUME Shape, Unregistered, DialOwnRegistration, [Next]_vars,
                    pc' = "send", cmd' = "ATD"
             PROVE  Registration'.says = "registered" /\ (~cut' => Registration'.fresh)
  BY DEF DialOwnRegistration
<1>1. ~cut' => ~cut
  BY CutKept
<1>2. CASE Dial
  <2>1. /\ pc = "next" /\ cmd = "CREG?" /\ Registration.says = "registered"
        /\ UNCHANGED tmp
    BY <1>2 DEF Dial, Registered
  <2>2. Registration' = Registration
    BY <2>1 DEF Registration, FirstOf
  <2>3. PICK i \in 1 .. Len(tmp) : Registration = tmp[i]
    <3>1. Registration # NoLine
      BY <2>1 DEF NoLine
    <3>2. QED
      BY <3>1, FirstFacts DEF Registration
  <2>4. ~cut => Registration.fresh
    <3>1. Len(tmp) \in Nat
      BY LenProperties DEF Shape, TypeOK
    <3>2. ASSUME ~cut PROVE i = 1 /\ tmp[1].fresh
      BY <2>1, <2>3, <3>1, <3>2 DEF Unregistered, Active
    <3>3. QED
      BY <2>3, <3>2
  <2>5. QED
    BY <1>1, <2>1, <2>2, <2>4
<1>3. CASE UNCHANGED <<pc, cmd, tmp>>
  <2>1. Registration' = Registration
    BY <1>3 DEF Registration, FirstOf
  <2>2. QED
    BY <1>1, <1>3, <2>1 DEF DialOwnRegistration
<1>4. ASSUME NEW s \in Sims, Answer(s) \/ Stray(s)
      PROVE  Registration'.says = "registered" /\ (~cut' => Registration'.fresh)
  BY <1>3, <1>4 DEF Answer, Stray
<1>5. CASE ReaderEnds \/ UNCHANGED vars
  BY <1>3, <1>5 DEF ReaderEnds, vars
<1>6. ASSUME NEW r \in Requests, Receive(r[1], r[2]) \/ Refuse(r[1], r[2]) PROVE FALSE
  BY <1>6 DEF Receive, Refuse, First
<1>7. CASE NextCommand
  BY <1>7 DEF NextCommand, Follows
<1>8. CASE TakeLine
  BY <1>8 DEF TakeLine, InfoLine, Ends
<1>9. CASE \/ Send \/ SendFail \/ Readable \/ TimeOut \/ Read \/ NoLineYet
           \/ StartReader \/ Poll \/ Finish \/ Reply \/ Restart
  BY <1>9 DEF Send, SendFail, Readable, TimeOut, Read, NoLineYet, StartReader, Poll, Finish,
     Reply, Restart, Quiet, Ends
<1>10. QED
  BY <1>2, <1>4, <1>5, <1>6, <1>7, <1>8, <1>9 DEF Next, Handle

LEMMA InitIInv == Init => IInv
<1> SUFFICES ASSUME Init PROVE IInv
  OBVIOUS
<1>1. TypeOK /\ Bounds
  BY InitShape DEF Shape
<1>2. InOrder
  BY DEF Init, InOrder, Nothing, Empty
<1>3. Underway /\ Unregistered /\ Answered /\ SimAnswerIsOwn /\ DialOwnRegistration
  BY DEF Init, Underway, Unregistered, Active, Answered, SimAnswerIsOwn, DialOwnRegistration
<1>4. QED
  BY <1>1, <1>2, <1>3 DEF IInv

LEMMA Invariant == Spec => []IInv
<1>1. IInv /\ [Next]_vars => IInv'
  BY NextShape, NextUnderway, NextInOrder, NextUnregistered, NextAnswered, NextSim, NextDial
     DEF IInv, Shape
<1>2. QED
  BY InitIInv, <1>1, PTL DEF Spec

\* Every reachable state is well typed: no device, no buffer and no tmp ever
\* holds more lines than it has room for, and none that is no line.
THEOREM TypeCorrect == Spec => []TypeOK
<1>1. IInv => TypeOK
  BY DEF IInv
<1>2. QED
  BY <1>1, Invariant, PTL

\* A SIM is reported present by an answer of its own device to this test,
\* unless a command has been cut short since power-on: SimAnswerIsOwn.
THEOREM SimAnswerOwn == Spec => []SimAnswerIsOwn
<1>1. IInv => SimAnswerIsOwn
  BY DEF IInv
<1>2. QED
  BY <1>1, Invariant, PTL

\* The number is dialled on the word of the device itself, just given, unless
\* a command has been cut short since power-on: DialOwnRegistration.
THEOREM DialOwn == Spec => []DialOwnRegistration
<1>1. IInv => DialOwnRegistration
  BY DEF IInv
<1>2. QED
  BY <1>1, Invariant, PTL

\* Nothing but a command cut short leaves a line behind a request: InStep.
THEOREM StepKept == Spec => []InStep
<1>1. IInv => InStep
  BY DEF IInv, InOrder, Nothing, Empty, InStep
<1>2. QED
  BY <1>1, Invariant, PTL
=============================================================================
