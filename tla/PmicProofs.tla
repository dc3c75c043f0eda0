----------------------------- MODULE PmicProofs -----------------------------
(***************************************************************************)
(* Theorems about the two clients of the PMIC's registers: Pmic, for any   *)
(* number of accesses that fail or go astray, and, from DcxInv on, DcxCali *)
(* for any fields of TSX_CTRL5, any banks and every comparator.            *)
(***************************************************************************)
EXTENDS DcxCali, MC_Pmic, TLAPS

Tasks ==
  [op : {"none", "temp", "restore", "cdac", "load"}, next : 1 .. 9,
   at : {"select", "value", "first", "wait", "measure"},
   orig : SUBSET P!Bits, astray : BOOLEAN,
   answer : {"none", "ok", "unsettled", "fail"}]

\* The part of the types that the argument uses.
Shape ==
  /\ reg \in [P!Registers -> SUBSET P!Bits]
  /\ selected \in P!Registers
  /\ user \in [P!Users -> Tasks]
  /\ mixed \in BOOLEAN

\* Who runs what.
Roles ==
  /\ user["port"].op # "load"
  /\ user["service"].op \in {"none", "load"}

\* Between its two calls an access stays with its register unless somebody
\* else selects another or its own select fails.
OwnAccess ==
  \A u \in P!Users :
    P!Accessing(u, "value") /\ ~user[u].astray => selected = P!Access(u).reg

\* What a read-modify-write has read is what the register still holds when it
\* is written back.
Current ==
  /\ user["port"].op = "restore" /\ user["port"].next \in {2, 4, 6, 8} /\ ~mixed
  => user["port"].orig = reg[P!Access("port").reg]

IInv == Shape /\ Roles /\ OwnAccess /\ Current

Accesses ==
  [kind : {"read", "write"}, reg : P!Registers, mask : SUBSET P!Bits, bits : SUBSET P!Bits]

\* Every access of every program names a register and bits of it.
LEMMA ProgramFacts ==
  ASSUME NEW op \in {"none", "temp", "restore", "cdac", "load"}
  PROVE  /\ Len(P!Program(op)) \in 0 .. 8
         /\ \A n \in 1 .. Len(P!Program(op)) : P!Program(op)[n] \in Accesses
<1>1. /\ \A r \in P!Registers : P!Fetch(r) \in Accesses
      /\ \A r \in P!Registers, mask, bits \in SUBSET P!Bits : P!Lay(r, mask, bits) \in Accesses
  BY DEF P!Fetch, P!Lay, Accesses
<1>2. CASE op = "restore"
  <2>1. P!Program(op) = P!Restore
    BY <1>2 DEF P!Program
  <2>2. Len(P!Restore) = 8
    BY DEF P!Restore
  <2>3. {"ctrl0", "ctrl1", "ctrl3"} \subseteq P!Registers
    BY DEF P!Registers
  <2>4. /\ {"clk"} \in SUBSET P!Bits /\ {"en"} \in SUBSET P!Bits /\ {"adc"} \in SUBSET P!Bits
        /\ {"ldo"} \in SUBSET P!Bits /\ {} \in SUBSET P!Bits
    BY DEF P!Bits
  <2>5. \A n \in 1 .. 8 : P!Restore[n] \in Accesses
    <3>1. /\ P!Fetch("ctrl0") \in Accesses /\ P!Fetch("ctrl1") \in Accesses
          /\ P!Fetch("ctrl3") \in Accesses
          /\ P!Lay("ctrl0", {"clk"}, {"clk"}) \in Accesses
          /\ P!Lay("ctrl3", {"en"}, {}) \in Accesses
          /\ P!Lay("ctrl1", {"adc"}, {}) \in Accesses /\ P!Lay("ctrl0", {"ldo"}, {}) \in Accesses
      BY <1>1, <2>3, <2>4
    <3>2. QED
      BY <3>1 DEF P!Restore
  <2>6. QED
    BY <2>1, <2>2, <2>5
<1>3. CASE op = "cdac"
  <2>1. P!Program(op) = P!SetCdac
    BY <1>3 DEF P!Program
  <2>2. /\ P!Store("wr_prot", {"key"}) \in Accesses /\ P!Store("ctrl10", {"tool"}) \in Accesses
    BY <1>1 DEF P!Store, P!Registers, P!Bits
  <2>3. QED
    BY <2>1, <2>2 DEF P!SetCdac
<1>4. CASE op = "load"
  <2>1. P!Program(op) = P!Load
    BY <1>4 DEF P!Program
  <2>2. \A r \in {"ctrl10", "ctrl5", "ctrl6", "ctrl13"} : P!Store(r, {"saved"}) \in Accesses
    BY <1>1 DEF P!Store, P!Registers, P!Bits
  <2>3. Len(P!Load) = 4 /\ \A n \in 1 .. 4 : P!Load[n] \in Accesses
    BY <2>2 DEF P!Load
  <2>4. QED
    BY <2>1, <2>3
<1>5. CASE op \in {"none", "temp"}
  <2>1. P!Program(op) = <<>>
    BY <1>5 DEF P!Program
  <2>2. QED
    BY <2>1
<1>6. QED
  BY <1>2, <1>3, <1>4, <1>5

\* A restore fetches what it writes next, and only a restore fetches or
\* names the sensor's registers.
LEMMA RestoreFacts ==
  /\ Len(P!Restore) = 8
  /\ \A n \in {1, 3, 5, 7} : P!Restore[n].kind = "read" /\ P!Restore[n].reg = P!Restore[n + 1].reg
  /\ \A n \in {2, 4, 6, 8} : P!Restore[n].kind = "write"
<1>1. /\ P!Restore[1].kind = "read" /\ P!Restore[2].kind = "write"
      /\ P!Restore[1].reg = P!Restore[2].reg
  BY DEF P!Restore, P!Fetch, P!Lay
<1>2. /\ P!Restore[3].kind = "read" /\ P!Restore[4].kind = "write"
      /\ P!Restore[3].reg = P!Restore[4].reg
  BY DEF P!Restore, P!Fetch, P!Lay
<1>3. /\ P!Restore[5].kind = "read" /\ P!Restore[6].kind = "write"
      /\ P!Restore[5].reg = P!Restore[6].reg
  BY DEF P!Restore, P!Fetch, P!Lay
<1>4. /\ P!Restore[7].kind = "read" /\ P!Restore[8].kind = "write"
      /\ P!Restore[7].reg = P!Restore[8].reg
  BY DEF P!Restore, P!Fetch, P!Lay
<1>5. Len(P!Restore) = 8
  BY DEF P!Restore
<1>6. QED
  BY <1>1, <1>2, <1>3, <1>4, <1>5

LEMMA StoreFacts ==
  /\ \A n \in 1 .. Len(P!SetCdac) : P!SetCdac[n].kind = "write" /\ P!SetCdac[n].mask = P!Bits
  /\ \A n \in 1 .. Len(P!Load) :
       P!Load[n].kind = "write" /\ P!Load[n].mask = P!Bits /\ P!Load[n].reg \notin P!Sensor
<1>1. \A n \in 1 .. Len(P!SetCdac) : P!SetCdac[n].kind = "write" /\ P!SetCdac[n].mask = P!Bits
  BY DEF P!SetCdac, P!Store, P!Lay
<1>2. \A n \in 1 .. Len(P!Load) :
        P!Load[n].kind = "write" /\ P!Load[n].mask = P!Bits /\ P!Load[n].reg \notin P!Sensor
  BY DEF P!Load, P!Store, P!Lay, P!Sensor
<1>3. QED
  BY <1>1, <1>2

LEMMA InitIInv == P!Init => IInv
<1> SUFFICES ASSUME P!Init PROVE IInv
  OBVIOUS
<1>1. P!Idle \in Tasks /\ [P!Idle EXCEPT !.op = "load"] \in Tasks
  <2>1. {} \in SUBSET P!Bits /\ 1 \in 1 .. 9
    OBVIOUS
  <2>2. P!Idle \in Tasks
    BY <2>1 DEF P!Idle, Tasks
  <2>3. [P!Idle EXCEPT !.op = "load"] \in Tasks
    BY <2>2 DEF Tasks
  <2>4. QED
    BY <2>2, <2>3
<1>2. P!PowerOn \in [P!Registers -> SUBSET P!Bits]
  BY DEF P!PowerOn, P!Registers, P!Bits
<1>3. Shape
  <2>1. user \in [P!Users -> Tasks]
    BY <1>1 DEF P!Init
  <2>2. "ctrl5" \in P!Registers
    BY DEF P!Registers
  <2>3. QED
    BY <1>2, <2>1, <2>2 DEF P!Init, Shape
<1>4. Roles /\ Current
  BY DEF P!Init, Roles, Current, P!Users, P!Idle
<1>5. \A u \in P!Users : user[u].at = "select"
  BY DEF P!Init, P!Idle
<1>6. OwnAccess
  BY <1>5 DEF OwnAccess, P!Accessing
<1>7. QED
  BY <1>3, <1>4, <1>6 DEF IInv

LEMMA AccessFacts ==
  ASSUME Shape, Roles, NEW u \in P!Users, NEW at, P!Accessing(u, at)
  PROVE  /\ user[u] \in Tasks /\ user[u].at = at /\ user[u].answer = "none"
         /\ P!Access(u) \in Accesses
         /\ user[u].op \in {"restore", "cdac", "load"}
         /\ u = "service" => user[u].op = "load"
         /\ user[u].next + 1 \in 1 .. 9
         /\ user[u].op = "restore" =>
              P!Access(u) = P!Restore[user[u].next] /\ user[u].next \in 1 .. 8
         /\ user[u].op # "restore" => /\ P!Access(u).kind = "write" /\ P!Access(u).mask = P!Bits
                                      /\ user[u].op = "load" => P!Access(u).reg \notin P!Sensor
<1>1. user[u] \in Tasks /\ user[u].next \in 1 .. Len(P!Program(user[u].op))
  BY DEF Shape, P!Accessing, Tasks
<1>2. Len(P!Program(user[u].op)) \in 0 .. 8 /\ P!Access(u) \in Accesses
  BY <1>1, ProgramFacts DEF P!Access, Tasks
<1>3. user[u].op \in {"restore", "cdac", "load"}
  <2>1. Len(<<>>) = 0
    OBVIOUS
  <2>2. user[u].op \in {"none", "temp"} => P!Program(user[u].op) = <<>>
    BY DEF P!Program
  <2>3. QED
    BY <1>1, <2>1, <2>2 DEF Tasks
<1>4. user[u].op = "restore" => P!Access(u) = P!Restore[user[u].next] /\ user[u].next \in 1 .. 8
  BY <1>1, RestoreFacts DEF P!Access, P!Program
<1>5. user[u].op = "cdac" => P!Access(u).kind = "write" /\ P!Access(u).mask = P!Bits
  BY <1>1, StoreFacts DEF P!Access, P!Program
<1>6. user[u].op = "load" =>
        P!Access(u).kind = "write" /\ P!Access(u).mask = P!Bits /\ P!Access(u).reg \notin P!Sensor
  BY <1>1, StoreFacts DEF P!Access, P!Program
<1>7. user[u].next + 1 \in 1 .. 9
  <2> DEFINE n == user[u].next
             l == Len(P!Program(user[u].op))
  <2>1. n \in 1 .. l /\ l \in 0 .. 8
    BY <1>1, <1>2
  <2> HIDE DEF n, l
  <2>2. n + 1 \in 1 .. 9
    BY <2>1
  <2>3. QED
    BY <2>2 DEF n
<1>8. user[u].at = at /\ user[u].answer = "none" /\ (u = "service" => user[u].op = "load")
  BY <1>3 DEF P!Accessing, P!Active, Roles
<1>9. QED
  BY <1>1, <1>2, <1>3, <1>4, <1>5, <1>6, <1>7, <1>8

\* A user that is not at "value", or is flagged or done, claims no register;
\* one that is left alone keeps its claim as long as the selection stays.
LEMMA OwnKept ==
  ASSUME IInv, NEW u \in P!Users, NEW t \in Tasks, user' = [user EXCEPT ![u] = t],
         t.at # "value" \/ t.astray \/ t.answer # "none", selected' = selected
  PROVE  OwnAccess'
<1> SUFFICES ASSUME NEW v \in P!Users, P!Accessing(v, "value")', ~user'[v].astray
             PROVE  selected' = P!Access(v)'.reg
  BY DEF OwnAccess
<1>1. v # u
  BY DEF IInv, Shape, P!Accessing, P!Active
<1>2. user'[v] = user[v]
  BY <1>1 DEF IInv, Shape
<1>3. P!Accessing(v, "value") /\ ~user[v].astray /\ P!Access(v)' = P!Access(v)
  BY <1>2 DEF P!Accessing, P!Active, P!Access
<1>4. QED
  BY <1>3 DEF IInv, OwnAccess

\* What a step that writes no register, and neither ends nor begins an access
\* of the port, leaves of Current.
LEMMA CurrentKept ==
  ASSUME Current, UNCHANGED reg, mixed' \in BOOLEAN, ~mixed' => ~mixed,
         user'["port"].op = user["port"].op, user'["port"].next = user["port"].next,
         user'["port"].orig = user["port"].orig
  PROVE  Current'
BY DEF Current, P!Access

LEMMA SelectIInv ==
  ASSUME IInv, NEW u \in P!Users, P!Select(u) \/ P!SelectFail(u) \/ P!OpenFail(u)
  PROVE  IInv'
<1> USE DEF IInv
<1>1. P!Accessing(u, "select") /\ UNCHANGED <<reg, mixed>>
  BY DEF P!Select, P!SelectFail, P!OpenFail
<1>2. user[u] \in Tasks /\ P!Access(u) \in Accesses
  BY <1>1, AccessFacts
<1>3. CASE P!Select(u)
  <2> DEFINE t(v) == IF v = u THEN [user[u] EXCEPT !.at = "value"]
                     ELSE [user[v] EXCEPT !.astray = @ \/ user[v].at = "value"]
  <2>1. user' = [v \in P!Users |-> t(v)] /\ selected' = P!Access(u).reg
    BY <1>3 DEF P!Select
  <2>2. \A v \in P!Users :
          /\ t(v) \in Tasks /\ t(v).op = user[v].op /\ t(v).next = user[v].next
          /\ t(v).orig = user[v].orig /\ t(v).answer = user[v].answer
          /\ v # u => t(v).at = user[v].at /\ (t(v).at = "value" => t(v).astray)
    BY DEF Tasks, Shape
  <2> HIDE DEF t
  <2>3. Shape'
    BY <1>1, <1>2, <2>1, <2>2 DEF Shape, Accesses
  <2>4. Roles'
    BY <2>1, <2>2 DEF Roles, P!Users
  <2>5. OwnAccess'
    <3> SUFFICES ASSUME NEW v \in P!Users, P!Accessing(v, "value")', ~user'[v].astray
                 PROVE  selected' = P!Access(v)'.reg
      BY DEF OwnAccess
    <3>1. v = u
      BY <2>1, <2>2 DEF P!Accessing
    <3>2. P!Access(u)' = P!Access(u)
      BY <2>1, <2>2 DEF P!Access
    <3>3. QED
      BY <2>1, <3>1, <3>2
  <2>6. Current'
    BY <1>1, <2>1, <2>2, CurrentKept DEF P!Users, Shape
  <2>7. QED
    BY <2>3, <2>4, <2>5, <2>6
<1>4. CASE P!SelectFail(u)
  <2> DEFINE t == [user[u] EXCEPT !.at = "value", !.astray = TRUE]
  <2>1. user' = [user EXCEPT ![u] = t] /\ selected' = selected
    BY <1>4 DEF P!SelectFail
  <2>2. /\ t \in Tasks /\ t.op = user[u].op /\ t.next = user[u].next
        /\ t.orig = user[u].orig /\ t.astray
    BY <1>2 DEF Tasks
  <2> HIDE DEF t
  <2>3. Shape' /\ Roles'
    BY <1>1, <2>1, <2>2 DEF Shape, Roles, P!Users
  <2>4. OwnAccess'
    BY <2>1, <2>2, OwnKept
  <2>5. Current'
    BY <1>1, <2>1, <2>2, CurrentKept DEF P!Users, Shape
  <2>6. QED
    BY <2>3, <2>4, <2>5
<1>5. CASE P!OpenFail(u)
  <2> DEFINE t == [user[u] EXCEPT !.answer = "fail"]
  <2>1. user' = [user EXCEPT ![u] = t] /\ selected' = selected
    BY <1>5 DEF P!OpenFail
  <2>2. t \in Tasks /\ t.op = user[u].op /\ t.next = user[u].next /\ t.orig = user[u].orig
          /\ t.at = "select"
    BY <1>1, <1>2 DEF Tasks, P!Accessing
  <2> HIDE DEF t
  <2>3. Shape' /\ Roles'
    BY <1>1, <2>1, <2>2 DEF Shape, Roles, P!Users
  <2>4. OwnAccess'
    BY <2>1, <2>2, OwnKept
  <2>5. Current'
    BY <1>1, <2>1, <2>2, CurrentKept DEF P!Users, Shape
  <2>6. QED
    BY <2>3, <2>4, <2>5
<1>6. QED
  BY <1>3, <1>4, <1>5

LEMMA AdvanceFacts ==
  ASSUME IInv, NEW u \in P!Users, P!Accessing(u, "value"), NEW orig \in SUBSET P!Bits,
         P!Advance(u, orig), selected' = selected
  PROVE  /\ user' \in [P!Users -> Tasks] /\ Roles' /\ OwnAccess'
         /\ user'[u].op = user[u].op /\ user'[u].next = user[u].next + 1
         /\ user'[u].orig = orig
         /\ \A v \in P!Users : v # u => user'[v] = user[v]
<1> USE DEF IInv
<1> DEFINE t == [user[u] EXCEPT !.at = "select", !.next = @ + 1, !.orig = orig, !.astray = FALSE]
<1>1. user[u] \in Tasks /\ user[u].next + 1 \in 1 .. 9
  BY AccessFacts
<1>2. user' = [user EXCEPT ![u] = t]
  BY DEF P!Advance
<1>3. /\ t \in Tasks /\ t.op = user[u].op /\ t.next = user[u].next + 1
      /\ t.orig = orig /\ t.at = "select"
  BY <1>1 DEF Tasks
<1> HIDE DEF t
<1>4. user' \in [P!Users -> Tasks] /\ Roles' /\ OwnAccess'
  BY <1>2, <1>3, OwnKept DEF Shape, Roles, P!Users
<1>5. QED
  BY <1>2, <1>3, <1>4 DEF Shape

\* The second call of an access.  It changes no bit but those the access
\* names, if no access of this request has gone astray.
LEMMA ValueFacts ==
  ASSUME IInv, NEW u \in P!Users, P!Value(u) \/ P!ValueFail(u)
  PROVE  /\ IInv'
         /\ ~mixed' => \A r \in P!Registers :
              P!Changed(r) \subseteq (IF P!Access(u).reg = r THEN P!Access(u).mask ELSE {})
<1> USE DEF IInv
<1>1. P!Accessing(u, "value") /\ selected' = selected
  BY DEF P!Value, P!ValueFail
<1>2. /\ user[u] \in Tasks /\ P!Access(u) \in Accesses /\ u \in P!Users
      /\ user[u].op \in {"restore", "cdac", "load"} /\ (u = "service" => user[u].op = "load")
      /\ user[u].op = "restore" => P!Access(u) = P!Restore[user[u].next] /\ user[u].next \in 1 .. 8
      /\ user[u].op # "restore" => /\ P!Access(u).kind = "write" /\ P!Access(u).mask = P!Bits
                                   /\ user[u].op = "load" => P!Access(u).reg \notin P!Sensor
  BY <1>1, AccessFacts
<1>3. CASE P!ValueFail(u)
  <2>1. P!Advance(u, {}) /\ {} \in SUBSET P!Bits /\ mixed' /\ UNCHANGED reg /\ mixed' \in BOOLEAN
    BY <1>3 DEF P!ValueFail
  <2>2. user' \in [P!Users -> Tasks] /\ Roles' /\ OwnAccess'
    BY <1>1, <2>1, AdvanceFacts
  <2>3. QED
    BY <1>1, <2>1, <2>2 DEF Shape, Current
<1>4. CASE P!Value(u) /\ P!Access(u).kind = "read"
  <2>1. user[u].op = "restore" /\ u = "port"
    BY <1>2, <1>4 DEF Accesses, P!Users
  <2>2. user[u].next \in {1, 3, 5, 7} /\ P!Access(u).reg = P!Restore[user[u].next + 1].reg
    BY <1>2, <1>4, <2>1, RestoreFacts DEF Accesses
  <2>3. UNCHANGED reg /\ P!Advance(u, reg[selected]) /\ reg[selected] \in SUBSET P!Bits
    BY <1>4 DEF P!Value, Shape
  <2>4. mixed' = (mixed \/ user[u].astray) /\ mixed' \in BOOLEAN
    BY <1>2, <1>4 DEF P!Value, Shape, Tasks
  <2>5. /\ user' \in [P!Users -> Tasks] /\ Roles' /\ OwnAccess'
        /\ user'[u].op = user[u].op /\ user'[u].next = user[u].next + 1
        /\ user'[u].orig = reg[selected]
    BY <1>1, <2>3, AdvanceFacts
  <2>6. ASSUME ~mixed' PROVE selected = P!Access(u)'.reg
    <3>1. selected = P!Access(u).reg
      BY <1>1, <2>4, <2>6 DEF OwnAccess
    <3>2. P!Access(u)' = P!Restore[user[u].next + 1]
      BY <2>1, <2>5 DEF P!Access, P!Program
    <3>3. QED
      BY <2>2, <3>1, <3>2
  <2>7. Current'
    BY <2>1, <2>3, <2>5, <2>6 DEF Current
  <2>8. \A r \in P!Registers : P!Changed(r) = {}
    BY <2>3 DEF P!Changed
  <2>9. QED
    BY <1>1, <2>3, <2>4, <2>5, <2>7, <2>8 DEF Shape
<1>5. CASE P!Value(u) /\ P!Access(u).kind # "read"
  <2>1. reg' = [reg EXCEPT ![selected] = P!Written(u)] /\ P!Advance(u, {}) /\ {} \in SUBSET P!Bits
    BY <1>5 DEF P!Value
  <2>2. mixed' = (mixed \/ user[u].astray) /\ mixed' \in BOOLEAN
    BY <1>2, <1>5 DEF P!Value, Shape, Tasks
  <2>3. P!Written(u) \in SUBSET P!Bits
    BY <1>2 DEF P!Written, Tasks, Accesses
  <2>4. /\ user' \in [P!Users -> Tasks] /\ Roles' /\ OwnAccess'
        /\ user'[u].op = user[u].op /\ user'[u].next = user[u].next + 1
        /\ \A v \in P!Users : v # u => user'[v] = user[v]
    BY <1>1, <2>1, AdvanceFacts
  <2>5. ~mixed' => ~mixed /\ selected = P!Access(u).reg
    BY <1>1, <2>2 DEF OwnAccess
  <2>6. Shape'
    BY <1>1, <2>1, <2>2, <2>3, <2>4 DEF Shape
  <2>7. Current'
    <3>1. CASE u = "port"
      <4>1. user[u].op = "restore" => user[u].next \in {2, 4, 6, 8}
        <5> SUFFICES ASSUME user[u].op = "restore" PROVE user[u].next \in {2, 4, 6, 8}
          OBVIOUS
        <5>1. user[u].next \in 1 .. 8 /\ P!Access(u) = P!Restore[user[u].next]
          BY <1>2
        <5>2. user[u].next \notin {1, 3, 5, 7}
          BY <1>5, <5>1, RestoreFacts
        <5>3. QED
          BY <5>1, <5>2
      <4>2. user'[u].op = "restore" => user'[u].next \in {3, 5, 7, 9}
        BY <2>4, <4>1
      <4>3. QED
        BY <3>1, <4>2 DEF Current
    <3>2. CASE u = "service"
      <4> SUFFICES ASSUME user'["port"].op = "restore", user'["port"].next \in {2, 4, 6, 8}, ~mixed'
                   PROVE  user'["port"].orig = reg'[P!Access("port")'.reg]
        BY DEF Current
      <4>1. user'["port"] = user["port"]
        BY <2>4, <3>2 DEF P!Users
      <4>2. user["port"].orig = reg[P!Access("port").reg]
        BY <2>5, <4>1 DEF Current
      <4>3. selected \notin P!Sensor
        BY <1>2, <2>5, <3>2
      <4>4. P!Access("port")' = P!Access("port") /\ P!Access("port").reg \in P!Sensor
        <5>1. /\ P!Access("port")' = P!Access("port")
              /\ P!Access("port") = P!Restore[user["port"].next]
          BY <4>1 DEF P!Access, P!Program
        <5>2. \A n \in {2, 4, 6, 8} : P!Restore[n].reg \in P!Sensor
          BY DEF P!Restore, P!Lay, P!Sensor
        <5>3. QED
          BY <4>1, <5>1, <5>2
      <4>5. reg'[P!Access("port").reg] = reg[P!Access("port").reg]
        BY <2>1, <4>3, <4>4 DEF Shape, P!Sensor, P!Registers
      <4>6. QED
        BY <4>1, <4>2, <4>4, <4>5
    <3>3. QED
      BY <3>1, <3>2 DEF P!Users
  <2>8. ASSUME ~mixed', NEW r \in P!Registers
        PROVE  P!Changed(r) \subseteq (IF P!Access(u).reg = r THEN P!Access(u).mask ELSE {})
    <3>1. CASE r # selected
      BY <2>1, <3>1 DEF P!Changed, Shape
    <3>2. CASE r = selected
      <4>1. P!Access(u).reg = r /\ reg'[r] = P!Written(u)
        BY <2>1, <2>5, <2>8, <3>2 DEF Shape
      <4>2. CASE user[u].op = "restore"
        <5>1. u = "port" /\ user[u].next \in 1 .. 8 /\ P!Access(u) = P!Restore[user[u].next]
          BY <1>2, <4>2 DEF P!Users
        <5>2. user[u].next \in {2, 4, 6, 8}
          BY <1>5, <5>1, RestoreFacts
        <5>3. user[u].orig = reg[r]
          BY <2>5, <2>8, <4>1, <4>2, <5>1, <5>2 DEF Current
        <5>4. QED
          BY <4>1, <5>3 DEF P!Changed, P!Written
      <4>3. CASE user[u].op # "restore"
        <5>1. P!Access(u).mask = P!Bits /\ reg[r] \in SUBSET P!Bits /\ reg'[r] \in SUBSET P!Bits
          BY <1>2, <2>3, <4>1, <4>3 DEF Shape
        <5>2. QED
          BY <4>1, <5>1 DEF P!Changed
      <4>4. QED
        BY <4>2, <4>3
    <3>3. QED
      BY <3>1, <3>2
  <2>9. QED
    BY <2>4, <2>6, <2>7, <2>8
<1>6. QED
  BY <1>3, <1>4, <1>5

\* The other steps of a user: it gets a request, answers it or is through.
LEMMA TaskIInv ==
  ASSUME IInv, NEW u \in P!Users,
         \/ P!Finish(u) \/ P!Reply(u) \/ (P!Die /\ u = "port")
         \/ \E op \in {"temp", "restore", "cdac"} : P!Receive(op) /\ u = "port"
  PROVE  IInv' /\ UNCHANGED reg
<1> USE DEF IInv
<1>1. selected' = selected /\ UNCHANGED reg /\ user[u] \in Tasks /\ P!Idle \in Tasks
  <2>1. {} \in SUBSET P!Bits /\ 1 \in 1 .. 9
    OBVIOUS
  <2>2. P!Idle \in Tasks
    BY <2>1 DEF P!Idle, Tasks
  <2>3. QED
    BY <2>2 DEF P!Finish, P!Reply, P!Die, P!Receive, Shape
<1>2. CASE P!Finish(u)
  <2> DEFINE t == [user[u] EXCEPT !.answer = "ok"]
  <2>1. user' = [user EXCEPT ![u] = t] /\ UNCHANGED mixed
    BY <1>2 DEF P!Finish
  <2>2. /\ t \in Tasks /\ t.op = user[u].op /\ t.next = user[u].next /\ t.orig = user[u].orig
        /\ t.answer = "ok"
    BY <1>1 DEF Tasks
  <2> HIDE DEF t
  <2>3. Shape' /\ Roles'
    BY <1>1, <2>1, <2>2 DEF Shape, Roles, P!Users
  <2>4. OwnAccess'
    BY <1>1, <2>1, <2>2, OwnKept
  <2>5. Current'
    BY <1>1, <2>1, <2>2, CurrentKept DEF P!Users, Shape
  <2>6. QED
    BY <1>1, <2>3, <2>4, <2>5
<1>3. CASE P!Reply(u) \/ (P!Die /\ u = "port")
  <2>1. user' = [user EXCEPT ![u] = P!Idle] /\ UNCHANGED mixed
    BY <1>3 DEF P!Reply, P!Die
  <2>2. P!Idle.op = "none" /\ P!Idle.at = "select"
    BY DEF P!Idle
  <2>3. Shape' /\ Roles'
    BY <1>1, <2>1, <2>2 DEF Shape, Roles, P!Users
  <2>4. OwnAccess'
    BY <1>1, <2>1, <2>2, OwnKept
  <2>5. Current'
    <3>1. CASE u = "port"
      BY <2>1, <2>2, <3>1 DEF Current, Shape
    <3>2. CASE u # "port"
      BY <1>1, <2>1, <3>2, CurrentKept DEF Shape, P!Users
    <3>3. QED
      BY <3>1, <3>2
  <2>6. QED
    BY <1>1, <2>3, <2>4, <2>5
<1>4. ASSUME NEW op \in {"temp", "restore", "cdac"}, P!Receive(op), u = "port"
      PROVE  IInv'
  <2> DEFINE at == IF op # "temp" THEN "select" ELSE IF inited THEN "measure" ELSE "first"
             t == [user[u] EXCEPT !.op = op, !.at = at]
  <2>1. user' = [user EXCEPT ![u] = t] /\ mixed' = FALSE /\ user[u] = P!Idle
    BY <1>4 DEF P!Receive
  <2>2. t \in Tasks /\ t.op = op /\ t.at # "value" /\ t.next = 1
    <3>1. at \in {"select", "measure", "first"} /\ user[u].next = 1
      BY <2>1 DEF P!Idle
    <3> HIDE DEF at
    <3>2. QED
      BY <1>1, <3>1 DEF Tasks
  <2> HIDE DEF t, at
  <2>3. Shape' /\ Roles'
    BY <1>1, <1>4, <2>1, <2>2 DEF Shape, Roles, P!Users
  <2>4. OwnAccess'
    BY <1>1, <2>1, <2>2, OwnKept
  <2>5. Current'
    BY <1>4, <2>1, <2>2 DEF Current, Shape
  <2>6. QED
    BY <2>3, <2>4, <2>5
<1>5. QED
  BY <1>1, <1>2, <1>3, <1>4

\* The kernel's readings of the zone, which are not accesses.
LEMMA ZoneFacts ==
  ASSUME IInv, P!First \/ P!Wait \/ P!Measure
  PROVE  /\ IInv'
         /\ \A r \in P!Registers : P!Changed(r) \subseteq
              IF r \in P!Sensor /\ (P!Measuring("first") \/ P!Measuring("measure"))
              THEN {"clk", "ldo", "adc", "en"} ELSE {}
<1> USE DEF IInv
<1>1. /\ user["port"] \in Tasks /\ user["port"].op = "temp" /\ selected' = selected
      /\ user["port"].answer = "none" /\ "port" \in P!Users
  BY DEF P!First, P!Wait, P!Measure, P!Measuring, P!Active, Shape, P!Users
<1>2. PICK t \in Tasks : /\ user' = [user EXCEPT !["port"] = t] /\ t.op = "temp"
                         /\ t.at # "value" \/ t.answer # "none"
  <2>1. CASE P!First
    <3> DEFINE t == [user["port"] EXCEPT !.at = "wait"]
    <3>1. t \in Tasks /\ t.op = "temp" /\ t.at = "wait"
      BY <1>1 DEF Tasks
    <3>2. user' = [user EXCEPT !["port"] = t]
      BY <2>1 DEF P!First, P!Goto
    <3> HIDE DEF t
    <3>3. QED
      BY <3>1, <3>2
  <2>2. CASE P!Wait
    <3> DEFINE t == [user["port"] EXCEPT !.at = "measure"]
    <3>1. t \in Tasks /\ t.op = "temp" /\ t.at = "measure"
      BY <1>1 DEF Tasks
    <3>2. user' = [user EXCEPT !["port"] = t]
      BY <2>2 DEF P!Wait, P!Goto
    <3> HIDE DEF t
    <3>3. QED
      BY <3>1, <3>2
  <2>3. CASE P!Measure
    <3>1. PICK a \in {"ok", "unsettled", "fail"} : P!Answer(a)
      BY <2>3 DEF P!Measure
    <3>2. [user["port"] EXCEPT !.answer = a] \in Tasks
      BY <1>1 DEF Tasks
    <3>3. QED
      BY <1>1, <3>1, <3>2 DEF P!Answer, Tasks
  <2>4. QED
    BY <2>1, <2>2, <2>3
<1>3. OwnAccess'
  BY <1>1, <1>2, OwnKept
<1>4. Roles' /\ Current' /\ user' \in [P!Users -> Tasks]
  BY <1>1, <1>2 DEF Roles, Current, P!Users, Shape
<1>5. mixed' \in BOOLEAN
  BY DEF P!First, P!Wait, P!Measure, Shape
<1>6. reg' = reg \/ (P!ReadZone /\ (P!Measuring("first") \/ P!Measuring("measure")))
  BY DEF P!First, P!Wait, P!Measure
<1>7. CASE reg' = reg
  BY <1>1, <1>3, <1>4, <1>5, <1>7 DEF Shape, P!Changed
<1>8. CASE P!ReadZone /\ (P!Measuring("first") \/ P!Measuring("measure"))
  <2> DEFINE zero == (reg["ctrl0"] \ {"clk"}) \cup {"ldo"}
             one == reg["ctrl1"] \cup {"adc"}
             three == reg["ctrl3"] \cup {"en"}
  <2>1. reg' = [reg EXCEPT !["ctrl0"] = zero, !["ctrl1"] = one, !["ctrl3"] = three]
    BY <1>8 DEF P!ReadZone
  <2>2. P!Sensor = {"ctrl0", "ctrl1", "ctrl3"} /\ P!Sensor \subseteq P!Registers
    BY DEF P!Sensor, P!Registers
  <2>3. zero \in SUBSET P!Bits /\ one \in SUBSET P!Bits /\ three \in SUBSET P!Bits
    BY <2>2 DEF Shape, P!Bits
  <2> HIDE DEF zero, one, three
  <2>4. reg' \in [P!Registers -> SUBSET P!Bits]
    BY <2>1, <2>3 DEF Shape
  <2>5. /\ reg'["ctrl0"] = zero /\ reg'["ctrl1"] = one /\ reg'["ctrl3"] = three
        /\ \A r \in P!Registers \ P!Sensor : reg'[r] = reg[r]
    BY <2>1, <2>2 DEF Shape
  <2>6. /\ P!Changed("ctrl0") \subseteq {"clk", "ldo"} /\ P!Changed("ctrl1") \subseteq {"adc"}
        /\ P!Changed("ctrl3") \subseteq {"en"}
        /\ \A r \in P!Registers \ P!Sensor : P!Changed(r) = {}
    BY <2>5 DEF P!Changed, zero, one, three
  <2>7. \A r \in P!Registers : P!Changed(r) \subseteq
          IF r \in P!Sensor THEN {"clk", "ldo", "adc", "en"} ELSE {}
    BY <2>2, <2>6
  <2>8. QED
    BY <1>1, <1>3, <1>4, <1>5, <1>8, <2>4, <2>7 DEF Shape
<1>9. QED
  BY <1>6, <1>7, <1>8

LEMMA StutterIInv == IInv /\ UNCHANGED P!vars => IInv'
BY DEF IInv, P!vars, Shape, Roles, OwnAccess, P!Accessing, P!Active, P!Access, Current

\* A step keeps the invariant, and the bits it was not asked to change.
LEMMA NextFacts ==
  ASSUME IInv, [P!Next]_(P!vars)
  PROVE  /\ IInv'
         /\ ~mixed' => \A r \in P!Registers : P!Changed(r) \subseteq P!MayChange(r)
<1>0. \A r \in P!Registers : UNCHANGED reg => P!Changed(r) = {}
  BY DEF P!Changed
<1>1. ASSUME NEW op \in {"temp", "restore", "cdac"}, P!Receive(op)
      PROVE  IInv' /\ UNCHANGED reg
  BY <1>1, TaskIInv DEF P!Users
<1>2. ASSUME NEW u \in P!Users, P!Select(u) \/ P!SelectFail(u) \/ P!OpenFail(u)
      PROVE  IInv' /\ UNCHANGED reg
  <2>1. UNCHANGED reg
    BY <1>2 DEF P!Select, P!SelectFail, P!OpenFail
  <2>2. QED
    BY <1>2, <2>1, SelectIInv
<1>3. ASSUME NEW u \in P!Users, P!Finish(u) \/ P!Reply(u) PROVE IInv' /\ UNCHANGED reg
  BY <1>3, TaskIInv
<1>4. CASE P!Die
  BY <1>4, TaskIInv, <1>0 DEF P!Users
<1>5. CASE UNCHANGED P!vars
  BY <1>5, StutterIInv, <1>0 DEF P!vars
<1>6. ASSUME NEW u \in P!Users, P!Value(u) \/ P!ValueFail(u)
      PROVE  /\ IInv'
             /\ ~mixed' => \A r \in P!Registers : P!Changed(r) \subseteq P!MayChange(r)
  <2>1. P!Accessing(u, "value")
    BY <1>6 DEF P!Value, P!ValueFail
  <2>2. \A r \in P!Registers : P!Access(u).reg = r => P!Access(u).mask \subseteq P!MayChange(r)
    BY <2>1 DEF P!MayChange
  <2>3. QED
    BY <1>6, <2>2, ValueFacts
<1>7. CASE P!First \/ P!Wait \/ P!Measure
  <2>1. \A r \in P!Registers :
          (IF r \in P!Sensor /\ (P!Measuring("first") \/ P!Measuring("measure"))
           THEN {"clk", "ldo", "adc", "en"} ELSE {}) \subseteq P!MayChange(r)
    BY DEF P!MayChange
  <2>2. QED
    BY <1>7, <2>1, ZoneFacts
<1>8. QED
  BY <1>0, <1>1, <1>2, <1>3, <1>4, <1>5, <1>6, <1>7 DEF P!Next

LEMMA Invariant == P!Spec => []IInv
<1>1. IInv /\ [P!Next]_(P!vars) => IInv'
  BY NextFacts
<1>2. QED
  BY <1>1, InitIInv, PTL DEF P!Spec

----------------------------------------------------------------------------
(* What the registers hold at each stage of a request.                     *)

Port == user["port"]
Boot == user["service"]

\* An answer comes when the program is through, and a reading knows whether
\* the sensor has been set up.
Stages ==
  /\ inited \in BOOLEAN /\ settled \in BOOLEAN /\ disturbed \in BOOLEAN
  /\ Port.op # "temp" /\ Port.answer # "none" =>
       \/ Port.answer = "ok" /\ Port.next > Len(P!Program(Port.op))
       \/ Port.answer = "fail" /\ Port.op = "restore"
  /\ Port.op = "temp" => Port.at \in {"first", "wait", "measure"}
  /\ P!Measuring("first") \/ P!Measuring("wait") => ~inited
  /\ P!Measuring("measure") => inited

\* What the updates of a restore that are through have done, the later ones
\* have left alone.
RestoredSoFar ==
  Port.op = "restore" /\ ~mixed =>
    /\ Port.next > 2 => "clk" \in reg["ctrl0"]
    /\ Port.next > 4 => "en" \notin reg["ctrl3"]
    /\ Port.next > 6 => "adc" \notin reg["ctrl1"]
    /\ Port.next > 8 => "ldo" \notin reg["ctrl0"]

\* The bank of the tool is replaced by nobody but the service, once.
BankSet ==
  Port.op = "cdac" /\ ~mixed /\ Port.next > 2 =>
    \/ reg["ctrl10"] = {"tool"}
    \/ reg["ctrl10"] = {"saved"} /\ (Boot = P!Idle \/ Boot.next > 1)

\* The sensor is on and settled when the static says so, but while a restore
\* takes it down.
Restoring == Port.op = "restore" /\ Port.answer = "none" /\ Port.next > 2
Ready ==
  ~disturbed =>
    /\ inited /\ ~Restoring => settled /\ P!SensorOn
    /\ P!Measuring("wait") => P!SensorOn
    /\ Port.op = "temp" /\ Port.answer = "unsettled" => mixed

Later == Stages /\ RestoredSoFar /\ BankSet /\ Ready

LEMMA InitLater == P!Init => Later
<1> SUFFICES ASSUME P!Init PROVE Later
  OBVIOUS
<1>1. Port = P!Idle /\ inited = FALSE /\ settled = FALSE /\ disturbed = FALSE
  BY DEF P!Init, Port
<1>2. P!Idle.op = "none" /\ P!Idle.answer = "none"
  BY DEF P!Idle
<1>3. QED
  BY <1>1, <1>2 DEF Later, Stages, RestoredSoFar, BankSet, Ready, P!Measuring, Port

\* A step that changes neither a register nor the port's place in its program.
LEMMA PlaceKept ==
  ASSUME Later, UNCHANGED <<reg, mixed, inited, settled, disturbed>>,
         Port'.op = Port.op, Port'.next = Port.next, Port'.answer = Port.answer,
         Port.op = "temp" => Port'.at = Port.at,
         Boot = P!Idle \/ Boot.next > 1 => (Boot = P!Idle \/ Boot.next > 1)'
  PROVE  Later'
<1> USE DEF Later
<1>1. /\ Restoring' = Restoring /\ P!SensorOn' = P!SensorOn
      /\ \A at \in {"first", "wait", "measure"} : P!Measuring(at)' = P!Measuring(at)
  BY DEF Restoring, P!SensorOn, P!Measuring, P!Active, Port
<1>2. Stages'
  BY <1>1 DEF Stages, P!Program
<1>3. RestoredSoFar' /\ BankSet'
  BY DEF RestoredSoFar, BankSet
<1>4. Ready'
  BY <1>1 DEF Ready
<1>5. QED
  BY <1>2, <1>3, <1>4

\* A register is selected, or cannot be; the files cannot be opened.
LEMMA SelectLater ==
  ASSUME IInv, Later, NEW u \in P!Users, P!Select(u) \/ P!SelectFail(u) \/ P!OpenFail(u)
  PROVE  Later'
<1>1. /\ P!Accessing(u, "select") /\ UNCHANGED <<reg, mixed, inited, settled>>
      /\ user \in [P!Users -> Tasks] /\ user[u] \in Tasks
  BY DEF P!Select, P!SelectFail, P!OpenFail, IInv, Shape
<1>2. user[u].op \in {"restore", "cdac", "load"} /\ user[u].answer = "none"
      /\ (u = "service" => user[u].op = "load")
  BY <1>1, AccessFacts DEF IInv
<1>3. CASE P!Select(u)
  <2>1. user' = [v \in P!Users |->
          IF v = u THEN [user[u] EXCEPT !.at = "value"]
          ELSE [user[v] EXCEPT !.astray = @ \/ user[v].at = "value"]]
    BY <1>3 DEF P!Select
  <2>2. \A v \in P!Users :
          /\ user'[v].op = user[v].op /\ user'[v].next = user[v].next
          /\ user'[v].answer = user[v].answer /\ (v # u => user'[v].at = user[v].at)
    BY <1>1, <2>1 DEF Tasks
  <2>3. Boot = P!Idle => Boot' = P!Idle
    <3>1. Boot = P!Idle => u # "service"
      BY <1>2 DEF Boot, P!Idle
    <3>2. \A t \in Tasks : t.astray = FALSE => [t EXCEPT !.astray = FALSE] = t
      BY DEF Tasks
    <3>3. P!Idle.at = "select" /\ P!Idle.astray = FALSE
      BY DEF P!Idle
    <3>4. QED
      BY <1>1, <2>1, <3>1, <3>2, <3>3 DEF Boot, P!Users
  <2>4. UNCHANGED disturbed
    BY <1>3 DEF P!Select
  <2>5. QED
    BY <1>1, <1>2, <2>2, <2>3, <2>4, PlaceKept DEF Port, Boot, P!Users
<1>4. CASE P!SelectFail(u)
  <2>1. user' = [user EXCEPT ![u] = [user[u] EXCEPT !.at = "value", !.astray = TRUE]]
        /\ UNCHANGED disturbed
    BY <1>4 DEF P!SelectFail
  <2>2. \A v \in P!Users :
          /\ user'[v].op = user[v].op /\ user'[v].next = user[v].next
          /\ user'[v].answer = user[v].answer /\ (v # u => user'[v] = user[v])
    BY <1>1, <2>1 DEF Tasks
  <2>3. Boot = P!Idle => u # "service"
    BY <1>2 DEF Boot, P!Idle
  <2>4. QED
    BY <1>1, <1>2, <2>1, <2>2, <2>3, PlaceKept DEF Port, Boot, P!Users
<1>5. CASE P!OpenFail(u)
  <2>1. /\ u = "port" /\ Port.op = "restore" /\ Port.answer = "none"
        /\ user' = [user EXCEPT !["port"] = [user["port"] EXCEPT !.answer = "fail"]]
        /\ disturbed' = (disturbed \/ Port.next > 2)
    BY <1>2, <1>5 DEF P!OpenFail, Port, P!Users
  <2>2. /\ Port'.op = "restore" /\ Port'.next = Port.next /\ Port'.answer = "fail"
        /\ Boot' = Boot
    BY <1>1, <2>1 DEF Tasks, Port, Boot, P!Users
  <2>3. disturbed' \in BOOLEAN
    BY <2>1 DEF Later, Stages
  <2>4. Stages'
    BY <1>1, <2>2, <2>3 DEF Later, Stages, P!Measuring, Port
  <2>5. RestoredSoFar' /\ BankSet'
    BY <1>1, <2>1, <2>2 DEF Later, RestoredSoFar, BankSet
  <2>6. Ready'
    <3> SUFFICES ASSUME ~disturbed' PROVE inited => settled' /\ P!SensorOn'
      BY <1>1, <2>2 DEF Ready, P!Measuring, Port
    <3>1. ~disturbed /\ ~(Port.next > 2)
      BY <2>1
    <3>2. P!SensorOn' = P!SensorOn
      BY <1>1 DEF P!SensorOn
    <3>3. QED
      BY <1>1, <3>1, <3>2 DEF Later, Ready, Restoring
  <2>7. QED
    BY <2>4, <2>5, <2>6 DEF Later
<1>6. QED
  BY <1>3, <1>4, <1>5

\* A request comes, is through or is answered, or engpc dies.
LEMMA TaskLater ==
  ASSUME IInv, Later, NEW u \in P!Users,
         \/ P!Finish(u) \/ P!Reply(u) \/ (P!Die /\ u = "port")
         \/ \E op \in {"temp", "restore", "cdac"} : P!Receive(op) /\ u = "port"
  PROVE  Later'
<1>1. /\ UNCHANGED <<reg, settled>> /\ user \in [P!Users -> Tasks] /\ user[u] \in Tasks
      /\ P!SensorOn' = P!SensorOn /\ P!Idle.op = "none" /\ P!Idle.answer = "none" /\ P!Idle.next = 1
  BY DEF P!Finish, P!Reply, P!Die, P!Receive, IInv, Shape, P!SensorOn, P!Idle
<1>2. CASE P!Finish(u)
  <2>1. /\ user' = [user EXCEPT ![u] = [user[u] EXCEPT !.answer = "ok"]]
        /\ UNCHANGED mixed /\ user[u].op # "temp" /\ user[u].op # "none"
        /\ user[u].answer = "none" /\ user[u].next > Len(P!Program(user[u].op))
    BY <1>2 DEF P!Finish, P!Active
  <2>2. /\ user'[u].op = user[u].op /\ user'[u].next = user[u].next
        /\ user'[u].answer = "ok" /\ \A v \in P!Users : v # u => user'[v] = user[v]
    BY <1>1, <2>1 DEF Tasks
  <2>3. CASE u = "service"
    <3>1. user[u].op = "load" /\ Boot # P!Idle
      BY <1>1, <2>1, <2>3 DEF IInv, Roles, Boot
    <3>2. UNCHANGED <<inited, disturbed>>
      BY <1>2, <3>1 DEF P!Finish
    <3>3. QED
      BY <1>1, <2>1, <2>2, <2>3, <3>1, <3>2, PlaceKept DEF Port, Boot, P!Users
  <2>4. CASE u = "port"
    <3>1. /\ Port'.op = Port.op /\ Port'.next = Port.next /\ Port'.answer = "ok" /\ Boot' = Boot
          /\ Port.op # "temp" /\ Port.next > Len(P!Program(Port.op))
      BY <2>1, <2>2, <2>4 DEF Port, Boot, P!Users
    <3>2. \/ Port.op = "restore" /\ inited' = FALSE /\ disturbed' = FALSE
          \/ Port.op # "restore" /\ UNCHANGED <<inited, disturbed>>
      BY <1>2, <2>4 DEF P!Finish, Port
    <3>3. Stages'
      BY <1>1, <3>1, <3>2 DEF Later, Stages, P!Measuring, Port, P!Program
    <3>4. RestoredSoFar' /\ BankSet'
      BY <1>1, <2>1, <3>1 DEF Later, RestoredSoFar, BankSet
    <3>5. Ready'
      BY <1>1, <3>1, <3>2 DEF Later, Ready, Restoring, P!Measuring, Port
    <3>6. QED
      BY <3>3, <3>4, <3>5 DEF Later
  <2>5. QED
    BY <2>3, <2>4 DEF P!Users
<1>3. CASE P!Reply(u) /\ u = "service"
  <2>1. Boot' = P!Idle /\ Port' = Port /\ UNCHANGED <<mixed, inited, disturbed>>
    BY <1>1, <1>3 DEF P!Reply, Boot, Port, P!Users
  <2>2. QED
    BY <1>1, <2>1, PlaceKept
<1>4. CASE (P!Reply(u) \/ P!Die) /\ u = "port"
  <2>1. Port' = P!Idle /\ Boot' = Boot /\ UNCHANGED mixed
    BY <1>1, <1>4 DEF P!Reply, P!Die, Boot, Port, P!Users
  <2>2. \/ inited' = FALSE /\ disturbed' = FALSE
        \/ UNCHANGED <<inited, disturbed>> /\ Port.answer # "none"
    BY <1>4 DEF P!Reply, P!Die, Port
  <2>3. Stages'
    BY <1>1, <2>1, <2>2 DEF Later, Stages, P!Measuring, P!Active, Port
  <2>4. RestoredSoFar' /\ BankSet'
    BY <1>1, <2>1 DEF RestoredSoFar, BankSet
  <2>5. Ready'
    BY <1>1, <2>1, <2>2 DEF Later, Ready, Restoring, P!Measuring, P!Active, Port
  <2>6. QED
    BY <2>3, <2>4, <2>5 DEF Later
<1>5. ASSUME NEW op \in {"temp", "restore", "cdac"}, P!Receive(op), u = "port"
      PROVE  Later'
  <2> DEFINE at == IF op # "temp" THEN "select" ELSE IF inited THEN "measure" ELSE "first"
  <2>1. /\ Port = P!Idle /\ mixed' = FALSE /\ UNCHANGED <<inited, disturbed>>
        /\ user' = [user EXCEPT !["port"] = [P!Idle EXCEPT !.op = op, !.at = at]]
    BY <1>5 DEF P!Receive, Port
  <2> HIDE DEF at
  <2>2. Port' = [P!Idle EXCEPT !.op = op, !.at = at] /\ Boot' = Boot
    BY <1>1, <2>1 DEF Port, Boot, P!Users
  <2>3. Port'.op = op /\ Port'.next = 1 /\ Port'.answer = "none" /\ Port'.at = at
    BY <2>2 DEF P!Idle
  <2>4. Stages'
    BY <1>1, <2>1, <2>3 DEF Later, Stages, P!Measuring, Port, at
  <2>5. RestoredSoFar' /\ BankSet'
    BY <1>1, <2>3 DEF RestoredSoFar, BankSet
  <2>6. Ready'
    BY <1>1, <2>1, <2>3 DEF Later, Ready, Restoring, P!Measuring, Port, at
  <2>7. QED
    BY <2>4, <2>5, <2>6 DEF Later
<1>6. QED
  BY <1>2, <1>3, <1>4, <1>5 DEF P!Users

\* The second call of an access of the service.  If it reaches its register,
\* it is not one of the sensor's.
LEMMA LoadLater ==
  ASSUME IInv, Later, P!Value("service") \/ P!ValueFail("service")
  PROVE  Later'
<1> USE DEF IInv
<1>1. P!Accessing("service", "value") /\ UNCHANGED <<selected, inited>> /\ "service" \in P!Users
  BY DEF P!Value, P!ValueFail, P!Users
<1>2. /\ Boot \in Tasks /\ P!Access("service") \in Accesses /\ Boot.op = "load"
      /\ P!Access("service") = P!Load[Boot.next] /\ Boot.next \in 1 .. Len(P!Load)
      /\ P!Access("service").kind = "write" /\ P!Access("service").mask = P!Bits
      /\ P!Access("service").reg \notin P!Sensor
  <2>1. P!Program("load") = P!Load
    BY DEF P!Program
  <2>2. Boot.op = "load" /\ Boot \in Tasks
    BY <1>1, AccessFacts DEF Boot
  <2>3. QED
    BY <1>1, <2>1, <2>2, AccessFacts DEF Boot, P!Access, P!Accessing, Tasks
<1>3. PICK orig : P!Advance("service", orig)
  BY DEF P!Value, P!ValueFail
<1>4. Port' = Port /\ Boot'.next = Boot.next + 1
  BY <1>1, <1>2, <1>3 DEF P!Advance, Port, Boot, P!Users, Shape, Tasks
<1>5. Boot'.next > 1
  BY <1>2, <1>4 DEF Tasks
<1>6. /\ Restoring' = Restoring
      /\ \A at \in {"first", "wait", "measure"} : P!Measuring(at)' = P!Measuring(at)
  BY <1>4 DEF Restoring, P!Measuring, P!Active, Port
<1>7. CASE P!ValueFail("service")
  <2>1. UNCHANGED <<reg, settled, disturbed>> /\ mixed'
    BY <1>7 DEF P!ValueFail
  <2>2. Stages' /\ P!SensorOn' = P!SensorOn
    BY <1>1, <1>4, <1>6, <2>1 DEF Later, Stages, P!Program, P!SensorOn
  <2>3. RestoredSoFar' /\ BankSet' /\ Ready'
    BY <1>1, <1>4, <1>6, <2>1, <2>2 DEF Later, RestoredSoFar, BankSet, Ready
  <2>4. QED
    BY <2>2, <2>3 DEF Later
<1>8. CASE P!Value("service")
  <2>1. /\ reg' = [reg EXCEPT ![selected] = P!Written("service")]
        /\ settled' = (settled /\ selected \notin P!Sensor)
        /\ disturbed' = (disturbed \/ (Boot.astray /\ selected \in P!Sensor))
        /\ mixed' = (mixed \/ Boot.astray)
    BY <1>2, <1>8 DEF P!Value, Boot
  <2>2. ~Boot.astray => selected = P!Access("service").reg
    BY <1>1 DEF OwnAccess, Boot
  <2>3. P!Written("service") = {"saved"}
    <3>1. P!Access("service").bits = {"saved"}
      BY <1>2 DEF P!Load, P!Store, P!Lay
    <3>2. Boot.orig \subseteq P!Bits /\ {"saved"} \subseteq P!Bits
      BY <1>2 DEF Tasks, P!Bits
    <3>3. QED
      BY <1>2, <3>1, <3>2 DEF P!Written, Boot
  <2>4. selected \in P!Sensor => mixed' /\ disturbed'
    BY <1>2, <2>1, <2>2
  <2>5. selected \notin P!Sensor => settled' = settled /\ \A r \in P!Sensor : reg'[r] = reg[r]
    <3>1. P!Sensor \subseteq P!Registers
      BY DEF P!Sensor, P!Registers
    <3>2. settled \in BOOLEAN
      BY DEF Later, Stages
    <3>3. QED
      BY <2>1, <3>1, <3>2 DEF Shape
  <2>6. /\ "ctrl0" \in P!Sensor /\ "ctrl1" \in P!Sensor /\ "ctrl3" \in P!Sensor
        /\ "ctrl10" \in P!Registers
    BY DEF P!Sensor, P!Registers
  <2>7. selected \notin P!Sensor => P!SensorOn' = P!SensorOn
    BY <2>5, <2>6 DEF P!SensorOn
  <2>8. Stages'
    BY <1>1, <1>2, <1>4, <1>6, <2>1 DEF Later, Stages, P!Program, Tasks
  <2>9. RestoredSoFar'
    BY <1>4, <2>1, <2>4, <2>5, <2>6 DEF Later, RestoredSoFar
  <2>10. BankSet'
    <3>1. reg'["ctrl10"] = {"saved"} \/ reg'["ctrl10"] = reg["ctrl10"]
      BY <2>1, <2>3, <2>6 DEF Shape
    <3>2. QED
      BY <1>4, <1>5, <2>1, <3>1 DEF Later, BankSet
  <2>11. Ready'
    BY <1>1, <1>4, <1>6, <2>1, <2>4, <2>5, <2>7 DEF Later, Ready
  <2>12. QED
    BY <2>8, <2>9, <2>10, <2>11 DEF Later
<1>9. QED
  BY <1>7, <1>8

\* The second call of an access of the port.  A later update of a restore
\* leaves what the earlier ones have done.
LEMMA PortLater ==
  ASSUME IInv, Later, P!Value("port") \/ P!ValueFail("port")
  PROVE  Later'
<1> USE DEF IInv
<1>1. P!Accessing("port", "value") /\ UNCHANGED <<selected, inited>> /\ "port" \in P!Users
  BY DEF P!Value, P!ValueFail, P!Users
<1>2. /\ Port \in Tasks /\ P!Access("port") \in Accesses /\ Port.op \in {"restore", "cdac"}
      /\ P!Access("port") = P!Program(Port.op)[Port.next] /\ Port.next + 1 \in 1 .. 9
      /\ Port.next \in 1 .. Len(P!Program(Port.op)) /\ Port.answer = "none"
  BY <1>1, AccessFacts DEF Port, P!Access, Roles, P!Accessing, Tasks
<1>3. PICK orig : P!Advance("port", orig)
  BY DEF P!Value, P!ValueFail
<1>4. /\ Port'.op = Port.op /\ Port'.next = Port.next + 1 /\ Port'.answer = "none"
      /\ Boot' = Boot
  BY <1>1, <1>2, <1>3 DEF P!Advance, Port, Boot, P!Users, Shape, Tasks
<1>5. Port'.next > 1
  BY <1>2, <1>4 DEF Tasks
<1>6. Stages'
  <2>1. settled' \in BOOLEAN /\ disturbed' \in BOOLEAN
    BY <1>2 DEF P!Value, P!ValueFail, Later, Stages, Tasks, Port
  <2>2. QED
    BY <1>1, <1>2, <1>4, <2>1 DEF Later, Stages, P!Measuring, Port
<1>7. mixed' = (mixed \/ Port.astray) \/ mixed' = TRUE
  BY DEF P!Value, P!ValueFail, Port
<1>8. ASSUME ~mixed'
      PROVE  ~mixed /\ selected = P!Access("port").reg /\ P!Value("port")
  BY <1>1, <1>7, <1>8 DEF OwnAccess, Port, P!ValueFail
<1>9. RestoredSoFar'
  <2> SUFFICES ASSUME Port.op = "restore", ~mixed'
               PROVE  /\ Port.next + 1 > 2 => "clk" \in reg'["ctrl0"]
                      /\ Port.next + 1 > 4 => "en" \notin reg'["ctrl3"]
                      /\ Port.next + 1 > 6 => "adc" \notin reg'["ctrl1"]
                      /\ Port.next + 1 > 8 => "ldo" \notin reg'["ctrl0"]
    BY <1>4 DEF RestoredSoFar
  <2>1. P!Access("port") = P!Restore[Port.next] /\ Port.next \in 1 .. 8
    BY <1>1, AccessFacts DEF Port
  <2>2. /\ Port.next > 2 => "clk" \in reg["ctrl0"]
        /\ Port.next > 4 => "en" \notin reg["ctrl3"]
        /\ Port.next > 6 => "adc" \notin reg["ctrl1"]
        /\ Port.next > 8 => "ldo" \notin reg["ctrl0"]
    BY <1>8 DEF Later, RestoredSoFar
  <2>3. CASE Port.next \in {1, 3, 5, 7}
    <3>1. UNCHANGED reg
      BY <1>8, <2>1, <2>3, RestoreFacts DEF P!Value
    <3>2. QED
      BY <2>2, <2>3, <3>1
  <2>4. CASE Port.next \in {2, 4, 6, 8}
    <3>1. /\ reg' = [reg EXCEPT ![P!Access("port").reg] = P!Written("port")]
          /\ Port.orig = reg[P!Access("port").reg]
      BY <1>8, <2>1, <2>4, RestoreFacts DEF P!Value, Current, Port
    <3>2. P!Registers = P!Registers \cup {"ctrl0", "ctrl1", "ctrl3"}
      BY DEF P!Registers
    <3>3. CASE Port.next = 2
      <4>1. P!Access("port").reg = "ctrl0" /\ "clk" \in P!Written("port")
        BY <2>1, <3>3 DEF P!Restore, P!Lay, P!Written
      <4>2. QED
        BY <3>1, <3>2, <3>3, <4>1 DEF Shape
    <3>4. CASE Port.next = 4
      <4>1. P!Access("port").reg = "ctrl3" /\ "en" \notin P!Written("port")
        BY <2>1, <3>4 DEF P!Restore, P!Lay, P!Written
      <4>2. QED
        BY <2>2, <3>1, <3>2, <3>4, <4>1 DEF Shape
    <3>5. CASE Port.next = 6
      <4>1. P!Access("port").reg = "ctrl1" /\ "adc" \notin P!Written("port")
        BY <2>1, <3>5 DEF P!Restore, P!Lay, P!Written
      <4>2. QED
        BY <2>2, <3>1, <3>2, <3>5, <4>1 DEF Shape
    <3>6. CASE Port.next = 8
      <4>1. /\ P!Access("port").reg = "ctrl0" /\ P!Access("port").mask = {"ldo"}
            /\ P!Access("port").bits = {}
        BY <2>1, <3>6 DEF P!Restore, P!Lay
      <4>2. "ldo" \notin P!Written("port") /\ "clk" \in P!Written("port")
        BY <2>2, <3>1, <3>6, <4>1 DEF P!Written, Port
      <4>3. QED
        BY <2>2, <3>1, <3>2, <3>6, <4>1, <4>2 DEF Shape
    <3>7. QED
      BY <2>4, <3>3, <3>4, <3>5, <3>6
  <2>5. QED
    BY <2>1, <2>3, <2>4
<1>10. BankSet'
  <2> SUFFICES ASSUME Port.op = "cdac", ~mixed', Port.next + 1 > 2
               PROVE  reg'["ctrl10"] = {"tool"}
    BY <1>4 DEF BankSet
  <2>1. P!Program("cdac") = P!SetCdac /\ Len(P!SetCdac) = 2
    BY DEF P!Program, P!SetCdac
  <2>2. Port.next = 2 /\ P!Access("port") = P!Store("ctrl10", {"tool"})
    BY <1>2, <2>1 DEF P!SetCdac, Tasks
  <2>3. /\ P!Access("port").reg = "ctrl10" /\ P!Access("port").kind = "write"
        /\ P!Access("port").mask = P!Bits /\ P!Access("port").bits = {"tool"}
    BY <2>2 DEF P!Store, P!Lay
  <2>4. reg' = [reg EXCEPT !["ctrl10"] = P!Written("port")]
    BY <1>8, <2>3 DEF P!Value
  <2>5. P!Written("port") = {"tool"}
    <3>1. Port.orig \subseteq P!Bits /\ {"tool"} \subseteq P!Bits
      BY <1>2 DEF Tasks, P!Bits
    <3>2. QED
      BY <2>3, <3>1 DEF P!Written, Port
  <2>6. "ctrl10" \in P!Registers
    BY DEF P!Registers
  <2>7. QED
    BY <2>4, <2>5, <2>6 DEF Shape
<1>11. Ready'
  <2> SUFFICES ASSUME ~disturbed', inited, Port.op # "restore" \/ Port.next = 1
               PROVE  settled' /\ P!SensorOn'
    BY <1>1, <1>2, <1>4, <1>5 DEF Ready, Restoring, P!Measuring, Port
  <2>1. ~disturbed /\ settled /\ P!SensorOn
    <3>1. ~disturbed
      BY DEF P!Value, P!ValueFail
    <3>2. QED
      BY <3>1 DEF Later, Ready, Restoring
  <2>2. /\ "ctrl0" \in P!Sensor /\ "ctrl1" \in P!Sensor /\ "ctrl3" \in P!Sensor
        /\ P!Sensor \subseteq P!Registers
    BY DEF P!Sensor, P!Registers
  <2>3. CASE UNCHANGED <<reg, settled>>
    BY <2>1, <2>3 DEF P!SensorOn
  <2>4. CASE ~UNCHANGED <<reg, settled>>
    <3>1. /\ P!Value("port") /\ reg' = [reg EXCEPT ![selected] = P!Written("port")]
          /\ settled' = (settled /\ selected \notin P!Sensor)
          /\ disturbed' = (disturbed \/ (Port.astray /\ selected \in P!Sensor))
      BY <2>4 DEF P!Value, P!ValueFail, Port
    <3>2. P!Access("port").reg \notin P!Sensor
      <4>1. CASE Port.op = "restore"
        <5>1. Port.next = 1
          BY <4>1
        <5>2. P!Access("port") = P!Restore[1] /\ P!Restore[1] = P!Fetch("ctrl0")
          BY <4>1, <5>1 DEF P!Access, P!Program, P!Restore, Port
        <5>3. P!Access("port").kind = "read"
          BY <5>2 DEF P!Fetch
        <5>4. UNCHANGED <<reg, settled>>
          BY <3>1, <5>3 DEF P!Value
        <5>5. QED
          BY <2>4, <5>4
      <4>2. CASE Port.op # "restore"
        <5>1. P!Program("cdac") = P!SetCdac /\ Len(P!SetCdac) = 2
          BY DEF P!Program, P!SetCdac
        <5>2. P!Access("port") \in {P!Store("wr_prot", {"key"}), P!Store("ctrl10", {"tool"})}
          BY <1>2, <4>2, <5>1 DEF P!SetCdac, Tasks
        <5>3. QED
          BY <5>2 DEF P!Store, P!Lay, P!Sensor
      <4>3. QED
        BY <4>1, <4>2
    <3>3. selected \notin P!Sensor
      BY <1>1, <3>1, <3>2 DEF OwnAccess, Port
    <3>4. \A r \in P!Sensor : reg'[r] = reg[r]
      BY <2>2, <3>1, <3>3 DEF Shape
    <3>5. QED
      BY <2>1, <2>2, <3>1, <3>3, <3>4 DEF P!SensorOn
  <2>5. QED
    BY <2>3, <2>4
<1>12. QED
  BY <1>6, <1>9, <1>10, <1>11 DEF Later

\* The kernel turns the sensor on, and does not if it is on.
LEMMA ZoneOn ==
  ASSUME Shape, P!ReadZone
  PROVE  P!SensorOn' /\ (P!SensorOn /\ settled => settled')
<1>1. "ctrl0" \in P!Registers /\ "ctrl1" \in P!Registers /\ "ctrl3" \in P!Registers
  BY DEF P!Registers
<1>2. /\ reg'["ctrl0"] = (reg["ctrl0"] \ {"clk"}) \cup {"ldo"}
      /\ reg'["ctrl1"] = reg["ctrl1"] \cup {"adc"}
      /\ reg'["ctrl3"] = reg["ctrl3"] \cup {"en"}
  BY <1>1 DEF P!ReadZone, Shape
<1>3. P!SensorOn'
  BY <1>2 DEF P!SensorOn
<1>4. QED
  BY <1>3 DEF P!ReadZone

LEMMA ReadingLater ==
  ASSUME IInv, Later, P!First \/ P!Wait \/ P!Measure
  PROVE  Later'
<1> USE DEF IInv
<1>1. /\ Port \in Tasks /\ Port.op = "temp" /\ Port.answer = "none" /\ "port" \in P!Users
      /\ settled \in BOOLEAN /\ disturbed \in BOOLEAN /\ inited \in BOOLEAN
  BY DEF P!First, P!Wait, P!Measure, P!Measuring, P!Active, Shape, P!Users, Port, Later, Stages
<1>2. CASE P!First
  <2>1. Port.at = "first" /\ UNCHANGED inited /\ inited = FALSE
    BY <1>1, <1>2 DEF P!First, P!Measuring, Port, Later, Stages
  <2>2. Port'.op = "temp" /\ Port'.at = "wait" /\ Port'.answer = "none"
    BY <1>1, <1>2 DEF P!First, P!Goto, Port, Shape, Tasks
  <2>3. settled' \in BOOLEAN /\ disturbed' \in BOOLEAN
    BY <1>1, <1>2 DEF P!First, P!ReadZone, P!SensorOn
  <2>4. Stages'
    BY <1>1, <2>1, <2>2, <2>3 DEF Stages, P!Measuring, Port
  <2>5. ~disturbed' => P!SensorOn'
    BY <1>2, ZoneOn DEF P!First
  <2>6. RestoredSoFar' /\ BankSet' /\ Ready'
    BY <2>1, <2>2, <2>5 DEF RestoredSoFar, BankSet, Ready
  <2>7. QED
    BY <2>4, <2>6 DEF Later
<1>3. CASE P!Wait
  <2>1. Port.at = "wait" /\ inited' = TRUE /\ UNCHANGED <<reg, disturbed>> /\ settled' = P!SensorOn
    BY <1>3 DEF P!Wait, P!Measuring, Port
  <2>2. Port'.op = "temp" /\ Port'.at = "measure" /\ Port'.answer = "none"
    BY <1>1, <1>3 DEF P!Wait, P!Goto, Port, Shape, Tasks
  <2>3. P!SensorOn' = P!SensorOn /\ P!SensorOn \in BOOLEAN
    BY <2>1 DEF P!SensorOn
  <2>4. Stages'
    BY <1>1, <2>1, <2>2, <2>3 DEF Stages, P!Measuring, Port
  <2>5. ~disturbed => P!SensorOn
    BY <1>3 DEF P!Wait, Later, Ready
  <2>6. RestoredSoFar' /\ BankSet' /\ Ready'
    BY <2>1, <2>2, <2>3, <2>5 DEF RestoredSoFar, BankSet, Ready, P!Measuring, Port
  <2>7. QED
    BY <2>4, <2>6 DEF Later
<1>4. CASE P!Measure
  <2>1. Port.at = "measure" /\ UNCHANGED <<inited, disturbed>> /\ inited = TRUE
    BY <1>1, <1>4 DEF P!Measure, P!Measuring, Port, Later, Stages
  <2>2. PICK a \in {"ok", "unsettled", "fail"} :
          /\ P!Answer(a)
          /\ a = "unsettled" => (P!ReadZone /\ ~settled') \/ mixed' = TRUE
    BY <1>4 DEF P!Measure
  <2>3. Port'.op = "temp" /\ Port'.at = "measure" /\ Port'.answer = a
    BY <1>1, <2>1, <2>2 DEF P!Answer, Port, Shape, Tasks
  <2>4. P!ReadZone \/ UNCHANGED <<reg, settled>>
    BY <1>4 DEF P!Measure
  <2>5. settled' \in BOOLEAN
    BY <1>1, <2>4 DEF P!ReadZone, P!SensorOn
  <2>6. Stages'
    BY <1>1, <2>1, <2>2, <2>3, <2>5 DEF Stages, P!Measuring, P!Active, Port
  <2>7. ~disturbed => settled /\ P!SensorOn
    BY <1>1, <2>1 DEF Later, Ready, Restoring
  <2>8. ~disturbed => settled' /\ P!SensorOn'
    <3>1. CASE P!ReadZone
      BY <2>7, <3>1, ZoneOn
    <3>2. CASE UNCHANGED <<reg, settled>>
      BY <2>7, <3>2 DEF P!SensorOn
    <3>3. QED
      BY <2>4, <3>1, <3>2
  <2>9. RestoredSoFar' /\ BankSet' /\ Ready'
    BY <2>1, <2>2, <2>3, <2>8 DEF RestoredSoFar, BankSet, Ready, P!Measuring, Port
  <2>10. QED
    BY <2>6, <2>9 DEF Later
<1>5. QED
  BY <1>2, <1>3, <1>4

LEMMA LaterInvariant == P!Spec => [](IInv /\ Later)
<1>1. ASSUME IInv, Later, [P!Next]_(P!vars) PROVE Later'
  <2>1. CASE UNCHANGED P!vars
    BY <1>1, <2>1, PlaceKept DEF P!vars, Port, Boot
  <2>2. ASSUME NEW u \in P!Users, P!Value(u) \/ P!ValueFail(u) PROVE Later'
    BY <1>1, <2>2, LoadLater, PortLater DEF P!Users
  <2>3. ASSUME NEW op \in {"temp", "restore", "cdac"}, P!Receive(op) PROVE Later'
    BY <1>1, <2>3, TaskLater DEF P!Users
  <2>4. ASSUME NEW u \in P!Users, P!Select(u) \/ P!SelectFail(u) \/ P!OpenFail(u) PROVE Later'
    BY <1>1, <2>4, SelectLater
  <2>5. ASSUME NEW u \in P!Users, P!Finish(u) \/ P!Reply(u) PROVE Later'
    BY <1>1, <2>5, TaskLater
  <2>6. CASE P!Die
    BY <1>1, <2>6, TaskLater DEF P!Users
  <2>7. CASE P!First \/ P!Wait \/ P!Measure
    BY <1>1, <2>7, ReadingLater
  <2>8. QED
    BY <1>1, <2>1, <2>2, <2>3, <2>4, <2>5, <2>6, <2>7 DEF P!Next
<1>2. IInv /\ Later /\ [P!Next]_(P!vars) => Later'
  BY <1>1
<1>3. QED
  BY <1>2, InitLater, Invariant, PTL DEF P!Spec

\* A read-modify-write puts back the bits it was not asked to change:
\* BitsKept, whatever fails and however often.
THEOREM UpdatesKeepBits == PmicSpec => BitsKept
<1>1. IInv /\ [P!Next]_(P!vars) =>
        [~mixed' => \A r \in P!Registers : P!Changed(r) \subseteq P!MayChange(r)]_(P!vars)
  BY NextFacts
<1>2. QED
  BY <1>1, Invariant, PTL DEF PmicSpec, P!Spec, BitsKept, P!BitsKept

\* What is acknowledged has been done, an access that went astray or failed
\* unseen excepted: AckedIsDone, whoever interleaves and whatever fails.
THEOREM AcknowledgedDone == PmicSpec => []AckedIsDone
<1>1. ASSUME IInv, Later PROVE AckedIsDone
  <2> SUFFICES ASSUME Port.answer = "ok", ~mixed PROVE
        CASE Port.op = "restore" ->
               /\ reg["ctrl0"] \cap {"clk", "ldo"} = {"clk"}
               /\ "en" \notin reg["ctrl3"] /\ "adc" \notin reg["ctrl1"]
          [] Port.op = "cdac" ->
               \/ reg["ctrl10"] = {"tool"}
               \/ reg["ctrl10"] = {"saved"} /\ (Boot = P!Idle \/ Boot.next > 1)
          [] OTHER -> TRUE
    BY DEF AckedIsDone, P!AckedIsDone, Port, Boot
  <2>1. Port \in Tasks
    BY <1>1 DEF IInv, Shape, P!Users, Port
  <2>2. CASE Port.op = "restore"
    <3>1. Port.next > 8
      BY <1>1, <2>2, RestoreFacts DEF Later, Stages, P!Program
    <3>2. Port.next \in 1 .. 9
      BY <2>1 DEF Tasks
    <3>3. Port.next = 9
      BY <3>1, <3>2
    <3>4. /\ "clk" \in reg["ctrl0"] /\ "en" \notin reg["ctrl3"]
          /\ "adc" \notin reg["ctrl1"] /\ "ldo" \notin reg["ctrl0"]
      BY <1>1, <2>2, <3>3 DEF Later, RestoredSoFar
    <3>5. QED
      BY <2>2, <3>4
  <2>3. CASE Port.op = "cdac"
    <3>1. P!Program("cdac") = P!SetCdac /\ Len(P!SetCdac) = 2
      BY DEF P!Program, P!SetCdac
    <3>2. Port.next > 2
      BY <1>1, <2>3, <3>1 DEF Later, Stages
    <3>3. QED
      BY <1>1, <2>3, <3>2 DEF Later, BankSet
  <2>4. QED
    BY <2>2, <2>3
<1>2. QED
  BY <1>1, LaterInvariant, PTL DEF PmicSpec

\* Temperatures answered as good come from a sensor that has settled:
\* SettledReading, whoever interleaves and whatever fails.
THEOREM ReadingSettled == PmicSpec => []SettledReading
<1>1. ASSUME Later PROVE SettledReading
  BY <1>1 DEF Later, Ready, SettledReading, P!SettledReading, Port, Stages
<1>2. IInv /\ Later => SettledReading
  BY <1>1
<1>3. QED
  BY <1>2, LaterInvariant, PTL DEF PmicSpec

----------------------------------------------------------------------------
(* The calibration of the crystal oscillator, which drives the PMIC over   *)
(* the same bus: DcxCali.                                                  *)

\* Which mode a step belongs to, and where the searches are.
Modes ==
  /\ pc \in {"low_bank", "low_enable"} => current_mode = 1
  /\ pc \in {"high_disable", "high_bank", "high_amp", "lp_bank", "lp_restore"} =>
       current_mode = 0

Calibrating ==
  {"lp_bank", "init", "init_fine", "init_coarse", "level", "coarse", "fine_level", "fine_top",
   "fine", "lp_restore"}

\* Whatever the high power mode was last set to is in its registers or, while
\* the low power mode uses them and on the way there and back, in the statics.
HeldHigh ==
  ~died =>
    /\ current_mode = 1 =>
         /\ ~lpcal
         /\ pc # "low_enable" => Bank(ctrl10) = Bank(hpset.cbank)
         /\ pc \in {"idle", "low_bank", "low_enable"} => ctrl5 = hpset.amp
    /\ current_mode = 0 \/ pc \in {"low_bank", "low_enable"} =>
         hp_cbank = Bank(hpset.cbank) /\ hp_amp = hpset.amp
    /\ pc \in {"high_bank", "high_amp"} => ~lpcal
    /\ pc = "high_amp" => Bank(ctrl10) = Bank(hpset.cbank)

\* The low power mode leaves the bank of the high power mode at 0, the
\* calibration that saves and restores it included.
LowAtRest ==
  ~died =>
    /\ pc \in {"idle", "low_bank", "low_enable", "high_disable", "high_bank", "high_amp",
               "lp_bank", "lp_restore"} => ~calen
    /\ pc = "low_enable" => ctrl10 = 0
    /\ current_mode = 0 /\ pc \notin {"high_disable", "high_bank", "high_amp"} =>
         lpcal /\ ctrl10 = 0
    /\ current_mode = 0 /\ pc \in Calibrating => cbank_bak = 0

\* What a search has passed over is not accepted.
Passed ==
  /\ pc \in {"init_coarse", "level", "coarse"} => ctrl5.f = Fine - 1
  /\ pc = "level" => ctrl5.c = Coarse - 1
  /\ pc = "coarse" => \A c \in ctrl5.c + 1 .. Coarse - 1 : ~Accepted(AtTop(c), limit)
  /\ pc = "fine" =>
       \A f \in ctrl5.f + 1 .. Fine - 1 : ~Accepted([ctrl5 EXCEPT !.f = f], limit)

\* The part of the types that the argument uses.
DcxShape ==
  /\ ctrl5 \in Amps
  /\ hpset \in [cbank : Words, amp : Amps]
  /\ hp_amp \in Amps
  /\ current_mode \in {0, 1}
  /\ pc \in Steps
  /\ limit \in Limits

DcxInv == DcxShape /\ Modes /\ HeldHigh /\ LowAtRest /\ Passed

\* Where the searches start and what a register holds after power-on.
LEMMA AmpFacts ==
  /\ AllOnes \in Amps /\ Reset \in Amps
  /\ AllOnes.f = Fine - 1 /\ AllOnes.c = Coarse - 1
  /\ -1 \in Limits
BY DcxCaliAssumption DEF AllOnes, Reset, Amps, Limits

\* The bank of a bank is the bank.
LEMMA BankFacts == 0 \in Words /\ \A x \in Words : Bank(Bank(x)) = Bank(x)
BY DEF Bank, Words

LEMMA DcxInit == Init => DcxInv
BY AmpFacts, BankFacts
   DEF Init, DcxInv, DcxShape, Modes, HeldHigh, LowAtRest, Passed, Steps, Calibrating

LEMMA DcxNext == DcxInv /\ [Next]_vars => DcxInv'
<1> SUFFICES ASSUME DcxInv, [Next]_vars PROVE DcxInv'
  OBVIOUS
<1> USE AmpFacts, BankFacts, DcxCaliAssumption
    DEF DcxInv, DcxShape, Modes, HeldHigh, LowAtRest, Passed, statics, history, Steps, Amps,
        Calibrating, AtTop
<1>1. ASSUME NEW cdac \in Cdacs, SetCdac(cdac) PROVE DcxInv'
  BY <1>1 DEF SetCdac
<1>2. ASSUME NEW mode \in {0, 1, 2}, SetMode(mode) PROVE DcxInv'
  BY <1>2 DEF SetMode
<1>3. CASE LowBank
  BY <1>3 DEF LowBank
<1>4. CASE LowEnable
  BY <1>4 DEF LowEnable
<1>5. CASE HighDisable
  BY <1>5 DEF HighDisable
<1>6. CASE HighBank
  BY <1>6 DEF HighBank
<1>7. CASE HighAmp
  BY <1>7 DEF HighAmp
<1>8. CASE LpBank
  BY <1>8 DEF LpBank
<1>9. CASE AmpInit
  BY <1>9 DEF AmpInit
<1>10. CASE CoarseDown
  BY <1>10 DEF CoarseDown
<1>11. CASE CoarseEnd
  <2>1. Above(ctrl5.c) \in 0 .. Coarse - 1
    BY DEF Above
  <2>2. QED
    BY <1>11, <2>1 DEF CoarseEnd
<1>12. CASE FineDown
  BY <1>12 DEF FineDown
<1>13. CASE FineEnd
  BY <1>13 DEF FineEnd
<1>14. CASE LpRestore
  BY <1>14 DEF LpRestore
<1>15. CASE AmpCali
  BY <1>15 DEF AmpCali
<1>16. CASE Die
  BY <1>16 DEF Die
<1>17. CASE PowerCycle
  BY <1>17 DEF PowerCycle
<1>18. CASE TopFine
  <2>1. ctrl5'.f = Fine - 1 /\ ctrl5' \in Amps
    BY <1>18 DEF TopFine
  <2>2. CASE pc = "init_fine"
    BY <1>18, <2>1, <2>2 DEF TopFine
  <2>3. CASE pc = "fine_top"
    <3>1. pc' = "fine" /\ (\A f \in ctrl5'.f + 1 .. Fine - 1 : FALSE)
      BY <1>18, <2>1, <2>3 DEF TopFine
    <3>2. Passed'
      BY <3>1
    <3>3. DcxShape' /\ Modes'
      BY <1>18, <2>1, <2>3 DEF TopFine
    <3>4. HeldHigh' /\ LowAtRest'
      BY <1>18, <2>1, <2>3, <3>1 DEF TopFine
    <3>5. QED
      BY <3>2, <3>3, <3>4
  <2>4. QED
    BY <1>18, <2>2, <2>3 DEF TopFine
<1>19. CASE TopCoarse
  BY <1>19 DEF TopCoarse
<1>20. CASE Level
  BY <1>20 DEF Level
<1>21. CASE UNCHANGED vars
  BY <1>21 DEF vars
<1>22. QED
  BY <1>1, <1>2, <1>3, <1>4, <1>5, <1>6, <1>7, <1>8, <1>9, <1>10, <1>11, <1>12,
     <1>13, <1>14, <1>15, <1>16, <1>17, <1>18, <1>19, <1>20, <1>21
     DEF Next, Handle

\* A setting below one that is accepted is accepted as well.
LEMMA Monotone ==
  ASSUME NEW c \in Nat, NEW d \in Nat, c <= d, NEW f, NEW l \in Int,
         f \in Int, Accepted([c |-> d, f |-> f], l)
  PROVE  Accepted([c |-> c, f |-> f], l)
<1>1. c * Fine <= d * Fine
  <2>1. Fine \in Nat
    BY DcxCaliAssumption
  <2>2. QED
    BY <2>1
<1>2. c * Fine \in Int /\ d * Fine \in Int
  BY DcxCaliAssumption
<1>3. QED
  BY <1>1, <1>2 DEF Accepted

\* Mode switches and calibrations in either mode, in any order, leave the high
\* power mode with the bank and the amplitude it was last set to:
\* HighPowerKept, for any size of the two fields.
THEOREM HighPowerHeld == Spec => []HighPowerKept
<1>1. DcxInv => HighPowerKept
  BY DEF DcxInv, HeldHigh, HighPowerKept
<1>2. QED
  BY DcxInit, DcxNext, <1>1, PTL DEF Spec

\* The calibration circuit is off, and the low power mode as it should be,
\* whenever a handler has answered: CircuitAtRest.
THEOREM CircuitRests == Spec => []CircuitAtRest
<1>1. DcxInv => CircuitAtRest
  BY DEF DcxInv, DcxShape, LowAtRest, CircuitAtRest
<1>2. QED
  BY DcxInit, DcxNext, <1>1, PTL DEF Spec

\* hp_amp_cali and lp_amp_cali end at the highest setting the comparator
\* accepts, the coarse field one above or, where there is none above, at the
\* bottom: SearchFindsBest, for every comparator.
THEOREM SearchBest == Spec => SearchFindsBest
<1>1. ASSUME DcxInv, [Next]_vars PROVE [SearchResult]_vars
  <2> USE <1>1
  <2>1. Fine - 1 \in Nat /\ Coarse \in Nat /\ limit \in Int /\ ctrl5.c \in 0 .. Coarse - 1
        /\ Coarse - 1 >= 1
    BY DcxCaliAssumption DEF DcxInv, DcxShape, Limits, Amps
  <2>2. ASSUME CoarseEnd, current_mode = 1
        PROVE  /\ \A c \in 1 .. Coarse - 2 : Highest(c) => ctrl5'.c = c + 1
               /\ Accepted(AtTop(Coarse - 1), limit) \/ ~Accepted(AtTop(1), limit) => ctrl5'.c = 0
    <3>1. ctrl5 = AtTop(ctrl5.c)
      BY <2>2 DEF DcxInv, DcxShape, Passed, Amps, CoarseEnd, AtTop
    <3>2. /\ Accepted(AtTop(ctrl5.c), limit) \/ ctrl5.c = 0
          /\ \A c \in ctrl5.c + 1 .. Coarse - 1 : ~Accepted(AtTop(c), limit)
      BY <2>2, <3>1 DEF DcxInv, Passed, CoarseEnd
    <3>3. /\ Accepted(AtTop(ctrl5.c), limit) /\ ctrl5.c # 0 => ctrl5'.c = Above(ctrl5.c)
          /\ ctrl5.c = 0 => ctrl5'.c = 0
      BY <2>2, <3>1 DEF CoarseEnd, DcxInv, DcxShape, Amps
    <3>4. ASSUME NEW c \in 1 .. Coarse - 2, Highest(c)
          PROVE  ctrl5'.c = c + 1
      <4>1. Accepted(AtTop(c), limit) /\ ~Accepted(AtTop(c + 1), limit)
        BY <3>4 DEF Highest
      <4>2. c <= ctrl5.c
        BY <2>1, <3>2, <4>1
      <4>3. ~(c + 1 <= ctrl5.c)
        BY <2>1, <3>2, <4>1, <4>2, Monotone DEF AtTop
      <4>4. ctrl5.c = c
        BY <2>1, <4>2, <4>3
      <4>5. QED
        BY <2>1, <2>2, <3>2, <3>3, <4>4 DEF Above
    <3>5. ASSUME Accepted(AtTop(Coarse - 1), limit)
          PROVE  ctrl5'.c = 0
      <4>1. ctrl5.c = Coarse - 1
        BY <2>1, <3>2, <3>5
      <4>2. QED
        BY <2>1, <2>2, <3>3, <3>5, <4>1 DEF Above
    <3>6. ASSUME ~Accepted(AtTop(1), limit)
          PROVE  ctrl5'.c = 0
      <4>1. ~(1 <= ctrl5.c)
        BY <2>1, <3>2, <3>6, Monotone DEF AtTop
      <4>2. QED
        BY <2>1, <3>3, <4>1
    <3>7. QED
      BY <3>4, <3>5, <3>6
  <2>3. ASSUME FineEnd
        PROVE  /\ Accepted(ctrl5', limit)
               /\ \A f \in ctrl5'.f + 1 .. Fine - 1 :
                    ~Accepted([ctrl5' EXCEPT !.f = f], limit)
    <3>1. ctrl5' = ctrl5 /\ pc = "fine" /\ Accepted(ctrl5, limit)
      BY <2>3 DEF FineEnd
    <3>2. QED
      BY <3>1 DEF DcxInv, Passed
  <2>4. QED
    BY <2>2, <2>3 DEF SearchResult
<1>2. QED
  BY DcxInit, DcxNext, <1>1, PTL DEF Spec, SearchFindsBest
=============================================================================
