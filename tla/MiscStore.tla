----------------------------- MODULE MiscStore ------------------------------
(***************************************************************************)
(* What the miscdata handlers promise their clients, whatever the medium:  *)
(* a request takes effect in one step somewhere between its arrival and    *)
(* its answer, a write changes the cells it asks for and no other, a       *)
(* positive answer is given only once what the write put down would        *)
(* outlive a power cut, and a power cut undoes nothing but writes that had *)
(* not been committed.  On NAND the store may become unavailable.          *)
(* Of a write that was open while another took effect nothing is promised  *)
(* (raced): there is no lock.  Of the cells a write asks for, those named  *)
(* by Unpromised may be left as they were although the answer is positive. *)
(* MiscData implements it (MC_MiscData.tla).                               *)
(***************************************************************************)
EXTENDS Integers

CONSTANTS
  Clients,         \* those who may have one request each outstanding
  Cells,           \* the cells of the store
  Vals,            \* contents of a cell
  Requests,        \* what may be asked
  NoRequest,       \* no request is outstanding
  MayRefuse(_),    \* requests that are answered without being looked at
  IsWrite(_),      \* requests that change the store
  Targets(_),      \* the cells a write asks to change,
  Datum(_, _),     \* Datum(r, i): what it asks cell i to become,
  Unpromised(_),   \* and the cells where an acknowledgement means nothing
  Result(_, _)     \* Result(r, s): the cells of s a read r hands back

VARIABLES store, committed, down, raced, phase, asked, result

vars == <<store, committed, down, raced, phase, asked, result>>

Empty == [i \in {} |-> 0]

Init ==
  /\ store \in [Cells -> Vals]
  /\ committed = store
  /\ down = FALSE
  /\ raced = {}
  /\ phase = [c \in Clients |-> "idle"]
  /\ asked = [c \in Clients |-> NoRequest]
  /\ result = [c \in Clients |-> Empty]

Ask(c) ==
  /\ phase[c] = "idle"
  /\ LET r == asked'[c]
     IN /\ r \in Requests
        /\ asked' = [asked EXCEPT ![c] = r]
        /\ phase' = [phase EXCEPT ![c] = IF MayRefuse(r) THEN "refused" ELSE "open"]
  /\ UNCHANGED <<store, committed, down, raced, result>>

Observe(c) ==
  /\ phase[c] = "open"
  /\ ~IsWrite(asked[c])
  /\ ~down
  /\ result' = [result EXCEPT ![c] = Result(asked[c], store)]
  /\ phase' = [phase EXCEPT ![c] = "done"]
  /\ UNCHANGED <<store, committed, down, raced, asked>>

\* Other clients' writes that a write of c may overtake.
OpenWriters(c) == {d \in Clients \ {c} : phase[d] = "open" /\ IsWrite(asked[d])}

\* Every cell asked for is changed, but for some that are not promised.
TakesEffect(r) ==
  \E D \in SUBSET Targets(r) :
    /\ Targets(r) \ D \subseteq Unpromised(r)
    /\ store' = [i \in Cells |-> IF i \in D THEN Datum(r, i) ELSE store[i]]

Change(c) ==
  /\ phase[c] = "open"
  /\ IsWrite(asked[c])
  /\ IF c \in raced THEN store' \in [Cells -> Vals] ELSE TakesEffect(asked[c])
  /\ down' = FALSE
  /\ \E D \in SUBSET OpenWriters(c) : raced' = raced \cup D
  /\ \/ phase' = [phase EXCEPT ![c] = "changed"] /\ UNCHANGED committed
     \/ phase' = [phase EXCEPT ![c] = "done"] /\ committed' = store'
  /\ UNCHANGED <<asked, result>>

\* Committing one write commits whatever the store holds.
Commit(c) ==
  /\ committed' = store
  /\ \/ phase[c] = "changed" /\ phase' = [phase EXCEPT ![c] = "done"]
     \/ phase[c] = "open" /\ phase' = [phase EXCEPT ![c] = "refused"]
  /\ UNCHANGED <<store, down, raced, asked, result>>

Refuse(c) ==
  /\ phase[c] = "open"
  /\ phase' = [phase EXCEPT ![c] = "refused"]
  /\ UNCHANGED <<store, committed, down, raced, asked, result>>

\* A write that replaces the store makes it unavailable until it is done.
TakeDown(c) ==
  /\ phase[c] = "open"
  /\ IsWrite(asked[c])
  /\ ~down
  /\ down' = TRUE
  /\ UNCHANGED <<store, committed, raced, phase, asked, result>>

Reset ==
  /\ raced' = {}
  /\ phase' = [c \in Clients |-> "idle"]
  /\ asked' = [c \in Clients |-> NoRequest]
  /\ result' = [c \in Clients |-> Empty]

Respond(c) ==
  /\ phase[c] \in {"done", "refused"}
  /\ phase' = [phase EXCEPT ![c] = "idle"]
  /\ asked' = [asked EXCEPT ![c] = NoRequest]
  /\ result' = [result EXCEPT ![c] = Empty]
  /\ raced' = raced \ {c}
  /\ UNCHANGED <<store, committed, down>>

\* The process dies; what it had written stays readable.
Die == Reset /\ UNCHANGED <<store, committed, down>>

PowerCut ==
  /\ \E kept \in SUBSET Cells :
       store' = [i \in Cells |-> IF i \in kept THEN store[i] ELSE committed[i]]
  /\ committed' = store'
  /\ UNCHANGED down
  /\ Reset

Next ==
  \/ \E c \in Clients :
       \/ Observe(c) \/ Change(c) \/ Commit(c) \/ Refuse(c) \/ TakeDown(c) \/ Respond(c)
  \/ Die
  \/ PowerCut
  \/ \E c \in Clients : Ask(c)

Spec == Init /\ [][Next]_vars
=============================================================================
