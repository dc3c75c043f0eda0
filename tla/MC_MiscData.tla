---------------------------- MODULE MC_MiscData -----------------------------
(***************************************************************************)
(* MiscData for TLC on both media, and the mapping by which it implements  *)
(* MiscStore.  A behaviour stays on one medium, and its ports either take  *)
(* turns with every kind of request or race with a few kinds.              *)
(***************************************************************************)
EXTENDS MiscData, FiniteSets, TLC

CONSTANTS
  EmmcRace,  \* the kinds of request that race on eMMC,
  NandRace,  \* and on a NAND volume
  RaceLen    \* the longest payload that races, in cells

VARIABLES nand, turns

OnNand == INSTANCE MiscData WITH Nand <- TRUE
RaceOnEmmc == INSTANCE MiscData WITH Ops <- EmmcRace, MaxLen <- RaceLen
RaceOnNand == INSTANCE MiscData WITH Nand <- TRUE, Ops <- NandRace, MaxLen <- RaceLen

OneAtATime ==
  \A c, d \in Channels : pc[c] # "idle" /\ pc[d] # "idle" => c = d

MCInit == Init /\ nand \in BOOLEAN /\ turns \in BOOLEAN

MCNext ==
  /\ UNCHANGED <<nand, turns>>
  /\ \/ turns /\ ~nand /\ Next /\ OneAtATime'
     \/ turns /\ nand /\ OnNand!Next /\ OneAtATime'
     \/ ~turns /\ ~nand /\ RaceOnEmmc!Next
     \/ ~turns /\ nand /\ RaceOnNand!Next

MCSpec == MCInit /\ [][MCNext]_<<vars, nand, turns>>

\* The ports are interchangeable.
Symmetric == Permutations(Channels)

----------------------------------------------------------------------------
\* The mapping to MiscStore.
PhaseOf(c) ==
  CASE pc[c] = "idle" -> "idle"
    [] pc[c] = "sync" -> IF reply[c] = "ok" THEN "changed" ELSE "open"
    [] pc[c] = "reply" -> IF reply[c] = "ok" THEN "done" ELSE "refused"
    [] OTHER -> "open"

\* The acknowledged cells that eng_diag_product_ctrl does not write: it lays
\* its payload at the offset but stores len bytes from 0 on (:306-307), so
\* that whatever part of the payload lies at or past len is lost.  A control
\* read takes no notice of the offset either (:286), and hands back the
\* first cells (Returned).
Unwritten(r) == IF r.op = "ctrl_write" THEN {i \in Cells : i >= r.len} ELSE {}

Store == INSTANCE MiscStore WITH
  Clients <- Channels,
  MayRefuse <- LAMBDA r : Unanswered(r) \/ r.op = "phs_nocmd",
  IsWrite <- LAMBDA r : r.op \in StoreOps,
  Targets <- Addressed,
  Datum <- LAMBDA r, i : r.data[i - r.off],
  Unpromised <- Unwritten,
  Result <- Returned,
  store <- disk,
  committed <- durable,
  down <- marker,
  raced <- raced,
  phase <- [c \in Channels |-> PhaseOf(c)],
  asked <- req,
  result <- [c \in Channels |-> IF pc[c] = "reply" /\ req[c].op \in ReadOps
                                THEN image[c] ELSE NoImage]

\* Requests are atomic and durable as MiscStore says: an acknowledged write
\* has changed every cell it asks for, on the medium, but for a control
\* write's cells at or past its own length.
ImplementsStore == Store!Spec
=============================================================================
