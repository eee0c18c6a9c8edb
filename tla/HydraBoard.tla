----------------------------- MODULE HydraBoard -----------------------------
(***************************************************************************)
(* The life of one Hydra board: hydraopen(), hydra_initialize() and        *)
(* setup_ne2000(), the DLPI primitives that bind and unbind a stream,      *)
(* hydraclose(), and hydraintr() delivering frames to the streams.         *)
(*                                                                         *)
(* hydraopen() and hydraclose() run without splhydra(), so hydraintr() can *)
(* run between any two of their steps: here each store that the handler or *)
(* the chip can see ends a step.  Neither of them sleeps and the kernel    *)
(* does not preempt, so one process at a time is in them.  The primitives  *)
(* run at splhydra() and are single steps.  The card is present; the ring  *)
(* is a sequence of frames (HydraRing has its pages).                      *)
(***************************************************************************)
EXTENDS Integers, Sequences, FiniteSets

CONSTANTS
  HYDRA_MAXDEV,  \* streams of a board
  Saps,          \* Ethernet types that streams bind and frames carry
  Dests,         \* destinations: "us", "broadcast", "other"
  MaxRing,       \* bound: frames in the ring
  MaxOpens       \* bound: calls of hydraopen()

\* The sap of a stream that has not bound one, and a type a frame may carry all
\* the same (also the inner type of a trailer).
NoSap == "0"

ASSUME BoardAssumption ==
  /\ HYDRA_MAXDEV \in Nat \ {0}
  /\ Dests \subseteq {"us", "broadcast", "other"}
  /\ MaxRing \in Nat \ {0}
  /\ MaxOpens \in Nat

Devs   == 0 .. HYDRA_MAXDEV - 1
Frames == [sap : Saps \cup {NoSap}, dest : Dests]

VARIABLES
  \* the world
  quiet,    \* no frame ends and no other board interrupts while the driver
            \* has the board half set up
  \* the chip
  sta,      \* CR: started, or stopped after STP
  storing,  \* a frame is being received
  prx,      \* ISR is not zero
  imr,      \* IMR lets it through to INT2
  ring,     \* frames between BNRY and CURR
  fresh,    \* the ring registers are those of next_pkt
  \* the driver
  state,    \* hydra_status.board_state
  hydra,    \* board->hydra[]: q (open or not), state, sap
  pc,       \* where hydraopen() or hydraclose() is
  dev,      \* the minor the call is about
  \* history
  opens,    \* calls of hydraopen()
  bound,    \* the saps each open stream has bound since it was opened
  stray     \* what the last interrupt gave to streams that had not bound the sap

chipVars  == <<sta, storing, prx, imr, ring, fresh>>
driveVars == <<state, hydra, pc, dev>>
histVars  == <<opens, bound, stray>>
vars      == <<chipVars, driveVars, histVars>>

\* DL_UNATTACHED and HYDRA_BOARD_RESET are what the zeroed arrays hold.
Closed == [q |-> FALSE, state |-> "UNATTACHED", sap |-> NoSap]

Init ==
  /\ quiet \in BOOLEAN
  /\ sta = FALSE /\ storing = FALSE /\ prx = FALSE /\ imr = FALSE
  /\ ring = <<>> /\ fresh = FALSE
  /\ state = "RESET"
  /\ hydra = [d \in Devs |-> Closed]
  /\ pc = "idle" /\ dev = 0
  /\ opens = 0
  /\ bound = [d \in Devs |-> {}]
  /\ stray = {}

Open == {d \in Devs : hydra[d].q}

\* INT2 is asserted: no instruction of the process runs before the handler.
Asserted == imr /\ prx

-----------------------------------------------------------------------------
(* The chip (external).                                                    *)

FrameBegins ==
  /\ sta
  /\ ~storing
  /\ Len(ring) < MaxRing
  /\ storing' = TRUE
  /\ UNCHANGED <<sta, prx, imr, ring, fresh, driveVars, histVars>>

HalfSetUp == state = "RESET" \/ pc \in {"close_scan", "close_reset"}

\* STP lets the frame that is being received end.
FrameEnds(f) ==
  /\ storing
  /\ quiet => ~HalfSetUp
  /\ storing' = FALSE
  /\ ring' = Append(ring, f)
  /\ prx' = TRUE
  /\ UNCHANGED <<sta, imr, fresh, driveVars, histVars>>

-----------------------------------------------------------------------------
(* hydraintr(): p2int calls it on every INT2, whichever board raised it.    *)

\* It is called because this board asserts INT2 or because another one does.
Called == Asserted \/ ~(quiet /\ HalfSetUp)

\* toss_packet_up_stream(): the streams the frame f is for; no state of the stream
\* is asked for, so a frame of type 0 is for those that have not bound.  canput()
\* or allocb() may fail for any of them.
Takers(f) ==
  {d \in Open : hydra[d].sap = f.sap /\ f.dest \in {"us", "broadcast"}}

Strays(d, f) ==
  IF f.sap \in bound[d] THEN {}
  ELSE {[opening |-> pc = "open_reset" /\ d = dev, zero |-> f.sap = NoSap,
         state |-> hydra[d].state]}

\* Broken variant: the interrupt is not acknowledged.
IntrServeNoAck ==
  /\ Called
  /\ state = "RUNNING"
  /\ prx
  /\ sta' = TRUE
  /\ ring' = <<>>
  /\ UNCHANGED <<storing, prx, imr, fresh, driveVars, histVars>>

\* The board runs: the chip is (re)started, the interrupt acknowledged and
\* the ring drained.
IntrServe ==
  /\ Called
  /\ state = "RUNNING"
  /\ prx
  /\ sta' = TRUE
  /\ prx' = FALSE
  /\ ring' = <<>>
  /\ \E got \in SUBSET (Devs \X {ring[i] : i \in 1 .. Len(ring)}) :
       /\ \A t \in got : t[1] \in Takers(t[2])
       /\ stray' = UNION {Strays(t[1], t[2]) : t \in got}
  /\ UNCHANGED <<storing, imr, fresh, driveVars, opens, bound>>

\* Nothing to serve: the chip is (re)started all the same.
IntrIdle ==
  /\ Called
  /\ state = "RUNNING"
  /\ ~prx
  /\ sta' = TRUE
  /\ UNCHANGED <<storing, prx, imr, ring, fresh, driveVars, histVars>>

\* The board does not run: the handler returns with the interrupt still asserted, and is
\* called again.
IntrSkip ==
  /\ Asserted
  /\ state # "RUNNING"
  /\ UNCHANGED vars

-----------------------------------------------------------------------------
(* hydraopen().                                                            *)

Step(from, to) == pc = from /\ ~Asserted /\ pc' = to

\* Minor d + 1, or 0 to have a free one found, or one past the last.
OpenCall ==
  /\ opens < MaxOpens
  /\ Step("idle", IF state = "RUNNING" THEN "open_pick" ELSE "init_stop")
  /\ dev' \in 0 .. HYDRA_MAXDEV + 1
  /\ opens' = opens + 1
  /\ UNCHANGED <<chipVars, state, hydra, bound, stray>>

\* get_ethernet_address() stops the chip, masks and clears its interrupts.
InitStop ==
  /\ Step("init_stop", "init_mask")
  /\ sta' = FALSE
  /\ UNCHANGED <<storing, prx, imr, ring, fresh, state, hydra, dev, histVars>>

\* Broken variants: IMR is left as it is; the board is marked running first.
InitNoMask ==
  /\ Step("init_mask", "init_streams")
  /\ UNCHANGED <<chipVars, state, hydra, dev, histVars>>

InitMaskRunning ==
  /\ Step("init_mask", "init_streams")
  /\ imr' = FALSE
  /\ state' = "RUNNING"
  /\ UNCHANGED <<sta, storing, prx, ring, fresh, hydra, dev, histVars>>

InitMask ==
  /\ Step("init_mask", "init_streams")
  /\ imr' = FALSE
  /\ UNCHANGED <<sta, storing, prx, ring, fresh, state, hydra, dev, histVars>>

\* ISR is cleared, every stream of the board reset, and next_pkt with them.
InitStreams ==
  /\ Step("init_streams", "init_ring")
  /\ prx' = FALSE
  /\ hydra' = [d \in Devs |-> [q |-> FALSE, state |-> "UNBOUND", sap |-> NoSap]]
  /\ fresh' = FALSE
  /\ UNCHANGED <<sta, storing, imr, ring, state, dev, histVars>>

\* setup_ne2000(): hydra_reset() waits for the chip, then PSTART to CURR are
\* written and ISR cleared.
InitRing ==
  /\ Step("init_ring", "init_start")
  /\ storing' = FALSE
  /\ ring' = <<>>
  /\ fresh' = TRUE
  /\ prx' = FALSE
  /\ UNCHANGED <<sta, imr, state, hydra, dev, histVars>>

InitStart ==
  /\ Step("init_start", "init_unmask")
  /\ sta' = TRUE
  /\ UNCHANGED <<storing, prx, imr, ring, fresh, state, hydra, dev, histVars>>

InitUnmask ==
  /\ Step("init_unmask", "init_running")
  /\ imr' = TRUE
  /\ UNCHANGED <<sta, storing, prx, ring, fresh, state, hydra, dev, histVars>>

InitRunning ==
  /\ Step("init_running", "open_pick")
  /\ state' = "RUNNING"
  /\ UNCHANGED <<chipVars, hydra, dev, histVars>>

\* The minor's index, or for minor 0 the first that is free, if any.
Picked ==
  IF dev > 0 THEN dev - 1
  ELSE IF Open = Devs THEN HYDRA_MAXDEV
       ELSE CHOOSE d \in Devs \ Open : \A e \in Devs \ Open : d <= e

\* ENOSPC and EBUSY.
OpenFail ==
  /\ Step("open_pick", "idle")
  /\ Picked \notin Devs \ Open
  /\ dev' = 0
  /\ UNCHANGED <<chipVars, state, hydra, histVars>>

\* hp->q = q
OpenQueue ==
  /\ Step("open_pick", "open_reset")
  /\ Picked \in Devs \ Open
  /\ hydra' = [hydra EXCEPT ![Picked].q = TRUE]
  /\ dev' = Picked
  /\ UNCHANGED <<chipVars, state, histVars>>

\* Broken variant: the sap of the last user stays.
OpenResetKeepsSap ==
  /\ Step("open_reset", "idle")
  /\ hydra' = [hydra EXCEPT ![dev].state = "UNATTACHED"]
  /\ dev' = 0
  /\ UNCHANGED <<chipVars, state, histVars>>

\* hp->state = DL_UNATTACHED; hp->sap = 0
OpenReset ==
  /\ Step("open_reset", "idle")
  /\ hydra' = [hydra EXCEPT ![dev] = [q |-> TRUE, state |-> "UNATTACHED",
                                      sap |-> NoSap]]
  /\ dev' = 0
  /\ UNCHANGED <<chipVars, state, histVars>>

-----------------------------------------------------------------------------
(* hydraproto(), for an open stream; ok: allocb() gave a reply message.     *)

Dlpi(d) == pc = "idle" /\ ~Asserted /\ hydra[d].q

DlAttach(d, ok) ==
  /\ Dlpi(d)
  /\ hydra' = IF ok THEN [hydra EXCEPT ![d].state = "UNBOUND"] ELSE hydra
  /\ UNCHANGED <<chipVars, state, pc, dev, histVars>>

\* sap and state are stored before allocb() is tried.
DlBind(d, s) ==
  /\ Dlpi(d)
  /\ hydra' = [hydra EXCEPT ![d].sap = s, ![d].state = "IDLE"]
  /\ bound' = [bound EXCEPT ![d] = @ \cup {s}]
  /\ UNCHANGED <<chipVars, state, pc, dev, opens, stray>>

DlUnbind(d, ok) ==
  /\ Dlpi(d)
  /\ hydra' = IF ok THEN [hydra EXCEPT ![d].state = "UNBOUND", ![d].sap = NoSap]
              ELSE hydra
  /\ UNCHANGED <<chipVars, state, pc, dev, histVars>>

DlDetach(d, ok) ==
  /\ Dlpi(d)
  /\ hydra' = IF ok THEN [hydra EXCEPT ![d].state = "UNATTACHED"] ELSE hydra
  /\ UNCHANGED <<chipVars, state, pc, dev, histVars>>

-----------------------------------------------------------------------------
(* hydraclose().                                                           *)

CloseCall(d) ==
  /\ hydra[d].q
  /\ Step("idle", "close_scan")
  /\ hydra' = [hydra EXCEPT ![d].q = FALSE]
  /\ bound' = [bound EXCEPT ![d] = {}]
  /\ dev' = 0
  /\ UNCHANGED <<chipVars, state, opens, stray>>

CloseNotLast ==
  /\ Step("close_scan", "idle")
  /\ Open # {}
  /\ UNCHANGED <<chipVars, state, hydra, dev, histVars>>

\* Broken variants: the chip is not stopped; other streams are not looked for.
CloseNoStop ==
  /\ Step("close_scan", "close_reset")
  /\ Open = {}
  /\ UNCHANGED <<chipVars, state, hydra, dev, histVars>>

CloseStopAlways ==
  /\ Step("close_scan", "close_reset")
  /\ sta' = FALSE
  /\ UNCHANGED <<storing, prx, imr, ring, fresh, state, hydra, dev, histVars>>

\* The last stream is closed: the chip is stopped ...
CloseStop ==
  /\ Step("close_scan", "close_reset")
  /\ Open = {}
  /\ sta' = FALSE
  /\ UNCHANGED <<storing, prx, imr, ring, fresh, state, hydra, dev, histVars>>

\* ... and the board marked so.  IMR and ISR are left as they are.
CloseReset ==
  /\ Step("close_reset", "idle")
  /\ state' = "RESET"
  /\ UNCHANGED <<chipVars, hydra, dev, histVars>>

Chip == FrameBegins \/ \E f \in Frames : FrameEnds(f)
Intr == IntrServe \/ IntrIdle \/ IntrSkip
Initialize == InitStop \/ InitMask \/ InitStreams \/ InitRing \/ InitStart
              \/ InitUnmask \/ InitRunning
OpenSteps  == Initialize \/ OpenFail \/ OpenQueue \/ OpenReset
CloseSteps == CloseNotLast \/ CloseStop \/ CloseReset

Calls ==
  \/ OpenCall
  \/ \E d \in Devs :
       \/ CloseCall(d)
       \/ \E s \in Saps : DlBind(d, s)
       \/ \E ok \in BOOLEAN : DlAttach(d, ok) \/ DlUnbind(d, ok) \/ DlDetach(d, ok)

\* No stream is open and the bound leaves no call to come.
Done ==
  /\ opens = MaxOpens /\ Open = {} /\ pc = "idle" /\ ~Asserted
  /\ UNCHANGED vars

Next ==
  /\ Chip \/ Intr \/ OpenSteps \/ CloseSteps \/ Calls \/ Done
  /\ UNCHANGED quiet

Spec == Init /\ [][Next]_<<vars, quiet>>

\* The handler and the call in progress run; nobody has to call or to send.
FairSpec == Spec /\ WF_vars(Asserted /\ Intr) /\ WF_vars(OpenSteps \/ CloseSteps)

-----------------------------------------------------------------------------
(* Properties.                                                             *)

InitPcs == {"init_stop", "init_mask", "init_streams", "init_ring",
            "init_start", "init_unmask", "init_running"}

Pcs == InitPcs \cup {"idle", "open_pick", "open_reset", "close_scan", "close_reset"}

DlStates == {"UNATTACHED", "UNBOUND", "IDLE"}

TypeOK ==
  /\ {quiet, sta, storing, prx, imr, fresh} \subseteq BOOLEAN
  /\ ring \in Seq(Frames)
  /\ state \in {"RESET", "RUNNING"}
  /\ hydra \in [Devs -> [q : BOOLEAN, state : DlStates, sap : Saps \cup {NoSap}]]
  /\ pc \in Pcs
  /\ dev \in 0 .. HYDRA_MAXDEV + 1
  /\ opens \in 0 .. MaxOpens
  /\ bound \in [Devs -> SUBSET Saps]
  /\ stray \in SUBSET [opening : BOOLEAN, zero : BOOLEAN, state : DlStates]

\* hydra_initialize() forgets every stream of the board: it is only reached
\* when none is open, so no open stream is ever orphaned, its board stopped
\* under it or its place given to another.
OpenStreamsHaveBoard ==
  Open # {} => state = "RUNNING" /\ imr /\ sta /\ pc \notin InitPcs

\* The handler never walks a ring whose registers and next_pkt are not those
\* of the same initialisation, though it may run at any step of one.
HandlerSeesWholeBoard == state = "RUNNING" => fresh /\ imr

\* A stream gets the frames of the saps it bound since it was opened, and no
\* others but these two: in the step of hydraopen() between storing the queue and
\* clearing the sap, those of the sap the previous user of the minor left; and
\* frames of type 0, as long as it is not bound (hydra.c:1325 compares the type
\* with the 0 an unbound stream has for its sap and asks for no state).
StraysExplained ==
  \A m \in stray : m.opening \/ (m.zero /\ m.state # "IDLE")

\* INT2 is level triggered: an interrupt hydraintr() does not acknowledge
\* comes back at once and the CPU does nothing else: it must not stay asserted.
InterruptServed == Asserted ~> ~Asserted

\* The same on a quiet network: when no frame ends while setup_ne2000() or
\* hydraclose() has the board half set up, every interrupt is served.
ServedWhenQuiet == quiet => InterruptServed

\* The lasting interrupts have two causes only: a frame that ended between the
\* stores to IMR and to board_state in setup_ne2000(), or one that ended after
\* the last hydraclose(), which leaves IMR as it was.
UnservedOnlyInWindows ==
  Asserted /\ state # "RUNNING" =>
    \/ pc = "init_running"
    \/ pc \in {"idle", "init_stop", "init_mask"} /\ Open = {} /\ fresh

\* A board nobody has open is stopped, unless hydraintr() ran between the two
\* steps of hydraclose(): it starts the chip of every board marked running.
ClosedIsStopped == quiet /\ pc = "idle" /\ state = "RESET" => ~sta
============================================================================
