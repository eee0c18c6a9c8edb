-------------------------- MODULE HydraBoardProofs --------------------------
(***************************************************************************)
(* Theorems of HydraBoard, for any number of streams, types and frames.    *)
(***************************************************************************)
EXTENDS HydraBoard, SequenceTheorems, TLAPS

-----------------------------------------------------------------------------
(* The inductive invariant.                                                *)

\* Where the calls stand and what the board is marked as; streams are open only
\* on a board that is marked running.
PhaseInv ==
  /\ pc \in InitPcs => state = "RESET"
  /\ pc \in {"open_pick", "open_reset", "close_scan", "close_reset"} => state = "RUNNING"
  /\ state = "RESET" \/ pc = "close_reset" => Open = {}
  /\ pc = "open_reset" => dev \in Devs /\ hydra[dev].q

\* What the chip is set to at each of those places.
ChipInv ==
  /\ state = "RUNNING" => fresh /\ imr
  /\ state = "RUNNING" /\ pc # "close_reset" => sta
  /\ pc \in {"init_start", "init_unmask", "init_running"} => fresh
  /\ pc \in {"init_streams", "init_ring", "init_start", "init_unmask"} => ~imr
  /\ state = "RESET" /\ pc \in {"idle", "init_stop", "init_mask"} /\ imr => fresh
  /\ pc \in {"init_unmask", "init_running"} => sta
  /\ pc = "init_running" => imr

\* On a quiet network nothing comes between the two last steps of hydraclose().
QuietInv ==
  quiet =>
    /\ pc = "close_reset" => ~sta /\ ~(imr /\ prx)
    /\ pc = "idle" /\ state = "RESET" => ~sta

\* An open stream has no sap that it has not bound, except before hydraopen() has
\* cleared the one it found; and none but a bound stream is IDLE.
SapsOwn(d) ==
  /\ hydra[d].sap \in bound[d] \cup {NoSap}
  /\ hydra[d].state = "IDLE" => hydra[d].sap \in bound[d]

SapInv ==
  /\ \A d \in Devs : hydra[d].q /\ ~(pc = "open_reset" /\ d = dev) => SapsOwn(d)
  /\ StraysExplained

BoardInv == TypeOK /\ PhaseInv /\ ChipInv /\ QuietInv /\ SapInv

\* The board starts as the invariant has it.
LEMMA BoardInit == Init => BoardInv
<1> SUFFICES ASSUME Init PROVE BoardInv
  OBVIOUS
<1>1. \A d \in Devs : hydra[d] = Closed
  BY DEF Init
<1>2. TypeOK
  <2>1. ring \in Seq(Frames)
    BY EmptySeq DEF Init
  <2>2. hydra \in [Devs -> [q : BOOLEAN, state : DlStates, sap : Saps \cup {NoSap}]]
    BY DEF Init, Closed, DlStates
  <2>3. {quiet, sta, storing, prx, imr, fresh} \subseteq BOOLEAN
    BY DEF Init
  <2> QED
    BY <2>1, <2>2, <2>3, BoardAssumption DEF Init, TypeOK, Pcs
<1>3. Open = {}
  BY <1>1 DEF Open, Closed
<1>4. PhaseInv /\ ChipInv /\ QuietInv
  BY <1>3 DEF Init, PhaseInv, ChipInv, QuietInv, InitPcs
<1>5. SapInv
  BY <1>1 DEF Init, SapInv, SapsOwn, Closed, StraysExplained
<1> QED
  BY <1>2, <1>4, <1>5 DEF BoardInv

\* Every step keeps the types.
LEMMA TypeStep == TypeOK /\ [Next]_<<vars, quiet>> => TypeOK'
<1> SUFFICES ASSUME TypeOK, [Next]_<<vars, quiet>> PROVE TypeOK'
  OBVIOUS
<1> USE DEF TypeOK, DlStates
<1>1. ASSUME NEW f \in Frames, FrameEnds(f), quiet' = quiet PROVE TypeOK'
  <2>1. ring' \in Seq(Frames)
    BY <1>1, AppendProperties DEF FrameEnds
  <2> QED
    BY <1>1, <2>1 DEF FrameEnds, driveVars, histVars
<1>2. ASSUME FrameBegins, quiet' = quiet PROVE TypeOK'
  BY <1>2 DEF FrameBegins, driveVars, histVars
<1>3. ASSUME Intr, quiet' = quiet PROVE TypeOK'
  <2>1. CASE IntrServe
    <3>1. ASSUME NEW d \in Devs, NEW f \in Frames
          PROVE  Strays(d, f) \in SUBSET [opening : BOOLEAN, zero : BOOLEAN, state : DlStates]
      <4>1. hydra[d].state \in DlStates
        OBVIOUS
      <4> HIDE DEF TypeOK, DlStates
      <4>2. (pc = "open_reset" /\ d = dev) \in BOOLEAN /\ (f.sap = NoSap) \in BOOLEAN
        OBVIOUS
      <4> QED
        BY <4>1, <4>2 DEF Strays
    <3>2. \A i \in 1 .. Len(ring) : ring[i] \in Frames
      BY ElementOfSeq
    <3>3. stray' \in SUBSET [opening : BOOLEAN, zero : BOOLEAN, state : DlStates]
      BY <2>1, <3>1, <3>2 DEF IntrServe
    <3>4. ring' \in Seq(Frames)
      BY <2>1, EmptySeq DEF IntrServe
    <3> QED
      BY <1>3, <2>1, <3>3, <3>4 DEF IntrServe, driveVars
  <2>2. CASE IntrIdle
    BY <1>3, <2>2 DEF IntrIdle, driveVars, histVars
  <2>3. CASE IntrSkip
    BY <1>3, <2>3 DEF IntrSkip, vars, chipVars, driveVars, histVars
  <2> QED
    BY <1>3, <2>1, <2>2, <2>3 DEF Intr
<1>4. ASSUME Initialize, quiet' = quiet PROVE TypeOK'
  <2>1. <<>> \in Seq(Frames)
    BY EmptySeq
  <2>2. ASSUME InitStreams PROVE TypeOK'
    BY <1>4, <2>2 DEF InitStreams, Step, InitPcs, Pcs, histVars
  <2>3. ASSUME InitRing PROVE TypeOK'
    BY <1>4, <2>1, <2>3 DEF InitRing, Step, InitPcs, Pcs, histVars
  <2>4. ASSUME InitStop \/ InitMask \/ InitStart \/ InitUnmask \/ InitRunning PROVE TypeOK'
    BY <1>4, <2>4 DEF InitStop, InitMask, InitStart, InitUnmask, InitRunning, Step, InitPcs, Pcs,
       chipVars, histVars
  <2> QED
    BY <1>4, <2>2, <2>3, <2>4 DEF Initialize
<1>5. ASSUME OpenFail \/ OpenQueue \/ OpenReset, quiet' = quiet PROVE TypeOK'
  <2>1. dev' \in 0 .. HYDRA_MAXDEV + 1
    BY <1>5, BoardAssumption DEF OpenFail, OpenQueue, OpenReset, Open, Devs
  <2>2. pc' \in Pcs
    BY <1>5 DEF OpenFail, OpenQueue, OpenReset, Step, Pcs
  <2>3. hydra' \in [Devs -> [q : BOOLEAN, state : DlStates,
                             sap : Saps \cup {NoSap}]]
    <3>1. CASE OpenQueue
      <4> PICK p : hydra' = [hydra EXCEPT ![p].q = TRUE]
        BY <3>1, Zenon DEF OpenQueue
      <4> QED
        OBVIOUS
    <3>2. CASE OpenReset
      BY <3>2 DEF OpenReset
    <3>3. CASE OpenFail
      BY <3>3 DEF OpenFail
    <3> QED
      BY <1>5, <3>1, <3>2, <3>3
  <2>4. UNCHANGED <<chipVars, state, histVars>>
    BY <1>5 DEF OpenFail, OpenQueue, OpenReset
  <2> QED
    BY <1>5, <2>1, <2>2, <2>3, <2>4 DEF chipVars, histVars
<1>6. ASSUME CloseSteps, quiet' = quiet PROVE TypeOK'
  BY <1>6 DEF Pcs, CloseSteps, CloseNotLast, CloseStop, CloseReset, Step, chipVars, histVars
<1>7. ASSUME Calls, quiet' = quiet PROVE TypeOK'
  <2>1. CASE OpenCall
    BY <1>7, <2>1, BoardAssumption DEF OpenCall, Step, InitPcs, Pcs, chipVars
  <2>2. ASSUME NEW d \in Devs, CloseCall(d) PROVE TypeOK'
    <3>1. dev' \in 0 .. HYDRA_MAXDEV + 1
      BY <2>2, BoardAssumption DEF CloseCall
    <3>2. pc' \in Pcs
      BY <2>2 DEF CloseCall, Step, Pcs
    <3>3. hydra' \in [Devs -> [q : BOOLEAN, state : DlStates,
                               sap : Saps \cup {NoSap}]]
      BY <2>2 DEF CloseCall
    <3>4. bound' \in [Devs -> SUBSET Saps]
      BY <2>2 DEF CloseCall
    <3> QED
      BY <1>7, <2>2, <3>1, <3>2, <3>3, <3>4 DEF CloseCall, chipVars
  <2>3. ASSUME NEW d \in Devs, NEW s \in Saps, DlBind(d, s) PROVE TypeOK'
    BY <1>7, <2>3 DEF DlBind, Dlpi, chipVars
  <2>4. ASSUME NEW d \in Devs, NEW ok \in BOOLEAN,
               DlAttach(d, ok) \/ DlUnbind(d, ok) \/ DlDetach(d, ok)
        PROVE  TypeOK'
    BY <1>7, <2>4 DEF DlAttach, DlUnbind, DlDetach, Dlpi, chipVars, histVars
  <2> QED
    BY <1>7, <2>1, <2>2, <2>3, <2>4 DEF Calls
<1>8. ASSUME Done \/ UNCHANGED vars, quiet' = quiet PROVE TypeOK'
  BY <1>8 DEF Done, vars, chipVars, driveVars, histVars
<1> QED
  BY <1>1, <1>2, <1>3, <1>4, <1>5, <1>6, <1>7, <1>8 DEF Next, Chip, OpenSteps

-----------------------------------------------------------------------------
(* The steps.                                                              *)

\* With the same streams open, Open is the same set.
LEMMA OpenKept ==
  ASSUME TypeOK, hydra' = hydra
  PROVE  Open' = Open
BY DEF Open

\* The chip: it only runs when it is started, and what it does is seen in PRX.
LEMMA ChipStep ==
  ASSUME BoardInv, Chip, quiet' = quiet
  PROVE  (PhaseInv /\ ChipInv /\ QuietInv /\ SapInv)'
<1> USE DEF BoardInv
<1>0. UNCHANGED <<driveVars, histVars, sta, imr, fresh>>
  BY DEF Chip, FrameBegins, FrameEnds
<1>1. Open' = Open
  BY <1>0, OpenKept DEF driveVars
<1>2. PhaseInv' /\ ChipInv'
  BY <1>0, <1>1 DEF PhaseInv, ChipInv, driveVars
<1>3. quiet /\ pc = "close_reset" => prx' = prx
  BY DEF Chip, FrameBegins, FrameEnds, HalfSetUp
<1>4. QuietInv'
  BY <1>0, <1>3 DEF QuietInv, driveVars
<1>5. SapInv'
  BY <1>0 DEF SapInv, SapsOwn, StraysExplained, driveVars, histVars
<1> QED
  BY <1>2, <1>4, <1>5

\* hydraintr(): what it delivers goes to streams that have bound the sap.
LEMMA IntrStep ==
  ASSUME BoardInv, Intr, quiet' = quiet
  PROVE  (PhaseInv /\ ChipInv /\ QuietInv /\ SapInv)'
<1> USE DEF BoardInv
<1>0. UNCHANGED <<driveVars, opens, bound, imr, fresh, storing>>
  BY DEF Intr, IntrServe, IntrIdle, IntrSkip, vars, chipVars, histVars
<1>1. Open' = Open
  BY <1>0, OpenKept DEF driveVars
<1>2. PhaseInv'
  BY <1>0, <1>1 DEF PhaseInv, driveVars
<1>3. \/ IntrSkip /\ UNCHANGED <<sta, prx, stray>>
      \/ state = "RUNNING" /\ Called /\ sta' /\ (IntrServe \/ stray' = stray)
  BY DEF Intr, IntrServe, IntrIdle, IntrSkip, vars, chipVars, histVars
<1>4. ChipInv'
  BY <1>0, <1>3 DEF ChipInv, driveVars
<1>5. QuietInv'
  BY <1>0, <1>3 DEF QuietInv, Called, Asserted, HalfSetUp, driveVars
<1>6. StraysExplained'
  <2>1. CASE IntrServe
    <3> PICK got \in SUBSET (Devs \X {ring[i] : i \in 1 .. Len(ring)}) :
          /\ \A t \in got : t[1] \in Takers(t[2])
          /\ stray' = UNION {Strays(t[1], t[2]) : t \in got}
      BY <2>1 DEF IntrServe
    <3>1. ASSUME NEW t \in got, NEW m \in Strays(t[1], t[2]), ~m.opening
          PROVE  m.zero /\ m.state # "IDLE"
      <4>1. t[1] \in Devs /\ t[1] \in Takers(t[2])
        OBVIOUS
      <4>2. hydra[t[1]].q /\ hydra[t[1]].sap = t[2].sap
        BY <4>1 DEF Takers, Open
      <4>3. /\ t[2].sap \notin bound[t[1]]
            /\ m = [opening |-> pc = "open_reset" /\ t[1] = dev, zero |-> t[2].sap = NoSap,
                     state |-> hydra[t[1]].state]
        BY <3>1 DEF Strays
      <4>4. SapsOwn(t[1])
        BY <3>1, <4>1, <4>2, <4>3 DEF SapInv, SapsOwn
      <4> QED
        BY <4>2, <4>3, <4>4 DEF SapsOwn
    <3> QED
      BY <3>1 DEF StraysExplained
  <2> QED
    BY <1>3, <2>1 DEF SapInv, SapsOwn, StraysExplained
<1>7. SapInv'
  BY <1>0, <1>6 DEF SapInv, SapsOwn, driveVars
<1> QED
  BY <1>2, <1>4, <1>5, <1>7

\* hydra_initialize(): the board is reset, no stream is open.
LEMMA InitializeStep ==
  ASSUME BoardInv, Initialize, quiet' = quiet
  PROVE  (PhaseInv /\ ChipInv /\ QuietInv /\ SapInv)'
<1> USE DEF BoardInv
<1>0. UNCHANGED <<histVars, dev>> /\ pc \in InitPcs /\ ~(imr /\ prx)
  BY DEF Initialize, InitStop, InitMask, InitStreams, InitRing, InitStart, InitUnmask,
     InitRunning, Step, InitPcs, Asserted
<1>1. state = "RESET" /\ Open = {}
  BY <1>0 DEF PhaseInv
<1>2. \A d \in Devs : ~hydra'[d].q
  <2>1. \A d \in Devs : ~hydra[d].q
    BY <1>1 DEF Open
  <2>2. InitStreams \/ hydra' = hydra
    BY DEF Initialize, InitStop, InitMask, InitStreams, InitRing, InitStart, InitUnmask,
       InitRunning
  <2> QED
    BY <2>1, <2>2 DEF InitStreams
<1>3. Open' = {}
  BY <1>2 DEF Open
<1>4. PhaseInv'
  BY <1>1, <1>3 DEF PhaseInv, Initialize, InitStop, InitMask, InitStreams, InitRing,
     InitStart, InitUnmask, InitRunning, Step, InitPcs
<1>5. ChipInv'
  BY <1>0, <1>1 DEF ChipInv, Initialize, InitStop, InitMask, InitStreams, InitRing,
     InitStart, InitUnmask, InitRunning, Step, InitPcs, chipVars
<1>6. QuietInv'
  BY <1>0, <1>1 DEF QuietInv, Initialize, InitStop, InitMask, InitStreams, InitRing,
     InitStart, InitUnmask, InitRunning, Step, InitPcs
<1>7. SapInv'
  BY <1>0, <1>2 DEF SapInv, SapsOwn, StraysExplained, histVars
<1> QED
  BY <1>4, <1>5, <1>6, <1>7

\* hydraopen(), once the board runs: the minor is taken, then its sap cleared.
LEMMA PickStep ==
  ASSUME BoardInv, OpenFail \/ OpenQueue \/ OpenReset, quiet' = quiet
  PROVE  (PhaseInv /\ ChipInv /\ QuietInv /\ SapInv)'
<1> USE DEF BoardInv
<1>0. UNCHANGED <<chipVars, state, histVars>>
  BY DEF OpenFail, OpenQueue, OpenReset
<1>1. state = "RUNNING" /\ pc \in {"open_pick", "open_reset"} /\ pc' \in {"idle", "open_reset"}
  BY DEF OpenFail, OpenQueue, OpenReset, Step, PhaseInv
<1>2. ChipInv' /\ QuietInv'
  BY <1>0, <1>1 DEF ChipInv, QuietInv, chipVars, InitPcs
<1>3. pc' = "open_reset" => dev' \in Devs /\ hydra'[dev'].q
  <2>1. ASSUME OpenQueue PROVE dev' = Picked /\ Picked \in Devs /\ hydra' = [hydra EXCEPT ![Picked].q = TRUE]
    BY <2>1 DEF OpenQueue
  <2>2. pc' = "open_reset" => OpenQueue
    BY DEF OpenFail, OpenReset, Step
  <2> QED
    BY <2>1, <2>2 DEF TypeOK
<1>4. PhaseInv'
  BY <1>0, <1>1, <1>3 DEF PhaseInv, InitPcs
<1>5. ASSUME NEW d \in Devs, hydra'[d].q, ~(pc' = "open_reset" /\ d = dev')
      PROVE  SapsOwn(d)'
  <2>0. bound' = bound
    BY <1>0 DEF histVars
  <2>1. CASE OpenFail
    <3>1. pc # "open_reset" /\ hydra' = hydra
      BY <2>1 DEF OpenFail, Step
    <3> QED
      BY <1>5, <2>0, <3>1 DEF SapInv, SapsOwn
  <2>2. CASE OpenQueue
    <3>1. pc = "open_pick" /\ pc' = "open_reset" /\ dev' = Picked
          /\ hydra' = [hydra EXCEPT ![Picked].q = TRUE]
      BY <2>2 DEF OpenQueue, Step
    <3>2. hydra'[d] = hydra[d]
      BY <1>5, <3>1 DEF TypeOK
    <3> QED
      BY <1>5, <2>0, <3>1, <3>2 DEF SapInv, SapsOwn
  <2>3. CASE OpenReset
    <3>1. pc = "open_reset"
          /\ hydra' = [hydra EXCEPT ![dev] = [q |-> TRUE, state |-> "UNATTACHED", sap |-> NoSap]]
      BY <2>3 DEF OpenReset, Step
    <3>2. CASE d = dev
      BY <3>1, <3>2 DEF TypeOK, SapsOwn
    <3>3. CASE d # dev
      BY <1>5, <2>0, <3>1, <3>3 DEF SapInv, SapsOwn, TypeOK
    <3> QED
      BY <3>2, <3>3
  <2> QED
    BY <2>1, <2>2, <2>3
<1>6. SapInv'
  BY <1>0, <1>5 DEF SapInv, SapsOwn, StraysExplained, histVars
<1> QED
  BY <1>2, <1>4, <1>6

\* hydraclose(): the board is stopped and marked so when the last stream is gone.
LEMMA CloseStep ==
  ASSUME BoardInv, CloseSteps, quiet' = quiet
  PROVE  (PhaseInv /\ ChipInv /\ QuietInv /\ SapInv)'
<1> USE DEF BoardInv
<1>0. UNCHANGED <<storing, prx, imr, ring, fresh, hydra, dev, histVars>>
  BY DEF CloseSteps, CloseNotLast, CloseStop, CloseReset, chipVars
<1>1. Open' = Open
  BY <1>0, OpenKept
<1>2. PhaseInv' /\ ChipInv' /\ QuietInv'
  BY <1>0, <1>1 DEF CloseSteps, CloseNotLast, CloseStop, CloseReset, Step, Asserted,
     PhaseInv, ChipInv, QuietInv, chipVars, InitPcs
<1>3. SapInv'
  BY <1>0 DEF CloseSteps, CloseNotLast, CloseStop, CloseReset, Step, SapInv, SapsOwn,
     StraysExplained, histVars
<1> QED
  BY <1>2, <1>3

\* What users begin: an open, a close or a primitive, when no other is in progress.
LEMMA CallStep ==
  ASSUME BoardInv, Calls, quiet' = quiet
  PROVE  (PhaseInv /\ ChipInv /\ QuietInv /\ SapInv)'
<1> USE DEF BoardInv
<1>1. ASSUME OpenCall PROVE (PhaseInv /\ ChipInv /\ QuietInv /\ SapInv)'
  <2>1. Open' = Open
    BY <1>1, OpenKept DEF OpenCall
  <2> QED
    BY <1>1, <2>1 DEF OpenCall, Step, PhaseInv, ChipInv, QuietInv, SapInv, SapsOwn, TypeOK,
       StraysExplained, chipVars, InitPcs
<1>2. ASSUME NEW d \in Devs, CloseCall(d)
      PROVE  (PhaseInv /\ ChipInv /\ QuietInv /\ SapInv)'
  <2>1. pc = "idle" /\ pc' = "close_scan" /\ d \in Open
        /\ hydra' = [hydra EXCEPT ![d].q = FALSE] /\ bound' = [bound EXCEPT ![d] = {}]
        /\ UNCHANGED <<chipVars, state, opens, stray>>
    BY <1>2 DEF CloseCall, Step, Open
  <2>2. state = "RUNNING"
    BY <2>1 DEF PhaseInv, TypeOK
  <2>3. PhaseInv' /\ ChipInv' /\ QuietInv'
    BY <1>2, <2>1, <2>2 DEF PhaseInv, ChipInv, QuietInv, chipVars, InitPcs
  <2>4. \A e \in Devs : e # d => hydra'[e] = hydra[e] /\ bound'[e] = bound[e]
    BY <2>1 DEF TypeOK
  <2>5. ~hydra'[d].q
    BY <2>1 DEF TypeOK
  <2>6. SapInv'
    BY <2>1, <2>4, <2>5 DEF SapInv, SapsOwn, StraysExplained
  <2> QED
    BY <2>3, <2>6
<1>3. ASSUME NEW d \in Devs, NEW s \in Saps, DlBind(d, s)
      PROVE  (PhaseInv /\ ChipInv /\ QuietInv /\ SapInv)'
  <2>1. pc = "idle" /\ pc' = pc /\ dev' = dev
        /\ hydra' = [hydra EXCEPT ![d].sap = s, ![d].state = "IDLE"]
        /\ bound' = [bound EXCEPT ![d] = @ \cup {s}]
        /\ UNCHANGED <<chipVars, state, opens, stray>>
    BY <1>3 DEF DlBind, Dlpi
  <2>2. \A e \in Devs : hydra'[e].q = hydra[e].q
    BY <2>1 DEF TypeOK
  <2>3. Open' = Open
    BY <2>2 DEF Open
  <2>4. PhaseInv' /\ ChipInv' /\ QuietInv'
    BY <1>3, <2>1, <2>3 DEF PhaseInv, ChipInv, QuietInv, chipVars
  <2>5. \A e \in Devs : e # d => hydra'[e] = hydra[e] /\ bound'[e] = bound[e]
    BY <2>1 DEF TypeOK
  <2>6. hydra'[d].sap = s /\ s \in bound'[d]
    BY <2>1 DEF TypeOK
  <2>7. SapInv'
    BY <2>1, <2>2, <2>5, <2>6 DEF SapInv, SapsOwn, StraysExplained
  <2> QED
    BY <2>4, <2>7
<1>4. ASSUME NEW d \in Devs, NEW ok \in BOOLEAN,
             DlAttach(d, ok) \/ DlUnbind(d, ok) \/ DlDetach(d, ok)
      PROVE  (PhaseInv /\ ChipInv /\ QuietInv /\ SapInv)'
  <2>1. pc = "idle" /\ UNCHANGED <<chipVars, state, pc, dev, histVars>>
    BY <1>4 DEF DlAttach, DlUnbind, DlDetach, Dlpi
  <2>2. \A e \in Devs : /\ hydra'[e].q = hydra[e].q
                        /\ hydra'[e].sap \in {hydra[e].sap, NoSap}
                        /\ hydra'[e].state # "IDLE" \/ hydra'[e] = hydra[e]
    BY <1>4 DEF DlAttach, DlUnbind, DlDetach, TypeOK
  <2>3. Open' = Open
    BY <2>2 DEF Open
  <2>4. PhaseInv' /\ ChipInv' /\ QuietInv'
    BY <1>4, <2>1, <2>3 DEF PhaseInv, ChipInv, QuietInv, chipVars
  <2>5. SapInv'
    BY <2>1, <2>2 DEF SapInv, SapsOwn, StraysExplained, histVars
  <2> QED
    BY <2>4, <2>5
<1> QED
  BY <1>1, <1>2, <1>3, <1>4 DEF Calls

\* Every step keeps the invariant.
LEMMA BoardStep == BoardInv /\ [Next]_<<vars, quiet>> => BoardInv'
<1> SUFFICES ASSUME BoardInv, [Next]_<<vars, quiet>> PROVE BoardInv'
  OBVIOUS
<1>1. TypeOK'
  BY TypeStep DEF BoardInv
<1>2. ASSUME Done \/ UNCHANGED vars, quiet' = quiet
      PROVE  (PhaseInv /\ ChipInv /\ QuietInv /\ SapInv)'
  <2>1. UNCHANGED <<chipVars, driveVars, histVars>>
    BY <1>2 DEF Done, vars
  <2>2. Open' = Open
    BY <2>1, OpenKept DEF driveVars, BoardInv
  <2> QED
    BY <1>2, <2>1, <2>2 DEF BoardInv, PhaseInv, ChipInv, QuietInv, SapInv, SapsOwn,
       StraysExplained, chipVars, driveVars, histVars
<1>3. (PhaseInv /\ ChipInv /\ QuietInv /\ SapInv)'
  BY <1>2, ChipStep, IntrStep, InitializeStep, PickStep, CloseStep, CallStep
     DEF Next, OpenSteps
<1> QED
  BY <1>1, <1>3 DEF BoardInv

LEMMA BoardAlways == Spec => []BoardInv
BY BoardInit, BoardStep, PTL DEF Spec

-----------------------------------------------------------------------------
(* The theorems.                                                           *)

\* The streams, registers and records of deliveries of a board stay in their
\* ranges through every open, close, primitive and interrupt.
THEOREM TypeCorrect == Spec => []TypeOK
<1>1. BoardInv => TypeOK
  BY DEF BoardInv
<1> QED
  BY <1>1, BoardAlways, PTL

\* hydra_initialize() is never reached with a stream open and hydraclose() never
\* stops the chip under one, whatever streams are opened and closed.
THEOREM BoardKept == Spec => []OpenStreamsHaveBoard
<1>1. BoardInv => OpenStreamsHaveBoard
  BY DEF BoardInv, TypeOK, PhaseInv, ChipInv, OpenStreamsHaveBoard
<1> QED
  BY <1>1, BoardAlways, PTL

\* hydraintr() finds a board marked running only with the ring registers and
\* next_pkt of one setup_ne2000(), at whichever step of an open it runs.
THEOREM WholeBoardSeen == Spec => []HandlerSeesWholeBoard
<1>1. BoardInv => HandlerSeesWholeBoard
  BY DEF BoardInv, ChipInv, HandlerSeesWholeBoard
<1> QED
  BY <1>1, BoardAlways, PTL

\* An interrupt that hydraintr() leaves asserted came between the last two stores
\* of setup_ne2000() or after the last hydraclose(): there is no third window.
THEOREM WindowsNamed == Spec => []UnservedOnlyInWindows
<1>1. BoardInv => UnservedOnlyInWindows
  BY DEF BoardInv, TypeOK, Pcs, InitPcs, PhaseInv, ChipInv, Asserted, UnservedOnlyInWindows
<1> QED
  BY <1>1, BoardAlways, PTL

\* When nothing interrupts between the two steps of hydraclose(), a board that
\* nobody has open is stopped.
THEOREM StoppedWhenClosed == Spec => []ClosedIsStopped
<1>1. BoardInv => ClosedIsStopped
  BY DEF BoardInv, QuietInv, ClosedIsStopped
<1> QED
  BY <1>1, BoardAlways, PTL

\* toss_packet_up_stream() gives a stream a frame of a sap it did not bind only
\* between the two stores of hydraopen(), or when the frame is of type 0 and the
\* stream not bound, for any streams, saps and frames.
THEOREM StraysNamed == Spec => []StraysExplained
<1>1. BoardInv => StraysExplained
  BY DEF BoardInv, SapInv, SapsOwn
<1> QED
  BY <1>1, BoardAlways, PTL
=============================================================================
