------------------------------ MODULE HydraIoctl ------------------------------
(***************************************************************************)
(* The ioctls of hydra.c.  hydraioctl() answers a message of the stream    *)
(* head at once: with an end of the ioctl, or, if it is transparent, with  *)
(* a demand to copy its argument in or out, whose outcome comes back in an *)
(* M_IOCDATA.  What it has to do then is told by cp_private alone.         *)
(* hydrawput() runs at splhydra(), so each message is one step.            *)
(***************************************************************************)
EXTENDS Integers, FiniteSets

CONSTANTS
  Streams,    \* open streams of one board
  Calls,      \* what they ask: [cmd, way, test]; way is "str", "transparent" or "null"
  PageLen, StopPage, DataLen,   \* lengths of a page, of the memory, of the data of a test
  MaxCalls,   \* bound: ioctls of each stream
  MaxBinds,   \* bound: changes of a stream's sap
  MaxFaults   \* bound: failures of allocb()

VARIABLE hyi

vars == <<hyi>>

CR == 0
TPSR == 4
TBCNT0 == 5
FIFO == 6      \* TBCNT1 when written
LastReg == 15

Init == hyi =
  [at |-> [u \in Streams |-> "idle"],       \* the message for the stream head of u
   call |-> [u \in Streams |-> "none"],
   cq_private |-> [u \in Streams |-> FALSE],  \* it is not null
   data |-> [u \in Streams |-> "none"],     \* b_cont
   sap |-> [u \in Streams |-> "none"],
   started |-> TRUE,                        \* of the NIC
   faults |-> 0, binds |-> 0,
   \* history
   calls |-> [u \in Streams |-> 0], ends |-> [u \in Streams |-> 0],
   ran |-> [u \in Streams |-> 0],           \* runs of the last test
   trap |-> {},                             \* why an access may have trapped
   outside |-> FALSE]                       \* one that left the memory

-----------------------------------------------------------------------------
(* The test of b_cont.                                                     *)

\* The NIC: an access to the FIFO's slot may trap, and so may one to the registers of
\* a transmission while it is stopped, or to what lies behind the registers.
Inb(s, reg) ==
  [s EXCEPT !.trap = @ \cup {c \in {"fifo", "beyond"} :
                              (c = "fifo" /\ reg = FIFO) \/ (c = "beyond" /\ reg > LastReg)}]

Outb(s, reg, val) ==
  [Inb(s, reg) EXCEPT
     !.trap = @ \cup {c \in {"stopped"} : reg \in {TPSR, TBCNT0} /\ ~s.started},
     !.started = IF reg = CR THEN val = "STA" ELSE @]

\* hydra_test_write_reg()
WriteReg(s, reg, val) ==
  CASE reg > LastReg          -> s
    [] reg = FIFO             -> s
    [] reg \in {TPSR, TBCNT0} -> Outb(Outb(s, CR, "STA"), reg, val)
    [] OTHER                  -> Outb(s, reg, val)

\* The test of hydraioctl(), and that of hydra_ram_read_offset() or
\* hydra_ram_write_offset(), which move whole longwords.
Ram(s, t) ==
  LET offset == t.page * PageLen
      end    == offset + 4 * ((t.len + 3) \div 4)
  IN  IF /\ t.len \in 0 .. DataLen /\ offset + t.len < StopPage * PageLen
         /\ offset >= 0 /\ end <= StopPage * PageLen
      THEN [s EXCEPT !.outside = @ \/ offset < 0 \/ end > StopPage * PageLen]
      ELSE s

\* A register to be read is only compared with the FIFO, one to be written with
\* LastReg besides.
RunTest(s, u) ==
  LET t == s.call[u].test
      r == [s EXCEPT !.ran[u] = @ + 1]
  IN  CASE t.op = "read reg"  -> IF t.reg = FIFO THEN [r EXCEPT !.data[u] = 0]
                                  ELSE [Inb(r, t.reg) EXCEPT !.data[u] = "reg"]
        [] t.op = "write reg" -> WriteReg(r, t.reg, t.val)
        [] t.op \in {"read ram", "write ram"} -> Ram(r, t)
        [] t.op = "get state" -> [r EXCEPT !.data[u] = 0]
        [] OTHER              -> r

-----------------------------------------------------------------------------
(* hydraioctl().                                                           *)

Answer(s, u, msg) == [s EXCEPT !.at[u] = msg]

\* A new b_cont, if allocb() finds one, for the caller or for a copy to him.
Give(s, u, okay, x) ==
  IF ~okay THEN Answer([s EXCEPT !.faults = @ + 1], u, "nak")
  ELSE Answer([s EXCEPT !.data[u] = x, !.cq_private[u] = FALSE], u,
              IF s.call[u].way = "str" THEN "ack" ELSE "copyout")

NumberOfBoards(s, u, okay) == Give(s, u, okay, "number")

GetConfig(s, u, okay) == Give(s, u, okay, "config")

\* The streams are counted when the message comes.
GetStatus(s, u, okay) ==
  LET Count(saps) == Cardinality({v \in Streams : s.sap[v] \in saps})
  IN  Give(s, u, okay, [bound |-> Count({"arp", "ip", "other"}),
                        arp |-> Count({"arp"}), ip |-> Count({"ip"})])

\* HYDRA_IOCTL_TEST: at once, or once its argument has been copied in.
TestCopyin(s, u, okay) ==
  IF ~okay THEN Answer([s EXCEPT !.faults = @ + 1], u, "nak")
  ELSE Answer([s EXCEPT !.cq_private[u] = s.call[u].way # "null"], u, "copyin")

Test(s, u, okay) ==
  IF s.call[u].way = "str" THEN Answer(RunTest(s, u), u, "ack") ELSE TestCopyin(s, u, okay)

\* Broken variant: cp_private is left as it is.
CopiedAgain(s, u) ==
  Answer(IF s.cq_private[u] THEN RunTest(s, u) ELSE s, u,
         IF s.cq_private[u] THEN "copyout" ELSE "ack")

\* M_IOCDATA after a copy that went well.
Copied(s, u) ==
  IF s.cq_private[u]
  THEN Answer([RunTest(s, u) EXCEPT !.cq_private[u] = FALSE], u, "copyout")
  ELSE Answer(s, u, "ack")

Other(s, u) == Answer(s, u, "nak")

\* The message is gone with its b_cont.
Freed(s, u) ==
  [s EXCEPT !.at[u] = "idle", !.call[u] = "none", !.data[u] = "none", !.ends[u] = @ + 1]

-----------------------------------------------------------------------------
\* M_IOCTL.
Ioctl(u) ==
  /\ hyi.at[u] = "idle" /\ hyi.calls[u] < MaxCalls
  /\ \E c \in Calls, okay \in BOOLEAN :
       /\ okay \/ hyi.faults < MaxFaults
       /\ LET s == [hyi EXCEPT !.call[u] = c, !.calls[u] = @ + 1, !.ran[u] = 0,
                               !.data[u] = "none", !.cq_private[u] = FALSE]
          IN  hyi' = CASE c.cmd = "flags"  -> Answer(s, u, "ack")
                       [] c.cmd = "number" -> NumberOfBoards(s, u, okay)
                       [] c.cmd = "config" -> GetConfig(s, u, okay)
                       [] c.cmd = "status" -> GetStatus(s, u, okay)
                       [] c.cmd = "test"   -> Test(s, u, okay)
                       [] OTHER            -> Other(s, u)

\* M_IOCDATA: the stream head has copied, or could not (cp_rval).
IocData(u) ==
  /\ hyi.at[u] \in {"copyin", "copyout"}
  /\ \E okay \in BOOLEAN :
       hyi' = IF okay THEN Copied(hyi, u) ELSE Freed(hyi, u)

\* The stream head gets the end of the ioctl.
IoctlEnds(u) ==
  /\ hyi.at[u] \in {"ack", "nak"}
  /\ hyi' = Freed(hyi, u)

\* DL_BIND_REQ of a stream.
Bind(u) ==
  /\ hyi.binds < MaxBinds
  /\ \E x \in {"arp", "ip", "other"} \ {hyi.sap[u]} :
       hyi' = [hyi EXCEPT !.sap[u] = x, !.binds = @ + 1]

Next == \E u \in Streams : Ioctl(u) \/ IocData(u) \/ IoctlEnds(u) \/ Bind(u)

Spec == Init /\ [][Next]_vars

-----------------------------------------------------------------------------
(* Properties.                                                             *)

TypeOK ==
  /\ hyi.at \in [Streams -> {"idle", "copyin", "copyout", "ack", "nak"}]
  /\ hyi.cq_private \in [Streams -> BOOLEAN]
  /\ hyi.faults \in 0 .. MaxFaults

\* The dialogue of an ioctl comes to one end: a copy out is its last demand, and
\* no test waits to be run behind it.
DialogueEnds ==
  \A u \in Streams :
    /\ hyi.calls[u] = hyi.ends[u] + (IF hyi.at[u] = "idle" THEN 0 ELSE 1)
    /\ hyi.at[u] \in {"copyout", "ack"} => ~hyi.cq_private[u]

\* A test that is acknowledged has been run once, one that is refused never, and
\* none twice.  Only one whose argument is at address 0 may be acknowledged
\* without: its cp_private cannot be told from that of a copy out.
TestsRunOnce ==
  \A u \in Streams :
    /\ hyi.ran[u] <= 1
    /\ hyi.at[u] \in {"copyin", "nak"} => hyi.ran[u] = 0
    /\ hyi.at[u] \in {"copyout", "ack"} /\ hyi.call[u].cmd = "test" /\ hyi.call[u].way # "null"
         => hyi.ran[u] = 1

\* No test touches the FIFO, or the registers of a transmission while the NIC is
\* stopped, or leaves the board's memory.  What one may do is to read behind the
\* registers: the index of a register to be read is not checked as that of one to be
\* written is.
TestsHarmless == hyi.trap \subseteq {"beyond"} /\ ~hyi.outside
============================================================================
