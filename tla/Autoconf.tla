------------------------------ MODULE Autoconf ------------------------------
(***************************************************************************)
(* How the kernel finds memory and boards.  config() of support.c takes    *)
(* the table of boards from whatever booted it and sizes the memory;       *)
(* autocon() searches the table for hydra.c, aen.c and sd.c, each of which *)
(* makes its own numbering of what it finds, once.                         *)
(*                                                                         *)
(* Addresses are counted in units of 32 KB, so that those of boards are    *)
(* even and an odd one is a corrupted entry.  An aligned entry is right.   *)
(***************************************************************************)
EXTENDS Naturals, Sequences, SequencesExt, FiniteSetsExt

CONSTANTS
  Machines,     \* what the kernel may find, see TypeOK
  MaxBoards,    \* HYDRA_MAXBOARDS, AEN_MAXBOARDS
  SdCards       \* SDCARDS

VARIABLE ac

vars == <<ac>>

\* An unused entry of queue[].
NoCard == [pn |-> "none", c |-> 0, addr |-> 0]

Init == \E m \in Machines : ac =
  [m |-> m, done |-> {},
   memory |-> <<>>,             \* bootinfo.memory
   chipmem |-> 0, main |-> [at |-> 0, size |-> 0],   \* MAINSTORE, VSIZOFMEM
   hydra |-> <<>>, aen |-> <<>>, sd |-> [i \in 1 .. SdCards |-> NoCard]]

-----------------------------------------------------------------------------
(* config().                                                               *)

Region(e) == [l |-> e.addr, u |-> e.addr + e.size]

\* From the entries of an A2620, as they are from EXEC1; for EXEC0 nmem starts again
\* with every entry.
Memory(m) ==
  LET rams == SelectSeq(m.table, LAMBDA e : e.pn = "ram")
      all  == [i \in DOMAIN rams |-> Region(rams[i])]
  IN  CASE m.boot = "A2620" -> all
        [] m.boot = "EXEC0" -> IF all = <<>> THEN all ELSE <<Last(all)>>
        [] m.boot = "EXEC1" -> m.memory

\* Each quarter, half, 1 and 2 MB is marked at its end, and counts if the mark is
\* there and has not been found before at a lower address.
ChipMem(m) ==
  LET Cell(p) == IF p <= m.chip THEN p ELSE IF m.mirror THEN m.chip ELSE 0
      Look(s, p) == IF Cell(p) = 0 \/ Cell(p) \in s.seen THEN s
                    ELSE [seen |-> s.seen \cup {Cell(p)}, size |-> p]
  IN  FoldLeft(Look, [seen |-> {}, size |-> 0], <<1, 2, 4, 8>>).size

\* One region in the search for those that join up around the kernel's end.
JoinRegion(s, r) ==
  LET t == IF r.l < s.at /\ r.u >= s.at THEN [s EXCEPT !.at = r.l] ELSE s
  IN  IF r.l <= t.at + t.size /\ r.u > t.at + t.size
      THEN [t EXCEPT !.size = r.u - t.at] ELSE t

RECURSIVE Join(_, _)
Join(s, regions) ==
  LET t == FoldLeft(JoinRegion, s, regions) IN IF t = s THEN s ELSE Join(t, regions)

High(m) == m.end > 3584

MainMemory(m, regions) ==
  LET s == Join([at |-> m.end, size |-> 0], regions)
      at == m.end - (m.end % 128)
  IN  IF s.size = 0 /\ High(m) THEN [at |-> at, size |-> 4096 - at] ELSE s

Config ==
  /\ "config" \notin ac.done
  /\ LET regions == Memory(ac.m)
     IN  ac' = [ac EXCEPT !.done = @ \cup {"config"}, !.memory = regions,
                          !.chipmem = ChipMem(ac.m), !.main = MainMemory(ac.m, regions)]

-----------------------------------------------------------------------------
\* What autocon() returns for the indices from 0 on, up to the first that fails.
Found(m, pn) ==
  LET all == SelectSeq(m.table, LAMBDA e : e.pn = pn)
      addr == [i \in DOMAIN all |-> all[i].addr]
  IN  IF pn = "a3000" /\ High(m) THEN <<442>> \o (IF addr = <<>> THEN addr ELSE Tail(addr))
      ELSE addr

Up(s, n) == SubSeq(s, 1, IF Len(s) < n THEN Len(s) ELSE n)

(* hydraautoconfig().                                                      *)

Acceptable(a) == a % 2 = 0 /\ (a \in 464 .. 479 \/ a \in 64 .. 319)

Slots == [i \in 1 .. 7 |-> 464 + 2 * i]
Space == [i \in 1 .. 128 |-> 62 + 2 * i]

\* The places where six bytes at 0xFFC0 look like an address.
Probe(m, places) == Up(SelectSeq(places, LAMBDA a : a \in m.looks), MaxBoards)

HydraBoards(m) ==
  LET listed == SelectSeq(Up(Found(m, "hydra"), MaxBoards), Acceptable)
  IN  IF listed # <<>> THEN listed
      ELSE IF Probe(m, Slots) # <<>> THEN Probe(m, Slots) ELSE Probe(m, Space)

HydraAutoconfig ==
  /\ "config" \in ac.done /\ "hydra" \notin ac.done
  /\ ac' = [ac EXCEPT !.done = @ \cup {"hydra"}, !.hydra = HydraBoards(ac.m)]

-----------------------------------------------------------------------------
(* aenautoconfig().                                                        *)

\* A2065 cards, then those of Ameristar.
AenBoards(m) ==
  LET Typed(pn) == [i \in DOMAIN Found(m, pn) |-> [addr |-> Found(m, pn)[i], type |-> pn]]
  IN  Up(Up(Typed("aen"), MaxBoards) \o Typed("amerstar"), MaxBoards)

SwapNext(s, x) ==
  IF s[x].addr > s[x + 1].addr THEN [s EXCEPT ![x] = s[x + 1], ![x + 1] = s[x]] ELSE s

\* A pass over the pairs of neighbours, as often as there are pairs.
Sort(s) ==
  LET pairs == [x \in 1 .. Len(s) - 1 |-> x]
  IN  FoldLeft(LAMBDA t, z : FoldLeft(SwapNext, t, pairs), s, pairs)

AenAutoconfig ==
  /\ "config" \in ac.done /\ "aen" \notin ac.done
  /\ ac' = [ac EXCEPT !.done = @ \cup {"aen"}, !.aen = Sort(AenBoards(ac.m))]

-----------------------------------------------------------------------------
(* init() and insert() of sd.c.                                            *)

\* Behind the last card whose address is not higher; a full table is left alone.
Insert(q, card) ==
  LET lower == {j \in 1 .. SdCards : q[j] # NoCard /\ q[j].addr <= card.addr}
  IN  IF q[SdCards] # NoCard THEN q
      ELSE Up(InsertAt(q, Max({0} \cup lower) + 1, card), SdCards)

Cards(m, pn) == [c \in DOMAIN Found(m, pn) |-> [pn |-> pn, c |-> c, addr |-> Found(m, pn)[c]]]

AllCards(m) == Cards(m, "a3000") \o Cards(m, "a2090") \o Cards(m, "a2091")

SdInit ==
  /\ "config" \in ac.done /\ "sd" \notin ac.done
  /\ ac' = [ac EXCEPT !.done = @ \cup {"sd"}, !.sd = FoldLeft(Insert, @, AllCards(ac.m))]

Next == Config \/ HydraAutoconfig \/ AenAutoconfig \/ SdInit

Spec == Init /\ [][Next]_vars

-----------------------------------------------------------------------------
(* Properties.                                                             *)

TypeOK ==
  /\ DOMAIN ac.m = {"boot", "table", "memory", "end", "chip", "mirror", "looks", "real"}
  /\ Len(ac.hydra) <= MaxBoards /\ Len(ac.aen) <= MaxBoards /\ Len(ac.sd) = SdCards

\* The kernel's memory is the whole of the regions that join up with the one it was
\* loaded into, whatever their order, and the chip memory is what there is of it,
\* also when it repeats itself.
MemorySized ==
  "config" \in ac.done =>
    LET Covered(x) == \E i \in DOMAIN ac.memory : x \in ac.memory[i].l .. ac.memory[i].u - 1
        Joined(x)  == \A y \in (IF x < ac.m.end THEN x .. ac.m.end ELSE ac.m.end .. x) : Covered(y)
    IN  /\ ac.chipmem = ac.m.chip
        /\ Covered(ac.m.end) =>
             /\ \A x \in ac.main.at .. ac.main.at + ac.main.size - 1 : Joined(x)
             /\ ~Joined(ac.main.at - 1) /\ ~Joined(ac.main.at + ac.main.size)

\* A Hydra board that is listed where it is, or whose PROM can be read where
\* hydraautoconfig() looks, does not leave it without one; none is used twice, and
\* what is used is a Hydra board unless no entry of the table could be.
HydraFound ==
  "hydra" \in ac.done =>
    LET used   == ToSet(ac.hydra)
        listed == {a \in ToSet(Up(Found(ac.m, "hydra"), MaxBoards)) : Acceptable(a)}
    IN  /\ (\E a \in ac.m.real : a \in listed \/ a \in (ToSet(Slots \o Space) \cap ac.m.looks))
             => used # {}
        /\ Cardinality(used) = Len(ac.hydra)
        /\ listed # {} => used \subseteq ac.m.real
        /\ \A a \in used : Acceptable(a)

\* The A2065's are numbered by address, each with its own type.
AenSorted ==
  "aen" \in ac.done =>
    /\ \A i \in 1 .. Len(ac.aen) - 1 : ac.aen[i].addr <= ac.aen[i + 1].addr
    /\ ToSet(ac.aen) = ToSet(AenBoards(ac.m)) /\ Len(ac.aen) = Len(AenBoards(ac.m))

\* The SCSI cards are numbered by address without a gap, each with the controller
\* and the index under which that finds it, and none is left out while there is room.
SdNumbered ==
  "sd" \in ac.done =>
    LET cards == {i \in 1 .. SdCards : ac.sd[i] # NoCard}
    IN  /\ \A i \in cards : \A j \in 1 .. i - 1 : j \in cards /\ ac.sd[j].addr <= ac.sd[i].addr
        /\ \A i \in cards : Found(ac.m, ac.sd[i].pn)[ac.sd[i].c] = ac.sd[i].addr
        /\ Cardinality({ac.sd[i] : i \in cards})
             = Min({SdCards, Len(AllCards(ac.m))})
=============================================================================
