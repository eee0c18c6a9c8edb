------------------------------- MODULE Audio -------------------------------
(***************************************************************************)
(* audio.c: clients write sound to streams, channels play it by DMA.  A    *)
(* channel has three buffers: one plays, one is in the DMA registers, one  *)
(* is being filled.                                                        *)
(*                                                                         *)
(* The hardware (external) interrupts when it takes the registers over;    *)
(* what is modelled of it is that a channel that is on goes on             *)
(* interrupting.  All of the driver runs at splaudio().                    *)
(* Sound is numbered units: <<client, number>>.                            *)
(***************************************************************************)
EXTENDS Naturals, Sequences, SequencesExt, FiniteSets, FiniteSetsExt

CONSTANTS
  NClients, NChannels,
  BufSize,      \* AUDIO_BUFFER_SIZE
  Lengths,      \* the lengths of messages
  MaxUnits      \* bound: units written by a client

Clients  == 1 .. NClients
Channels == 1 .. NChannels
Nobody   == 0
Silence  == <<Nobody, 0>>

VARIABLE au

vars == <<au>>

Init == au =
  [ch |-> [c \in Channels |-> [client |-> Nobody, size |-> 0, used |-> 0, pending |-> 0,
                               buf |-> [b \in 0 .. 2 |-> <<>>],  \* and nbytes
                               on |-> FALSE]],     \* DMA and interrupt enabled
   cl |-> [k \in Clients |-> [open |-> FALSE, attached |-> FALSE, port |-> 1,
                              mp |-> <<>>, wq |-> <<>>]],
   list |-> <<>>,                                  \* audio_clients
   volume |-> [k \in Clients |-> 0],
   loaded |-> [k \in Clients |-> <<>>],            \* history: units given to the DMA, till odd
   n |-> [k \in Clients |-> 0],
   odd |-> FALSE]     \* a message was cut, or found no channel, or a
                      \* client closed with output or a channel of its own

Port(a, k) == a.ch[a.cl[k].port]

UnitsOf(d, k) ==
  LET mine == SelectSeq(d, LAMBDA x : x[1] = k) IN [i \in 1 .. Len(mine) |-> mine[i][2]]

-----------------------------------------------------------------------------
(* fill_buffer(), loadup_dma(), handfeed(), release_channel_buffer().      *)

\* What fill_buffer() returns.
FillSize(a, k, len) == Min({len, BufSize - Len(Port(a, k).buf[Port(a, k).used])})

FillBuffer(a, k, data) ==
  LET p == a.cl[k].port
      m == FillSize(a, k, Len(data))
  IN  [a EXCEPT !.ch[p].buf[a.ch[p].used] = @ \o SubSeq(data, 1, m)]

LoadupDma(a, k) ==
  LET p == a.cl[k].port
      u == a.ch[p].used
  IN  IF a.ch[p].buf[u] = <<>> THEN a
      ELSE [a EXCEPT !.ch[p].used = (u + 1) % 3, !.ch[p].pending = @ + 1,
                     !.loaded = IF a.odd THEN @ ELSE
                                  [j \in Clients |-> @[j] \o UnitsOf(a.ch[p].buf[u], j)]]

Handfeed(a, k) == [LoadupDma(a, k) EXCEPT !.ch[a.cl[k].port].on = TRUE]

\* release_channel_buffer(): the oldest of the pending buffers is empty.
Release(a, c) ==
  LET h == a.ch[c]
      old == IF h.pending > 1 THEN (h.used + 1) % 3 ELSE (h.used + 2) % 3
  IN  IF h.pending = 0 THEN a
      ELSE [a EXCEPT !.ch[c].pending = @ - 1, !.ch[c].buf[old] = <<>>]

-----------------------------------------------------------------------------
(* grab_channel() and postaudio().                                         *)

Free(a) == {c \in Channels : a.ch[c].client = Nobody}

\* allocate_channel_buffers(): the buffers stay with the channel.
GrabChannel(a, k) ==
  LET p == IF a.cl[k].attached \/ Port(a, k).client = Nobody THEN a.cl[k].port
           ELSE Min(Free(a))
  IN  [a EXCEPT !.cl[k].port = p, !.cl[k].attached = TRUE,
                !.ch[p].size = BufSize, !.ch[p].client = k]

Grabbable(a, k) == a.cl[k].attached \/ Free(a) # {}

\* postaudio(): the client holds in mp what is left of the message.
PostAudio(a, k, m) ==
  IF ~Grabbable(a, k) THEN [a EXCEPT !.cl[k].mp = m, !.odd = TRUE]
  ELSE LET g == GrabChannel(a, k)
           n == FillSize(g, k, Len(m))
           rest == SubSeq(m, n + 1, Len(m))
           f == [FillBuffer(g, k, m) EXCEPT !.cl[k].mp = rest,
                                            !.odd = @ \/ rest # <<>>]
       IN  CASE Port(g, k).pending = 0 -> Handfeed(f, k)
             [] Port(g, k).pending = 1 -> LoadupDma(f, k)
             [] OTHER -> [g EXCEPT !.cl[k].mp = m]

-----------------------------------------------------------------------------
(* audiointr().                                                            *)

\* The messages of the queue go into the buffer, whole ones, until one does
\* not fit.  What did fit of that one is in the buffer and still in mp.
Refill(a, k) ==
  LET TakeMp(t) == LET m == t.cl[k].mp
                       n == FillSize(t, k, Len(m))
                   IN  [FillBuffer(t, k, m) EXCEPT
                          !.cl[k].mp = IF n = Len(m) THEN <<>> ELSE m,
                          !.odd = @ \/ (n \notin {0, Len(m)})]
      Step(t, m) == IF t.cl[k].mp # <<>> THEN t
                    ELSE TakeMp([t EXCEPT !.cl[k].mp = m, !.cl[k].wq = Tail(@)])
  IN  FoldLeft(Step, TakeMp(a), a.cl[k].wq)

\* No more sound: silence, and the channel is given up.
GiveUp(a, c, k) ==
  [LoadupDma(FillBuffer(a, k, <<Silence>>), k) EXCEPT !.ch[c].client = Nobody,
                                                !.cl[k].attached = FALSE]

\* One channel's interrupt.
Interrupted(a, c) ==
  LET k == a.ch[c].client
      r == Release(a, c)
      f == IF k = Nobody THEN r ELSE Refill(r, k)
  IN  IF k # Nobody
      THEN IF f.ch[c].buf[f.ch[c].used] # <<>> THEN LoadupDma(f, k) ELSE GiveUp(f, c, k)
      ELSE IF f.ch[c].pending = 0 THEN [f EXCEPT !.ch[c].on = FALSE] ELSE f

\* The search at its end for clients that wait for a channel.
Waiting(a) == {k \in Clients : a.cl[k].open /\ ~a.cl[k].attached /\ a.cl[k].mp # <<>>}

\* When one must go on waiting, its message is stored in the client before it
\* on the list.
SearchStep(a, k) ==
  LET t == PostAudio(a, k, a.cl[k].mp)
      i == CHOOSE n \in 1 .. Len(a.list) : a.list[n] = k
  IN  IF t.cl[k].mp = <<>> \/ i = 1 THEN t
      ELSE [t EXCEPT !.cl[a.list[i - 1]].mp = t.cl[k].mp, !.odd = TRUE]

Search(a) ==
  FoldLeft(LAMBDA t, k : IF k \in Waiting(t) THEN SearchStep(t, k) ELSE t, a, a.list)

\* audiointr() for a channel.
AudioIntr(c) == au.ch[c].on /\ au' = Search(Interrupted(au, c))

-----------------------------------------------------------------------------
(* The stream.                                                             *)

AudioOpen(k) ==
  /\ ~au.cl[k].open
  /\ au' = [au EXCEPT !.list = <<k>> \o @,
                      !.cl[k] = [open |-> TRUE, attached |-> FALSE, port |-> 1,
                                 mp |-> <<>>, wq |-> <<>>]]

\* audioclose() frees the client at once; a channel may still point to it.
AudioClose(k) ==
  /\ au.cl[k].open
  /\ au' = [au EXCEPT !.cl[k].open = FALSE,
                      !.odd = @ \/ au.cl[k].attached \/ au.cl[k].mp # <<>> \/ au.cl[k].wq # <<>>,
                      !.list = SelectSeq(@, LAMBDA j : j # k)]

AudioWput(k) ==
  /\ au.cl[k].open
  /\ \E n \in Lengths :
       /\ au.n[k] + n =< MaxUnits
       /\ au' = [au EXCEPT !.n[k] = @ + n,
                           !.cl[k].wq = Append(@, [i \in 1 .. n |-> <<k, au.n[k] + i>>])]

\* audiowsrv(): the message left over first, then the queue.
AudioWsrv(k) ==
  /\ au.cl[k].open /\ (au.cl[k].mp # <<>> \/ au.cl[k].wq # <<>>)
  /\ LET Step(a, m) == IF a.cl[k].mp # <<>> THEN a
                       ELSE PostAudio([a EXCEPT !.cl[k].wq = Tail(@)], k, m)
         first == IF au.cl[k].mp = <<>> THEN au ELSE PostAudio(au, k, au.cl[k].mp)
     IN  au' = FoldLeft(Step, first, au.cl[k].wq)

\* audioioctl(): the volume, or the period, of the next buffer.
AudioIoctl(k) == au.cl[k].open /\ \E v \in {0, 1} : au' = [au EXCEPT !.volume[k] = v]

Next ==
  \/ \E c \in Channels : AudioIntr(c)
  \/ \E k \in Clients : AudioOpen(k) \/ AudioClose(k) \/ AudioWput(k) \/ AudioWsrv(k)
                        \/ AudioIoctl(k)

Spec == Init /\ [][Next]_vars

-----------------------------------------------------------------------------
(* Properties.                                                             *)

TypeOK ==
  /\ \A c \in Channels : au.ch[c].used \in 0 .. 2 /\ au.ch[c].pending \in 0 .. 2
  /\ \A c \in Channels, b \in 0 .. 2 : Len(au.ch[c].buf[b]) =< BufSize
  /\ \A k \in Clients : au.cl[k].port \in Channels

\* Each client's sound is given to the DMA once and in order as the three
\* buffers take turns: loaded, in the buffer being filled, left over or queued.
\* (A message that fits only in part at an interrupt is played again, and a
\* client that waits for a channel may lose its message to another: both are
\* left out.)
LoadedInOrder ==
  ~au.odd => \A k \in Clients :
    au.loaded[k] \o UnitsOf(Port(au, k).buf[Port(au, k).used], k)
      \o UnitsOf(au.cl[k].mp, k) \o UnitsOf(FlattenSeq(au.cl[k].wq), k)
        = [i \in 1 .. au.n[k] |-> i]

\* Sound left over in mp is not forgotten: some channel is on, whose interrupt
\* will look for it.
LeftOverIsFetched ==
  (\E k \in Clients : au.cl[k].open /\ au.cl[k].mp # <<>>) => \E c \in Channels : au.ch[c].on
============================================================================
