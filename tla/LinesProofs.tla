---------------------------- MODULE LinesProofs ----------------------------
(***************************************************************************)
(* What the drivers of Lines owe their users, for any number of users,     *)
(* buffers, frames and calls: each has an inductive invariant of its own,  *)
(* and LinesInv is that of the part a behaviour is about.                  *)
(***************************************************************************)
EXTENDS Lines, Integers, TLAPS, WellFoundedInduction

-----------------------------------------------------------------------------
(* Sequences and rings.                                                    *)

\* What is left of a sequence without its first element.
Shorter(t, s) ==
  /\ t \in Seq(Nat) /\ 1 \in DOMAIN s /\ Head(s) = s[1]
  /\ \A i \in DOMAIN t : i \in Nat /\ i + 1 \in DOMAIN s /\ 1 < i + 1 /\ t[i] = s[i + 1]
  /\ \A i \in DOMAIN s : i # 1 => \E j \in DOMAIN t : s[i] = t[j]

LEMMA TailOf ==
  ASSUME NEW s, s \in Seq(Nat), s # <<>>, NEW t, t = Tail(s)
  PROVE  Shorter(t, s)
<1>1. t \in Seq(Nat) /\ Len(s) \in Nat \ {0} /\ Len(t) = Len(s) - 1 /\ Head(s) = s[1]
  OBVIOUS
<1>2. DOMAIN s = 1 .. Len(s) /\ DOMAIN t = 1 .. Len(s) - 1
  BY <1>1
<1>3. \A i \in 1 .. Len(s) - 1 : t[i] = s[i + 1]
  BY <1>1
<1>4. ASSUME NEW i \in DOMAIN s, i # 1
      PROVE  \E j \in DOMAIN t : s[i] = t[j]
  <2>1. i - 1 \in 1 .. Len(s) - 1 /\ (i - 1) + 1 = i
    BY <1>1, <1>2, <1>4
  <2>2. t[i - 1] = s[i]
    BY <1>3, <2>1
  <2> QED BY <1>2, <2>1, <2>2
<1>5. ASSUME NEW i \in DOMAIN t
      PROVE  i \in Nat /\ i + 1 \in DOMAIN s /\ 1 < i + 1 /\ t[i] = s[i + 1]
  BY <1>1, <1>2, <1>3
<1>6. 1 \in DOMAIN s
  BY <1>1, <1>2
<1> QED BY <1>1, <1>4, <1>5, <1>6 DEF Shorter

\* An element more at the end.
Longer(t, s, x) ==
  /\ t \in Seq(Nat)
  /\ \A i \in DOMAIN s : i \in DOMAIN t /\ t[i] = s[i]
  /\ \E n \in DOMAIN t : /\ t[n] = x
                         /\ \A i \in DOMAIN t : i = n \/ (i \in DOMAIN s /\ i < n /\ t[i] = s[i])
                         /\ \A i \in DOMAIN t : i \in Nat /\ ~(n < i)

LEMMA AppendOf ==
  ASSUME NEW s, s \in Seq(Nat), NEW x \in Nat, NEW t, t = Append(s, x)
  PROVE  Longer(t, s, x)
<1>1. t \in Seq(Nat) /\ Len(s) \in Nat /\ Len(t) = Len(s) + 1 /\ t[Len(s) + 1] = x
  OBVIOUS
<1>2. DOMAIN s = 1 .. Len(s) /\ DOMAIN t = 1 .. Len(s) + 1
  BY <1>1
<1>3. \A i \in 1 .. Len(s) : t[i] = s[i]
  BY <1>1
<1>4. \A i \in DOMAIN t : i = Len(s) + 1 \/ (i \in DOMAIN s /\ i < Len(s) + 1 /\ t[i] = s[i])
  BY <1>1, <1>2, <1>3
<1>5. \A i \in DOMAIN t : i \in Nat /\ ~(Len(s) + 1 < i)
  BY <1>1, <1>2
<1>6. Len(s) + 1 \in DOMAIN t
  BY <1>1, <1>2
<1> QED BY <1>1, <1>2, <1>3, <1>4, <1>5, <1>6 DEF Longer

\* The elements of a sequence that belong to M increase; those of s come before those of t.
Among(s, M) == \A i, j \in DOMAIN s : i < j /\ s[i] \in M /\ s[j] \in M => s[i] < s[j]
Ahead(s, t, M) ==
  \A i \in DOMAIN s, j \in DOMAIN t : s[i] \in M /\ t[j] \in M => s[i] < t[j]
Has(s, e) == \E j \in DOMAIN s : s[j] = e

\* r is t behind s.
Both(r, s, t) ==
  /\ r \in Seq(Nat)
  /\ \A i \in DOMAIN r : \/ i \in DOMAIN s /\ r[i] = s[i]
                         \/ \E j \in DOMAIN t : i = Len(s) + j /\ r[i] = t[j]
  /\ \A i \in DOMAIN s : i \in DOMAIN r /\ r[i] = s[i]
  /\ \A j \in DOMAIN t : Len(s) + j \in DOMAIN r /\ r[Len(s) + j] = t[j]

LEMMA Joined ==
  ASSUME NEW s, s \in Seq(Nat), NEW t, t \in Seq(Nat), NEW r, r = s \o t
  PROVE  Both(r, s, t)
<1>1. /\ r \in Seq(Nat) /\ Len(s) \in Nat /\ Len(t) \in Nat /\ Len(r) = Len(s) + Len(t)
      /\ \A i \in 1 .. Len(s) : r[i] = s[i]
  OBVIOUS
<1>2. \A i \in Len(s) + 1 .. Len(s) + Len(t) : r[i] = t[i - Len(s)]
  OBVIOUS
<1>3. DOMAIN s = 1 .. Len(s) /\ DOMAIN t = 1 .. Len(t) /\ DOMAIN r = 1 .. Len(s) + Len(t)
  BY <1>1
<1>4. ASSUME NEW i \in DOMAIN r
      PROVE  \/ i \in DOMAIN s /\ r[i] = s[i]
             \/ \E j \in DOMAIN t : i = Len(s) + j /\ r[i] = t[j]
  <2>1. CASE i \in 1 .. Len(s)
    BY <1>1, <1>3, <2>1
  <2>2. CASE i \in Len(s) + 1 .. Len(s) + Len(t)
    <3>1. i - Len(s) \in 1 .. Len(t) /\ i = Len(s) + (i - Len(s))
      BY <1>1, <2>2
    <3> QED BY <1>2, <1>3, <2>2, <3>1
  <2> QED BY <1>1, <1>3, <2>1, <2>2
<1>5. ASSUME NEW j \in DOMAIN t
      PROVE  Len(s) + j \in DOMAIN r /\ r[Len(s) + j] = t[j]
  <2>1. Len(s) + j \in Len(s) + 1 .. Len(s) + Len(t) /\ (Len(s) + j) - Len(s) = j
    BY <1>1, <1>3
  <2>2. Len(s) + j \in 1 .. Len(s) + Len(t)
    BY <1>1, <2>1
  <2> QED BY <1>2, <1>3, <2>1, <2>2
<1>6. \A i \in DOMAIN s : i \in DOMAIN r /\ r[i] = s[i]
  BY <1>1, <1>3
<1> QED BY <1>1, <1>4, <1>5, <1>6 DEF Both

LEMMA JoinedAmong ==
  ASSUME NEW s, s \in Seq(Nat), NEW t, t \in Seq(Nat), NEW r, r = s \o t, NEW M,
         Among(s, M), Among(t, M), Ahead(s, t, M)
  PROVE  Among(r, M)
<1>0. Both(r, s, t)
  BY Joined
<1>1. \A i \in DOMAIN r : \/ i \in DOMAIN s /\ r[i] = s[i]
                          \/ \E j \in DOMAIN t : i = Len(s) + j /\ r[i] = t[j]
  BY <1>0 DEF Both
<1>2. Len(s) \in Nat /\ (\A i \in DOMAIN s : i \in Nat /\ i <= Len(s)) /\ \A j \in DOMAIN t : j \in Nat \ {0}
  OBVIOUS
<1>3. ASSUME NEW i \in DOMAIN r, NEW j \in DOMAIN r, i < j, r[i] \in M, r[j] \in M
      PROVE  r[i] < r[j]
  <2>1. CASE i \in DOMAIN s /\ r[i] = s[i]
    <3>1. CASE j \in DOMAIN s /\ r[j] = s[j]
      BY <1>3, <2>1, <3>1 DEF Among
    <3>2. ASSUME NEW k \in DOMAIN t, j = Len(s) + k, r[j] = t[k]
          PROVE  r[i] < r[j]
      BY <1>3, <2>1, <3>2 DEF Ahead
    <3> QED BY <1>1, <3>1, <3>2
  <2>2. ASSUME NEW k \in DOMAIN t, i = Len(s) + k, r[i] = t[k]
        PROVE  r[i] < r[j]
    <3>1. j \notin DOMAIN s
      BY <1>2, <1>3, <2>2
    <3>2. PICK l \in DOMAIN t : j = Len(s) + l /\ r[j] = t[l]
      BY <1>1, <3>1
    <3>3. k < l
      BY <1>2, <1>3, <2>2, <3>2
    <3> QED BY <1>3, <2>2, <3>2, <3>3 DEF Among
  <2> QED BY <1>1, <2>1, <2>2
<1> QED BY <1>3 DEF Among

LEMMA JoinedAhead ==
  ASSUME NEW s, s \in Seq(Nat), NEW t, t \in Seq(Nat), NEW r, r = s \o t, NEW M, NEW x,
         Ahead(s, x, M), Ahead(t, x, M)
  PROVE  Ahead(r, x, M)
<1>0. Both(r, s, t)
  BY Joined
<1> QED BY <1>0 DEF Ahead, Both

LEMMA JoinedHas ==
  ASSUME NEW s, s \in Seq(Nat), NEW t, t \in Seq(Nat), NEW r, r = s \o t, NEW e
  PROVE  Has(r, e) <=> Has(s, e) \/ Has(t, e)
<1>1. Both(r, s, t)
  BY Joined
<1>2. ASSUME NEW i \in DOMAIN r, r[i] = e
      PROVE  Has(s, e) \/ Has(t, e)
  <2>1. (i \in DOMAIN s /\ r[i] = s[i]) \/ \E j \in DOMAIN t : r[i] = t[j]
    BY <1>1 DEF Both
  <2> QED BY <1>2, <2>1 DEF Has
<1>3. ASSUME NEW i \in DOMAIN s, s[i] = e
      PROVE  Has(r, e)
  <2>1. i \in DOMAIN r /\ r[i] = s[i]
    BY <1>1 DEF Both
  <2> QED BY <1>3, <2>1 DEF Has
<1>4. ASSUME NEW j \in DOMAIN t, t[j] = e
      PROVE  Has(r, e)
  <2>1. Len(s) + j \in DOMAIN r /\ r[Len(s) + j] = t[j]
    BY <1>1 DEF Both
  <2> QED BY <1>4, <2>1 DEF Has
<1> QED BY <1>2, <1>3, <1>4 DEF Has

LEMMA Appended ==
  ASSUME NEW S, NEW s \in Seq(S), NEW x \in S, NEW t, t = Append(s, x)
  PROVE  /\ t \in Seq(S) /\ Len(t) = Len(s) + 1 /\ Len(s) \in Nat /\ t[Len(s) + 1] = x
         /\ \A i \in 1 .. Len(s) : t[i] = s[i]
  OBVIOUS

LEMMA SmallestOf ==
  ASSUME NEW n \in Nat, NEW S, S \subseteq 0 .. n, S # {}
  PROVE  \E x \in S : x = Rx!Min(S) /\ \A y \in S : x <= y
<1>1. PICK R : R = OpToRel(<, Nat)
  OBVIOUS
<1>2. IsWellFoundedOn(R, Nat)
  BY <1>1, NatLessThanWellFounded
<1>3. S \subseteq Nat
  OBVIOUS
<1>4. \E x \in S : \A y \in S : ~(<<y, x>> \in R)
  BY ONLY <1>2, <1>3, S # {}, WFMin
<1>5. \A x, y \in Nat : y < x => <<y, x>> \in R
  BY <1>1 DEF OpToRel
<1>6. \E x \in S : \A y \in S : x <= y
  <2>1. PICK x \in S : \A y \in S : ~(<<y, x>> \in R)
    BY <1>4
  <2>2. \A y \in S : ~(y < x)
    BY <1>3, <1>5, <2>1
  <2>3. \A y \in S : x <= y
    BY <1>3, <2>2
  <2> QED BY <2>3
<1> QED BY <1>6 DEF Rx!Min

\* One step along a ring of n, in the terms of the code.
LEMMA RingNext ==
  ASSUME NEW n \in Nat \ {0}, NEW a \in 0 .. n - 1
  PROVE  (a + 1) % n = IF a + 1 < n THEN a + 1 ELSE 0
<1>1. \A b \in 0 .. n - 1 : b % n = b
  OBVIOUS
<1>2. n % n = 0
  OBVIOUS
<1> QED BY <1>1, <1>2

LEMMA RingPlus ==
  ASSUME NEW n \in Nat \ {0}, NEW a \in 0 .. n - 1, NEW k \in 0 .. n - 1
  PROVE  (a + k) % n = IF a + k < n THEN a + k ELSE a + k - n
<1>1. CASE a + k < n
  BY <1>1
<1>2. CASE a + k >= n
  <2>1. PICK b \in 0 .. n - 1 : b = a + k - n
    BY <1>2
  <2>2. (b + n) % n = b
    OBVIOUS
  <2> QED BY <1>2, <2>1, <2>2
<1> QED BY <1>1, <1>2

\* The bytes in the ring from tail to head.
RingFill(h, t, N) == IF h >= t THEN h - t ELSE N + h - t

LEMMA RingFull ==
  ASSUME NEW n \in Nat \ {0}, NEW d \in 0 .. n - 1
  PROVE  (n + d) % n = d /\ d % n = d
  OBVIOUS

LEMMA RingGap ==
  ASSUME NEW n \in Nat \ {0}, NEW h \in 0 .. n - 1, NEW t \in 0 .. n - 1
  PROVE  /\ (n + h - t) % n = RingFill(h, t, n)
         /\ RingFill(h, t, n) \in 0 .. n - 1
         /\ RingFill(h, t, n) = 0 <=> h = t
<1>1. CASE h >= t
  <2>1. PICK d \in 0 .. n - 1 : d = h - t
    BY <1>1
  <2>2. (n + d) % n = d
    BY RingFull
  <2>3. n + h - t = n + d
    BY <2>1
  <2>4. (n + h - t) % n = d
    BY <2>2, <2>3
  <2> QED BY <1>1, <2>1, <2>4 DEF RingFill
<1>2. CASE ~(h >= t)
  <2>1. PICK d \in 0 .. n - 1 : d = n + h - t /\ d # 0
    BY <1>2
  <2>2. d % n = d
    BY RingFull
  <2>3. (n + h - t) % n = d
    BY <2>1, <2>2
  <2> QED BY <1>2, <2>1, <2>3 DEF RingFill
<1> QED BY <1>1, <1>2

\* The slot of the k-th character of a ring.
RingSlot(t, k, n) == IF t + k - 1 < n THEN t + k - 1 ELSE t + k - 1 - n

LEMMA RingSlots ==
  ASSUME NEW n \in Nat \ {0}, NEW t \in 0 .. n - 1, NEW k \in 1 .. n
  PROVE  RingSlot(t, k, n) \in 0 .. n - 1 /\ (t + k - 1) % n = RingSlot(t, k, n)
<1>1. PICK j \in 0 .. n - 1 : j = k - 1
  OBVIOUS
<1>2. (t + j) % n = IF t + j < n THEN t + j ELSE t + j - n
  BY RingPlus
<1>3. t + k - 1 = t + j
  BY <1>1
<1>4. (t + k - 1) % n = IF t + j < n THEN t + j ELSE t + j - n
  BY <1>2, <1>3
<1> QED BY <1>1, <1>3, <1>4 DEF RingSlot

LEMMA RingWalk ==
  ASSUME NEW n \in Nat \ {0}, NEW t \in 0 .. n - 1
  PROVE  /\ \A k \in 1 .. n + 1 : RingSlot(t, k, n) \in 0 .. n - 1
         /\ \A i, k \in 1 .. n : RingSlot(t, i, n) = RingSlot(t, k, n) => i = k
         /\ RingSlot(t, 1, n) = t /\ RingSlot(t, n + 1, n) = t
         /\ \A i \in 0 .. n - 1 : \E k \in 1 .. n : RingSlot(t, k, n) = i
<1>1. \A i \in 0 .. n - 1 : \E k \in 1 .. n : RingSlot(t, k, n) = i
  <2> SUFFICES ASSUME NEW i \in 0 .. n - 1 PROVE \E k \in 1 .. n : RingSlot(t, k, n) = i
    OBVIOUS
  <2>1. CASE i >= t
    <3>1. i - t + 1 \in 1 .. n /\ RingSlot(t, i - t + 1, n) = i
      BY <2>1 DEF RingSlot
    <3> QED BY <3>1
  <2>2. CASE i < t
    <3>1. i - t + n + 1 \in 1 .. n /\ RingSlot(t, i - t + n + 1, n) = i
      BY <2>2 DEF RingSlot
    <3> QED BY <3>1
  <2> QED BY <2>1, <2>2
<1> QED BY <1>1 DEF RingSlot

LEMMA RingMod ==
  ASSUME NEW n \in Nat \ {0}, NEW t \in 0 .. n - 1, NEW k \in 0 .. n
  PROVE  (t + k) % n = RingSlot(t, k + 1, n)
<1>1. CASE k = n
  <2>1. (n + t) % n = t
    BY RingFull
  <2>2. t + k = n + t /\ RingSlot(t, k + 1, n) = t
    BY <1>1 DEF RingSlot
  <2> QED BY <2>1, <2>2
<1>2. CASE k # n
  <2>1. k + 1 \in 1 .. n /\ t + (k + 1) - 1 = t + k
    BY <1>2
  <2>2. (t + (k + 1) - 1) % n = RingSlot(t, k + 1, n)
    BY <2>1, RingSlots
  <2> QED BY <2>1, <2>2
<1> QED BY <1>1, <1>2

LEMMA RingStep ==
  ASSUME NEW n \in Nat \ {0}, NEW t \in 0 .. n - 1, NEW u, u = (t + 1) % n, NEW k \in 1 .. n
  PROVE  /\ u \in 0 .. n - 1
         /\ RingSlot(u, k, n) = RingSlot(t, k + 1, n)
         /\ (RingSlot(t, k, n) + 1) % n = RingSlot(t, k + 1, n)
<1>1. u = IF t + 1 < n THEN t + 1 ELSE 0
  BY RingNext
<1>0. RingSlot(t, k, n) \in 0 .. n - 1
  BY DEF RingSlot
<1>2. PICK a \in 0 .. n - 1 : a = RingSlot(t, k, n)
  BY <1>0
<1>3. (a + 1) % n = IF a + 1 < n THEN a + 1 ELSE 0
  BY RingNext
<1>4. RingSlot(t, k + 1, n) = IF a + 1 < n THEN a + 1 ELSE 0
  BY <1>2 DEF RingSlot
<1> QED BY <1>1, <1>2, <1>3, <1>4 DEF RingSlot

LEMMA RingBehind ==
  ASSUME NEW n \in Nat \ {0}, NEW t \in 0 .. n - 1, NEW k \in 1 .. n
  PROVE  (n + RingSlot(t, k, n) - t) % n = k - 1
<1>0. RingSlot(t, k, n) \in 0 .. n - 1
  BY DEF RingSlot
<1>1. PICK h \in 0 .. n - 1 : h = RingSlot(t, k, n)
  BY <1>0
<1>2. (n + h - t) % n = RingFill(h, t, n)
  BY RingGap
<1>3. RingFill(h, t, n) = k - 1
  BY <1>1 DEF RingFill, RingSlot
<1> QED BY <1>1, <1>2, <1>3

\* A character more: its slot is the head, and the others keep theirs.
LEMMA RingPutAt ==
  ASSUME NEW n \in Nat \ {0}, NEW h \in 0 .. n - 1, NEW t \in 0 .. n - 1,
         RingFill(h, t, n) < n - 1, NEW g, g = (h + 1) % n, NEW c, c = RingFill(h, t, n)
  PROVE  /\ RingFill(g, t, n) = c + 1
         /\ RingSlot(t, c + 1, n) = h
         /\ \A k \in 1 .. c : RingSlot(t, k, n) # h
<1>1. g = IF h + 1 < n THEN h + 1 ELSE 0
  BY RingNext
<1> QED BY <1>1 DEF RingFill, RingSlot

\* The first one is taken: the k-th is where the next one was.
LEMMA RingGetAt ==
  ASSUME NEW n \in Nat \ {0}, NEW h \in 0 .. n - 1, NEW t \in 0 .. n - 1, t # h,
         NEW u \in 0 .. n - 1, u = (t + 1) % n
  PROVE  /\ RingFill(h, t, n) \in 1 .. n - 1
         /\ RingFill(h, u, n) = RingFill(h, t, n) - 1
         /\ RingSlot(t, 1, n) = t
         /\ \A k \in 1 .. RingFill(h, t, n) - 1 : RingSlot(u, k, n) = RingSlot(t, k + 1, n)
<1>1. u = IF t + 1 < n THEN t + 1 ELSE 0
  BY RingNext
<1> QED BY <1>1 DEF RingFill, RingSlot

-----------------------------------------------------------------------------
(* The A2065, its transmit side: the inductive invariant.                  *)

AenSlots == 0 .. TxCount - 1

AenTyped(h) ==
  /\ DOMAIN h = {"board_state", "chip", "csr", "tx", "txi", "at", "intr", "err", "q", "state",
                 "wq", "user", "ioc", "put", "sent", "gone", "ctl", "answers", "storm",
                 "unstarted", "wiped"}
  /\ h.board_state \in {"RESET", "IN_INIT_CODE", "RUNNING"}
  /\ h.chip \in {"stop", "init", "ready", "on"}
  /\ h.csr \subseteq {"IDON", "TINT"}
  /\ h.tx \in [AenSlots -> Nat] /\ h.txi \in AenSlots /\ h.at \in AenSlots
  /\ h.intr \in 0 .. AenUsers + 1
  /\ h.q \subseteq Aen!Users
  /\ h.wq \in [Aen!Users -> Seq(Nat)]
  /\ h.user \in [Aen!Users -> {"shut", "reset", "sleep", "woken", "open", "halt",
                               "csleep", "cwoken"}]
  /\ h.ioc \in [Aen!Users -> {"none", "copyin", "copyout", "set"}]
  /\ h.put \in Seq(Aen!Users) /\ h.sent \in Seq(Nat) /\ h.gone \subseteq DOMAIN h.put
  /\ h.answers \in [Aen!Users -> Nat]
  /\ h.err \in BOOLEAN /\ h.unstarted \in BOOLEAN /\ h.wiped \in BOOLEAN /\ h.storm \in BOOLEAN

AenWindow(h) == \E u \in Aen!Users : h.user[u] \in {"halt", "reset"}

AenBoardInv(h) ==
  /\ \A u, v \in Aen!Users : {h.user[u], h.user[v]} \subseteq {"halt", "reset"} => u = v
  /\ AenWindow(h) => h.board_state = "RESET"
  /\ h.board_state = "RESET" => h.q = {} /\ (AenWindow(h) \/ (h.chip = "stop" /\ h.csr = {}))
  /\ h.board_state = "IN_INIT_CODE" =>
       /\ h.chip \in {"init", "ready"} /\ "TINT" \notin h.csr
       /\ "IDON" \in h.csr => h.chip = "ready"
       /\ \E u \in Aen!Users : h.user[u] \in {"sleep", "csleep"}
  /\ h.board_state = "RUNNING" =>
       /\ h.chip \in {"ready", "on"} /\ "IDON" \notin h.csr
       /\ h.chip = "ready" => \E u \in Aen!Users : h.user[u] \in {"woken", "cwoken"}
  /\ h.chip = "init" => h.csr = {}
  /\ \A u \in h.q : h.user[u] \in {"open", "csleep", "cwoken"}
  /\ ~h.wiped => \A u \in Aen!Users : h.user[u] \in {"open", "csleep", "cwoken"} => u \in h.q

AenAnswers(h) ==
  \A u \in Aen!Users : h.ioc[u] \in {"copyin", "copyout", "set"} <=> h.answers[u] = 0

AenMoving(h) ==
  /\ \A u \in Aen!Users : h.user[u] \in {"shut", "reset", "sleep", "woken", "halt"} => h.wq[u] = <<>>
  /\ ~h.unstarted /\ (\E u \in h.q : h.wq[u] # <<>>) =>
       \/ "TINT" \in h.csr
       \/ \E i \in AenSlots : h.tx[i] # 0
       \/ h.intr # 0 /\ \E v \in h.q : v >= h.intr /\ h.wq[v] # <<>>

\* The descriptor k places behind the chip's.
AenSlot(at, k) == IF at + k < TxCount THEN at + k ELSE at + k - TxCount
AenNth(h, k) == h.tx[AenSlot(h.at, k)]

\* The frame f is given to the LANCE.
AenPut(g, h, f) ==
  h.tx = [g.tx EXCEPT ![g.txi] = f] /\ h.txi = (g.txi + 1) % TxCount /\ h.at = g.at

AenRing(h) ==
  \E n \in 0 .. TxCount :
    /\ h.txi = AenSlot(h.at, n)
    /\ \A k \in AenSlots : AenNth(h, k) # 0 <=> k < n

\* It is the n-th, and the last one.
AenPlaced(g, h, f, n) ==
  /\ AenNth(h, n) = f /\ \A k \in AenSlots \ {n} : AenNth(h, k) = AenNth(g, k)
  /\ AenNth(g, n) = 0 /\ \A k \in AenSlots : k > n => AenNth(h, k) = 0

InRing(h, f) == \E k \in AenSlots : AenNth(h, k) = f

\* The frames in the three places are frames that were sent, those on a queue its stream's.
AenKnown(h) ==
  /\ \A j \in DOMAIN h.sent : h.sent[j] \in DOMAIN h.put
  /\ \A k \in AenSlots : AenNth(h, k) # 0 => AenNth(h, k) \in DOMAIN h.put
  /\ \A u \in Aen!Users : \A i \in DOMAIN h.wq[u] :
       h.wq[u][i] \in DOMAIN h.put /\ h.put[h.wq[u][i]] = u

\* A frame f that was sent before f2 by the same stream.
Before(h, f, f2) == h.put[f] = h.put[f2] => f < f2

\* In each of the places, and from one to the next, a stream's frames are in order.
AenSorted(h) ==
  /\ \A j, k \in DOMAIN h.sent : j < k => Before(h, h.sent[j], h.sent[k])
  /\ \A j, k \in AenSlots : j < k /\ AenNth(h, j) # 0 /\ AenNth(h, k) # 0
                               => Before(h, AenNth(h, j), AenNth(h, k))
  /\ \A j \in DOMAIN h.sent, k \in AenSlots :
       AenNth(h, k) # 0 => Before(h, h.sent[j], AenNth(h, k))
  /\ \A u \in Aen!Users :
       /\ \A i, j \in DOMAIN h.wq[u] : i < j => h.wq[u][i] < h.wq[u][j]
       /\ \A j \in DOMAIN h.sent, i \in DOMAIN h.wq[u] : Before(h, h.sent[j], h.wq[u][i])
       /\ \A k \in AenSlots, i \in DOMAIN h.wq[u] :
            AenNth(h, k) # 0 => Before(h, AenNth(h, k), h.wq[u][i])

\* None is missing but those that are gone.
AenKept(h) ==
  \A f \in DOMAIN h.put :
    f \notin h.gone <=> Has(h.sent, f) \/ InRing(h, f) \/ Has(h.wq[h.put[f]], f)

AenOrder(h) == AenKnown(h) /\ AenSorted(h) /\ AenKept(h)

AenInv(h) == AenTyped(h) /\ AenBoardInv(h) /\ AenAnswers(h) /\ AenMoving(h) /\ AenRing(h) /\ AenOrder(h)

-----------------------------------------------------------------------------
(* Its transmit ring, and what its steps keep.                             *)

LEMMA AenSlots1 ==
  ASSUME AenAssumption, NEW at \in AenSlots
  PROVE  /\ \A k \in AenSlots : AenSlot(at, k) \in AenSlots
         /\ \A j, k \in AenSlots : AenSlot(at, j) = AenSlot(at, k) => j = k
         /\ \A i \in AenSlots : \E k \in AenSlots : AenSlot(at, k) = i
         /\ AenSlot(at, 0) = at /\ AenSlot(at, TxCount) = at
<1>1. TxCount \in Nat \ {0}
  BY DEF AenAssumption
<1>2. \A i \in AenSlots : \E k \in AenSlots : AenSlot(at, k) = i
  <2> SUFFICES ASSUME NEW i \in AenSlots PROVE \E k \in AenSlots : AenSlot(at, k) = i
    OBVIOUS
  <2>1. CASE i >= at
    <3>1. i - at \in AenSlots
      BY <1>1, <2>1 DEF AenSlots
    <3>2. AenSlot(at, i - at) = i
      BY <1>1, <2>1 DEF AenSlots, AenSlot
    <3> QED BY <3>1, <3>2
  <2>2. CASE i < at
    <3>1. i - at + TxCount \in AenSlots
      BY <1>1, <2>2 DEF AenSlots
    <3>2. AenSlot(at, i - at + TxCount) = i
      BY <1>1, <2>2 DEF AenSlots, AenSlot
    <3> QED BY <3>1, <3>2
  <2> QED BY <2>1, <2>2 DEF AenSlots
<1> QED BY <1>1, <1>2 DEF AenSlots, AenSlot

LEMMA AenSlotNext ==
  ASSUME AenAssumption, NEW a \in AenSlots, NEW b, b = (a + 1) % TxCount
  PROVE  /\ b \in AenSlots
         /\ \A k \in AenSlots : AenSlot(b, k) = AenSlot(a, k + 1)
         /\ \A k \in AenSlots : (AenSlot(a, k) + 1) % TxCount = AenSlot(a, k + 1)
<1>1. TxCount \in Nat \ {0}
  BY DEF AenAssumption
<1>2. b = IF a + 1 < TxCount THEN a + 1 ELSE 0
  BY <1>1, RingNext DEF AenSlots
<1>3. b \in AenSlots
  BY <1>1, <1>2 DEF AenSlots
<1>4. \A k \in AenSlots : AenSlot(b, k) = AenSlot(a, k + 1)
  BY <1>1, <1>2 DEF AenSlots, AenSlot
<1>5. ASSUME NEW k \in AenSlots
      PROVE  (AenSlot(a, k) + 1) % TxCount = AenSlot(a, k + 1)
  <2>1. PICK c \in AenSlots : c = AenSlot(a, k)
    BY AenSlots1
  <2>2. (c + 1) % TxCount = IF c + 1 < TxCount THEN c + 1 ELSE 0
    BY <1>1, RingNext DEF AenSlots
  <2> QED BY <1>1, <2>1, <2>2 DEF AenSlots, AenSlot
<1> QED BY <1>3, <1>4, <1>5

\* A frame put into the ring comes last.
LEMMA AenRingPut ==
  ASSUME AenAssumption, NEW g, NEW h, AenRing(g), AenTyped(g), g.tx[g.txi] = 0,
         NEW f \in Nat \ {0}, AenPut(g, h, f)
  PROVE  /\ AenRing(h)
         /\ \E n \in AenSlots : AenPlaced(g, h, f, n)
         /\ h.tx \in [AenSlots -> Nat] /\ h.txi \in AenSlots
<1>0. /\ g.tx \in [AenSlots -> Nat] /\ g.at \in AenSlots
      /\ h.tx = [g.tx EXCEPT ![g.txi] = f] /\ h.txi = (g.txi + 1) % TxCount /\ h.at = g.at
  BY DEF AenTyped, AenPut
<1>1. PICK n \in 0 .. TxCount :
        /\ g.txi = AenSlot(g.at, n)
        /\ \A k \in AenSlots : AenNth(g, k) # 0 <=> k < n
  BY DEF AenRing
<1>2. TxCount \in Nat \ {0}
  BY DEF AenAssumption
<1>3. n \in AenSlots
  <2>1. CASE n = TxCount
    <3>1. 0 \in AenSlots
      BY <1>2 DEF AenSlots
    <3>2. AenSlot(g.at, 0) = g.at /\ AenSlot(g.at, TxCount) = g.at
      BY <1>0, AenSlots1
    <3>3. AenNth(g, 0) = 0
      BY <1>1, <2>1, <3>2 DEF AenNth
    <3> QED BY <1>1, <1>2, <2>1, <3>1, <3>3
  <2> QED BY <1>2, <2>1 DEF AenSlots
<1>4. /\ \A k \in AenSlots : AenSlot(g.at, k) \in AenSlots
      /\ \A j, k \in AenSlots : AenSlot(g.at, j) = AenSlot(g.at, k) => j = k
  BY <1>0, AenSlots1
<1>5. g.txi \in AenSlots
  <2>1. AenSlot(g.at, n) \in AenSlots
    BY <1>3, <1>4
  <2> QED BY <1>1, <2>1
<1>6. ASSUME NEW k \in AenSlots \ {n}
       PROVE  AenNth(h, k) = AenNth(g, k)
  <2>1. AenSlot(g.at, k) \in AenSlots /\ AenSlot(g.at, k) # AenSlot(g.at, n)
    BY <1>3, <1>4
  <2> QED BY <1>0, <1>1, <2>1 DEF AenNth
<1>7. AenNth(h, n) = f
  BY <1>0, <1>1, <1>5 DEF AenNth
<1>8. h.txi = AenSlot(h.at, n + 1) /\ n + 1 \in 0 .. TxCount
  <2>1. n + 1 \in 0 .. TxCount
    BY <1>2, <1>3 DEF AenSlots
  <2>2. (AenSlot(g.at, n) + 1) % TxCount = AenSlot(g.at, n + 1)
    BY <1>0, <1>3, AenSlotNext
  <2> QED BY <1>0, <1>1, <2>1, <2>2
<1>9. AenRing(h)
  <2>1. ASSUME NEW k \in AenSlots
        PROVE  AenNth(h, k) # 0 <=> k < n + 1
    <3>1. CASE k = n
      BY <1>3, <1>7, <3>1 DEF AenSlots
    <3>2. CASE k # n
      <4>1. AenNth(h, k) = AenNth(g, k) /\ (AenNth(g, k) # 0 <=> k < n)
        BY <1>1, <1>6, <3>2
      <4> QED BY <1>3, <3>2, <4>1 DEF AenSlots
    <3> QED BY <3>1, <3>2
  <2> QED BY <1>8, <2>1 DEF AenRing
<1>10. h.txi \in AenSlots
  BY <1>0, <1>5, AenSlotNext
<1>11. AenNth(g, n) = 0 /\ \A k \in AenSlots : k > n => AenNth(h, k) = 0
  BY <1>1, <1>2, <1>3, <1>6 DEF AenSlots
<1> QED BY <1>0, <1>3, <1>6, <1>7, <1>9, <1>10, <1>11 DEF AenPlaced

\* The chip sends the first.
LEMMA AenRingSent ==
  ASSUME AenAssumption, NEW g, NEW h, AenRing(g), g.tx \in [AenSlots -> Nat], g.at \in AenSlots,
         g.tx[g.at] # 0, h.tx = [g.tx EXCEPT ![g.at] = 0],
         h.at = (g.at + 1) % TxCount, h.txi = g.txi
  PROVE  /\ AenRing(h) /\ h.at \in AenSlots /\ h.tx \in [AenSlots -> Nat]
         /\ AenNth(g, 0) = g.tx[g.at] /\ 0 \in AenSlots
         /\ \A k \in AenSlots : AenNth(h, k) = IF k + 1 \in AenSlots THEN AenNth(g, k + 1) ELSE 0
<1>1. PICK n \in 0 .. TxCount :
        /\ g.txi = AenSlot(g.at, n)
        /\ \A k \in AenSlots : AenNth(g, k) # 0 <=> k < n
  BY DEF AenRing
<1>2. TxCount \in Nat \ {0}
  BY DEF AenAssumption
<1>3. AenNth(g, 0) = g.tx[g.at] /\ 0 \in AenSlots
  <2>1. 0 \in AenSlots
    BY <1>2 DEF AenSlots
  <2>2. AenSlot(g.at, 0) = g.at
    BY AenSlots1
  <2> QED BY <2>1, <2>2 DEF AenNth
<1>4. n > 0
  BY <1>1, <1>2, <1>3
<1>5. h.at \in AenSlots /\ \A k \in AenSlots : AenSlot(h.at, k) = AenSlot(g.at, k + 1)
  BY AenSlotNext
<1>7. ASSUME NEW k \in AenSlots
      PROVE  AenNth(h, k) = IF k + 1 \in AenSlots THEN AenNth(g, k + 1) ELSE 0
  <2>1. CASE k + 1 \in AenSlots
    <3>1. AenSlot(g.at, k + 1) \in AenSlots /\ k + 1 # 0
      <4>1. k + 1 # 0
        BY <1>2 DEF AenSlots
      <4> QED BY <2>1, <4>1, AenSlots1
    <3>2. AenSlot(g.at, k + 1) # g.at
      BY <1>3, <2>1, <3>1, AenSlots1
    <3> QED BY <1>5, <2>1, <3>1, <3>2 DEF AenNth
  <2>2. CASE k + 1 \notin AenSlots
    <3>1. k + 1 = TxCount
      BY <1>2, <2>2 DEF AenSlots
    <3>2. AenSlot(h.at, k) = g.at
      BY <1>5, <3>1, AenSlots1
    <3> QED BY <2>2, <3>2 DEF AenNth
  <2> QED BY <2>1, <2>2
<1>8. h.txi = AenSlot(h.at, n - 1) /\ n - 1 \in 0 .. TxCount
  <2>1. n - 1 \in AenSlots /\ n - 1 \in 0 .. TxCount /\ (n - 1) + 1 = n
    BY <1>2, <1>4 DEF AenSlots
  <2> QED BY <1>1, <1>5, <2>1
<1>9. \A k \in AenSlots : AenNth(h, k) # 0 <=> k < n - 1
  BY <1>1, <1>2, <1>7 DEF AenSlots
<1> QED BY <1>3, <1>5, <1>7, <1>8, <1>9 DEF AenRing

\* setup_lance() empties it.
LEMMA AenRingEmpty ==
  ASSUME AenAssumption, NEW h, h.tx = [i \in AenSlots |-> 0], h.txi = 0, h.at = 0
  PROVE  /\ AenRing(h) /\ \A k \in AenSlots : AenNth(h, k) = 0
         /\ h.tx \in [AenSlots -> Nat] /\ 0 \in AenSlots
<1>1. TxCount \in Nat \ {0}
  BY DEF AenAssumption
<1>2. 0 \in AenSlots /\ 0 \in 0 .. TxCount
  BY <1>1 DEF AenSlots
<1>3. \A k \in AenSlots : AenNth(h, k) = 0
  BY <1>1, <1>2, AenSlots1 DEF AenNth, AenSlots
<1>4. h.txi = AenSlot(h.at, 0)
  BY <1>2, AenSlots1
<1> QED BY <1>1, <1>2, <1>3, <1>4 DEF AenRing, AenSlots

\* What the order of the frames depends on.
AenFrames(h) ==
  /\ h.tx \in [AenSlots -> Nat] /\ h.at \in AenSlots
  /\ h.wq \in [Aen!Users -> Seq(Nat)]
  /\ h.put \in Seq(Aen!Users) /\ h.sent \in Seq(Nat) /\ h.gone \subseteq DOMAIN h.put

LEMMA AenOrderSame ==
  ASSUME NEW g, NEW h, AenOrder(g), h.tx = g.tx, h.at = g.at, h.wq = g.wq, h.put = g.put,
         h.sent = g.sent, h.gone = g.gone
  PROVE  AenOrder(h)
<1>1. \A k : AenNth(h, k) = AenNth(g, k)
  BY DEF AenNth
<1>2. AenKnown(h)
  BY <1>1 DEF AenOrder, AenKnown
<1>3. AenSorted(h)
  BY <1>1 DEF AenOrder, AenSorted, Before
<1>4. AenKept(h)
  BY <1>1 DEF AenOrder, AenKept, InRing
<1> QED BY <1>2, <1>3, <1>4 DEF AenOrder

\* The number of a frame that is sent.
LEMMA AenNewFrame ==
  ASSUME NEW g, NEW h, NEW u \in Aen!Users, g.put \in Seq(Aen!Users), h.put = Append(g.put, u),
         NEW f, f = Len(g.put) + 1
  PROVE  /\ h.put \in Seq(Aen!Users) /\ DOMAIN h.put = DOMAIN g.put \cup {f} /\ f \in Nat \ {0}
         /\ h.put[f] = u /\ \A e \in DOMAIN g.put : h.put[e] = g.put[e] /\ e < f /\ e \in Nat /\ e # f
<1> QED OBVIOUS

\* It is queued, behind those of its stream.
LEMMA AenOrderQueue ==
  ASSUME NEW g, NEW h, AenFrames(g), AenOrder(g), NEW u \in Aen!Users,
         h.put = Append(g.put, u), h.wq = [g.wq EXCEPT ![u] = Append(@, Len(g.put) + 1)],
         h.tx = g.tx, h.at = g.at, h.sent = g.sent, h.gone = g.gone
  PROVE  AenFrames(h) /\ AenOrder(h)
<1>1. PICK f : f = Len(g.put) + 1
  OBVIOUS
<1>2. /\ h.put \in Seq(Aen!Users) /\ DOMAIN h.put = DOMAIN g.put \cup {f} /\ f \in Nat \ {0}
      /\ h.put[f] = u /\ \A e \in DOMAIN g.put : h.put[e] = g.put[e] /\ e < f /\ e \in Nat /\ e # f
  BY <1>1, AenNewFrame, SMTT(30) DEF AenFrames
<1>3. \A k : AenNth(h, k) = AenNth(g, k)
  BY DEF AenNth
<1>4. \A v \in Aen!Users \ {u} : h.wq[v] = g.wq[v]
  BY DEF AenFrames
<1>5. PICK n \in Nat : DOMAIN g.wq[u] = 1 .. n
  BY DEF AenFrames
<1>6. /\ h.wq[u] \in Seq(Nat) /\ DOMAIN h.wq[u] = 1 .. n + 1 /\ h.wq[u][n + 1] = f
      /\ \A i \in 1 .. n : h.wq[u][i] = g.wq[u][i]
  <2>1. g.wq[u] \in Seq(Nat) /\ h.wq[u] = Append(g.wq[u], f) /\ Len(g.wq[u]) = n
    BY <1>1, <1>5 DEF AenFrames
  <2> QED BY <1>2, <2>1
<1>7. AenFrames(h)
  <2>1. h.wq \in [Aen!Users -> Seq(Nat)]
    BY <1>4, <1>6 DEF AenFrames
  <2> QED BY <1>2, <2>1 DEF AenFrames
<1>8. AenKnown(h)
  BY <1>2, <1>3, <1>4, <1>5, <1>6, SMTT(30) DEF AenOrder, AenKnown
<1>9. AenSorted(h)
  <2>1. \A e, e2 \in DOMAIN g.put : Before(g, e, e2) => Before(h, e, e2)
    BY <1>2 DEF Before
  <2>2. \A e \in DOMAIN g.put : Before(h, e, f)
    BY <1>2 DEF Before
  <2>3. \A j, k \in DOMAIN h.sent : j < k => Before(h, h.sent[j], h.sent[k])
    BY <2>1 DEF AenOrder, AenKnown, AenSorted
  <2>4. \A j, k \in AenSlots : j < k /\ AenNth(h, j) # 0 /\ AenNth(h, k) # 0
                                => Before(h, AenNth(h, j), AenNth(h, k))
    BY <1>3, <2>1 DEF AenOrder, AenKnown, AenSorted
  <2>5. \A j \in DOMAIN h.sent, k \in AenSlots :
          AenNth(h, k) # 0 => Before(h, h.sent[j], AenNth(h, k))
    BY <1>3, <2>1 DEF AenOrder, AenKnown, AenSorted
  <2>6. ASSUME NEW v \in Aen!Users, NEW i \in DOMAIN h.wq[v]
        PROVE  /\ \A j \in DOMAIN h.wq[v] : i < j => h.wq[v][i] < h.wq[v][j]
               /\ \A j \in DOMAIN h.sent : Before(h, h.sent[j], h.wq[v][i])
               /\ \A k \in AenSlots : AenNth(h, k) # 0 => Before(h, AenNth(h, k), h.wq[v][i])
    <3>1. CASE v # u
      BY <1>3, <1>4, <2>1, <3>1 DEF AenOrder, AenKnown, AenSorted
    <3>2. CASE v = u /\ i \in 1 .. n
      <4>1. h.wq[u][i] = g.wq[u][i] /\ g.wq[u][i] \in DOMAIN g.put /\ i \in DOMAIN g.wq[u]
        BY <1>5, <1>6, <3>2 DEF AenOrder, AenKnown
      <4>2. ASSUME NEW j \in DOMAIN h.wq[u], i < j
            PROVE  h.wq[u][i] < h.wq[u][j]
        BY <1>2, <1>5, <1>6, <4>1, <4>2, SMTT(30) DEF AenOrder, AenSorted
      <4>3. \A j \in DOMAIN h.sent : Before(h, h.sent[j], h.wq[u][i])
        BY <2>1, <4>1 DEF AenOrder, AenKnown, AenSorted
      <4>4. \A k \in AenSlots : AenNth(h, k) # 0 => Before(h, AenNth(h, k), h.wq[u][i])
        BY <1>3, <2>1, <4>1 DEF AenOrder, AenKnown, AenSorted
      <4> QED BY <3>2, <4>2, <4>3, <4>4
    <3>3. CASE v = u /\ i = n + 1
      BY <1>2, <1>3, <1>5, <1>6, <2>2, <3>3 DEF AenOrder, AenKnown, AenSorted
    <3> QED BY <1>6, <3>1, <3>2, <3>3
  <2> QED BY <2>3, <2>4, <2>5, <2>6 DEF AenSorted
<1>10. AenKept(h)
  <2>1. ASSUME NEW e \in DOMAIN g.put
        PROVE  Has(h.wq[h.put[e]], e) <=> Has(g.wq[g.put[e]], e)
    <3>1. h.put[e] = g.put[e] /\ g.put[e] \in Aen!Users /\ e # f
      BY <1>2 DEF AenFrames
    <3>2. CASE g.put[e] # u
      BY <1>4, <3>1, <3>2
    <3>3. CASE g.put[e] = u
      <4>1. Has(h.wq[u], e) => Has(g.wq[u], e)
        BY <1>5, <1>6, <3>1 DEF Has
      <4>2. Has(g.wq[u], e) => Has(h.wq[u], e)
        BY <1>5, <1>6 DEF Has
      <4> QED BY <3>1, <3>3, <4>1, <4>2
    <3> QED BY <3>2, <3>3
  <2>2. Has(h.wq[h.put[f]], f) /\ f \notin h.gone
    BY <1>2, <1>6, SMTT(30) DEF Has, AenFrames
  <2> QED BY <1>2, <1>3, <2>1, <2>2, SMTT(30) DEF AenOrder, AenKept, InRing
<1> QED BY <1>7, <1>8, <1>9, <1>10 DEF AenOrder

\* It goes into the ring at once, when none of its stream is queued.
LEMMA AenOrderNew ==
  ASSUME NEW g, NEW h, AenFrames(g), AenOrder(g), NEW u \in Aen!Users, g.wq[u] = <<>>,
         h.put = Append(g.put, u), h.wq = g.wq, h.sent = g.sent, h.gone = g.gone,
         h.tx \in [AenSlots -> Nat], h.at \in AenSlots,
         NEW n \in AenSlots, AenNth(h, n) = Len(g.put) + 1, AenNth(g, n) = 0,
         \A k \in AenSlots \ {n} : AenNth(h, k) = AenNth(g, k),
         \A k \in AenSlots : k > n => AenNth(h, k) = 0, TxCount \in Nat
  PROVE  AenFrames(h) /\ AenOrder(h)
<1>1. PICK f : f = Len(g.put) + 1
  OBVIOUS
<1>2. /\ h.put \in Seq(Aen!Users) /\ DOMAIN h.put = DOMAIN g.put \cup {f} /\ f \in Nat \ {0}
      /\ h.put[f] = u /\ \A e \in DOMAIN g.put : h.put[e] = g.put[e] /\ e < f /\ e \in Nat /\ e # f
  <2>1. g.put \in Seq(Aen!Users)
    BY DEF AenFrames
  <2> QED BY <1>1, <2>1, AenNewFrame
<1>3. AenFrames(h)
  BY <1>2 DEF AenFrames
<1>4. AenKnown(h)
  BY <1>1, <1>2 DEF AenOrder, AenKnown
<1>5. AenSorted(h)
  <2>1. \A e, e2 \in DOMAIN g.put : Before(g, e, e2) => Before(h, e, e2)
    BY <1>2 DEF Before
  <2>2. \A e \in DOMAIN g.put : Before(h, e, f)
    BY <1>2 DEF Before
  <2>3. \A j, k \in DOMAIN h.sent : j < k => Before(h, h.sent[j], h.sent[k])
    BY <2>1 DEF AenOrder, AenKnown, AenSorted
  <2>4. ASSUME NEW j \in AenSlots, NEW k \in AenSlots, j < k, AenNth(h, j) # 0, AenNth(h, k) # 0
        PROVE  Before(h, AenNth(h, j), AenNth(h, k))
    <3>1. j # n
      BY <2>4 DEF AenSlots
    <3>2. CASE k = n
      BY <1>1, <2>2, <2>4, <3>1, <3>2 DEF AenOrder, AenKnown
    <3>3. CASE k # n
      BY <2>1, <2>4, <3>1, <3>3 DEF AenOrder, AenKnown, AenSorted
    <3> QED BY <3>2, <3>3
  <2>5. \A j \in DOMAIN h.sent, k \in AenSlots :
          AenNth(h, k) # 0 => Before(h, h.sent[j], AenNth(h, k))
    BY <1>1, <2>1, <2>2 DEF AenOrder, AenKnown, AenSorted
  <2>6. ASSUME NEW v \in Aen!Users, NEW i \in DOMAIN h.wq[v]
        PROVE  /\ \A j \in DOMAIN h.wq[v] : i < j => h.wq[v][i] < h.wq[v][j]
               /\ \A j \in DOMAIN h.sent : Before(h, h.sent[j], h.wq[v][i])
               /\ \A k \in AenSlots : AenNth(h, k) # 0 => Before(h, AenNth(h, k), h.wq[v][i])
    <3>1. v # u
      OBVIOUS
    <3>2. h.wq[v][i] \in DOMAIN g.put /\ g.put[h.wq[v][i]] = v
      BY DEF AenOrder, AenKnown
    <3>3. Before(h, f, h.wq[v][i])
      BY <1>2, <3>1, <3>2 DEF Before
    <3>4. ASSUME NEW k \in AenSlots, AenNth(h, k) # 0
          PROVE  Before(h, AenNth(h, k), h.wq[v][i])
      BY <1>1, <2>1, <3>2, <3>3, <3>4 DEF AenOrder, AenKnown, AenSorted
    <3>5. \A j \in DOMAIN h.sent : Before(h, h.sent[j], h.wq[v][i])
      BY <2>1, <3>2 DEF AenOrder, AenKnown, AenSorted
    <3> QED BY <3>4, <3>5 DEF AenOrder, AenSorted
  <2> QED BY <2>3, <2>4, <2>5, <2>6 DEF AenSorted
<1>6. AenKept(h)
  <2>1. \A e \in DOMAIN g.put : InRing(h, e) <=> InRing(g, e)
    BY <1>1, <1>2 DEF InRing
  <2>2. InRing(h, f) /\ f \notin h.gone
    BY <1>1, <1>2 DEF InRing, AenFrames
  <2> QED BY <1>2, <2>1, <2>2 DEF AenOrder, AenKept
<1> QED BY <1>3, <1>4, <1>5, <1>6 DEF AenOrder

\* transmit_interrupt() puts the first frame of a queue into the ring.
LEMMA AenOrderHead ==
  ASSUME NEW g, NEW h, AenFrames(g), AenOrder(g), NEW u \in Aen!Users, g.wq[u] # <<>>,
         h.put = g.put, h.wq = [g.wq EXCEPT ![u] = Tail(@)], h.sent = g.sent, h.gone = g.gone,
         h.tx \in [AenSlots -> Nat], h.at \in AenSlots,
         NEW n \in AenSlots, AenNth(h, n) = Head(g.wq[u]), AenNth(g, n) = 0,
         \A k \in AenSlots \ {n} : AenNth(h, k) = AenNth(g, k),
         \A k \in AenSlots : k > n => AenNth(h, k) = 0, TxCount \in Nat
  PROVE  AenFrames(h) /\ AenOrder(h)
<1>1. PICK f : f = Head(g.wq[u])
  OBVIOUS
<1>2. /\ h.wq[u] \in Seq(Nat) /\ 1 \in DOMAIN g.wq[u] /\ f = g.wq[u][1]
      /\ \A i \in DOMAIN h.wq[u] : /\ i \in Nat /\ i + 1 \in DOMAIN g.wq[u] /\ 1 < i + 1
                                  /\ h.wq[u][i] = g.wq[u][i + 1]
      /\ \A i \in DOMAIN g.wq[u] : i # 1 => \E j \in DOMAIN h.wq[u] : g.wq[u][i] = h.wq[u][j]
  <2>1. g.wq[u] \in Seq(Nat) /\ h.wq[u] = Tail(g.wq[u])
    BY DEF AenFrames
  <2>2. Shorter(h.wq[u], g.wq[u])
    BY <2>1, TailOf
  <2> QED BY <1>1, <2>2 DEF Shorter
<1>3. \A v \in Aen!Users \ {u} : h.wq[v] = g.wq[v]
  BY DEF AenFrames
<1>4. f \in DOMAIN g.put /\ g.put[f] = u /\ f \in Nat \ {0}
  <2>1. f \in DOMAIN g.put /\ g.put[f] = u
    BY <1>2 DEF AenOrder, AenKnown
  <2> QED BY <2>1, SMTT(30) DEF AenFrames
<1>5. AenFrames(h)
  <2>1. h.wq \in [Aen!Users -> Seq(Nat)]
    BY <1>2, <1>3 DEF AenFrames
  <2> QED BY <2>1 DEF AenFrames
<1>6. AenKnown(h)
  <2>1. ASSUME NEW v \in Aen!Users, NEW i \in DOMAIN h.wq[v]
        PROVE  h.wq[v][i] \in DOMAIN h.put /\ h.put[h.wq[v][i]] = v
    <3>1. CASE v # u
      <4>1. h.wq[v] = g.wq[v] /\ h.put = g.put /\ i \in DOMAIN g.wq[v]
        BY <1>3, <3>1
      <4>2. AenKnown(g)
        BY DEF AenOrder
      <4>3. g.wq[v][i] \in DOMAIN g.put /\ g.put[g.wq[v][i]] = v
        BY ONLY <2>1, <4>1, <4>2 DEF AenKnown
      <4> QED BY ONLY <4>1, <4>3
    <3>2. CASE v = u
      <4>1. i + 1 \in DOMAIN g.wq[u]
        BY <1>2, <3>2
      <4>2. g.wq[u][i + 1] \in DOMAIN g.put /\ g.put[g.wq[u][i + 1]] = u
        BY <4>1 DEF AenOrder, AenKnown
      <4>3. h.wq[u][i] = g.wq[u][i + 1]
        BY <1>2, <3>2
      <4> QED BY <3>2, <4>2, <4>3
    <3> QED BY <3>1, <3>2
  <2> QED BY <1>1, <1>4, <2>1 DEF AenOrder, AenKnown
<1>7. \A e, e2 : Before(h, e, e2) <=> Before(g, e, e2)
  BY DEF Before
<1>8. AenSorted(h)
  <2>1. \A j \in DOMAIN g.sent : Before(g, g.sent[j], f)
    BY <1>2 DEF AenOrder, AenSorted
  <2>2. \A k \in AenSlots : AenNth(g, k) # 0 => Before(g, AenNth(g, k), f)
    BY <1>2 DEF AenOrder, AenSorted
  <2>3. \A j, k \in DOMAIN h.sent : j < k => Before(h, h.sent[j], h.sent[k])
    BY <1>7 DEF AenOrder, AenSorted
  <2>4. ASSUME NEW j \in AenSlots, NEW k \in AenSlots, j < k, AenNth(h, j) # 0, AenNth(h, k) # 0
        PROVE  Before(h, AenNth(h, j), AenNth(h, k))
    <3>1. j # n
      BY <2>4 DEF AenSlots
    <3>2. CASE k = n
      BY <1>1, <1>7, <2>2, <2>4, <3>1, <3>2
    <3>3. CASE k # n
      BY <1>7, <2>4, <3>1, <3>3 DEF AenOrder, AenSorted
    <3> QED BY <3>2, <3>3
  <2>5. \A j \in DOMAIN h.sent, k \in AenSlots :
          AenNth(h, k) # 0 => Before(h, h.sent[j], AenNth(h, k))
    BY <1>1, <1>7, <2>1 DEF AenOrder, AenSorted
  <2>6. ASSUME NEW v \in Aen!Users, NEW i \in DOMAIN h.wq[v]
        PROVE  /\ \A j \in DOMAIN h.wq[v] : i < j => h.wq[v][i] < h.wq[v][j]
               /\ \A j \in DOMAIN h.sent : Before(h, h.sent[j], h.wq[v][i])
               /\ \A k \in AenSlots : AenNth(h, k) # 0 => Before(h, AenNth(h, k), h.wq[v][i])
    <3>1. CASE v # u
      <4>1. h.wq[v] = g.wq[v] /\ g.put[h.wq[v][i]] = v
        BY <1>3, <3>1 DEF AenOrder, AenKnown
      <4>2. Before(g, f, h.wq[v][i])
        BY <1>4, <3>1, <4>1 DEF Before
      <4>3. \A k \in AenSlots : AenNth(h, k) # 0 => Before(h, AenNth(h, k), h.wq[v][i])
        BY <1>1, <1>7, <4>1, <4>2 DEF AenOrder, AenSorted
      <4> QED BY <1>7, <4>1, <4>3 DEF AenOrder, AenSorted
    <3>2. CASE v = u
      <4>1. /\ i + 1 \in DOMAIN g.wq[u] /\ 1 \in DOMAIN g.wq[u] /\ 1 < i + 1
            /\ h.wq[v][i] = g.wq[u][i + 1]
        BY <1>2, <3>2
      <4>2. f < h.wq[v][i]
        BY <1>2, <4>1, ZenonT(30) DEF AenOrder, AenSorted
      <4>3. ASSUME NEW j \in DOMAIN h.wq[v], i < j
            PROVE  h.wq[v][i] < h.wq[v][j]
        <5>1. i \in Nat /\ j \in Nat /\ j + 1 \in DOMAIN g.wq[u] /\ h.wq[v][j] = g.wq[u][j + 1]
          BY <1>2, <3>2
        <5>2. i + 1 < j + 1
          BY <4>3, <5>1
        <5> QED BY <4>1, <5>1, <5>2 DEF AenOrder, AenSorted
      <4>4. \A j \in DOMAIN h.sent : Before(h, h.sent[j], h.wq[v][i])
        BY <1>7, <4>1 DEF AenOrder, AenSorted
      <4>5. \A k \in AenSlots : AenNth(h, k) # 0 => Before(h, AenNth(h, k), h.wq[v][i])
        <5>1. Before(h, f, h.wq[v][i])
          BY <4>2 DEF Before
        <5> QED BY <1>1, <1>7, <4>1, <5>1 DEF AenOrder, AenSorted
      <4> QED BY <4>3, <4>4, <4>5
    <3> QED BY <3>1, <3>2
  <2> QED BY <2>3, <2>4, <2>5, <2>6 DEF AenSorted
<1>9. AenKept(h)
  <2>1. ASSUME NEW e \in DOMAIN g.put
        PROVE  InRing(h, e) \/ Has(h.wq[h.put[e]], e) <=> InRing(g, e) \/ Has(g.wq[g.put[e]], e)
    <3>0. e # 0 /\ g.put[e] \in Aen!Users
      BY DEF AenFrames
    <3>1. InRing(h, e) <=> InRing(g, e) \/ e = f
      BY <1>1, <3>0 DEF InRing
    <3>2. CASE g.put[e] # u
      BY <1>3, <1>4, <3>0, <3>1, <3>2
    <3>3. CASE g.put[e] = u
      <4>1. Has(h.wq[u], e) => Has(g.wq[u], e)
        BY <1>2 DEF Has
      <4>2. Has(g.wq[u], e) => Has(h.wq[u], e) \/ e = f
        BY <1>2 DEF Has
      <4>3. e = f => Has(g.wq[u], e)
        BY <1>2 DEF Has
      <4> QED BY <3>1, <3>3, <4>1, <4>2, <4>3
    <3> QED BY <3>2, <3>3
  <2> QED BY <2>1 DEF AenOrder, AenKept
<1> QED BY <1>5, <1>6, <1>8, <1>9 DEF AenOrder

\* The LANCE sends the first frame of the ring.
LEMMA AenOrderSent ==
  ASSUME NEW g, NEW h, AenFrames(g), AenOrder(g), TxCount \in Nat,
         h.put = g.put, h.wq = g.wq, h.gone = g.gone, h.sent = Append(g.sent, AenNth(g, 0)),
         h.tx \in [AenSlots -> Nat], h.at \in AenSlots, 0 \in AenSlots, AenNth(g, 0) # 0,
         \A k \in AenSlots : AenNth(h, k) = IF k + 1 \in AenSlots THEN AenNth(g, k + 1) ELSE 0
  PROVE  AenFrames(h) /\ AenOrder(h)
<1>1. PICK f : f = AenNth(g, 0)
  OBVIOUS
<1>2. f \in DOMAIN g.put /\ f \in Nat \ {0}
  BY <1>1 DEF AenOrder, AenKnown, AenFrames
<1>3. /\ h.sent \in Seq(Nat)
      /\ \A j \in DOMAIN g.sent : j \in DOMAIN h.sent /\ h.sent[j] = g.sent[j]
      /\ \E l \in DOMAIN h.sent :
           /\ h.sent[l] = f
           /\ \A j \in DOMAIN h.sent : j = l \/ (j \in DOMAIN g.sent /\ j < l /\ h.sent[j] = g.sent[j])
           /\ \A j \in DOMAIN h.sent : j \in Nat /\ ~(l < j)
  <2>1. g.sent \in Seq(Nat) /\ h.sent = Append(g.sent, f) /\ f \in Nat
    BY <1>1, <1>2 DEF AenFrames
  <2>2. Longer(h.sent, g.sent, f)
    BY <2>1, AppendOf
  <2> QED BY <2>2 DEF Longer
<1>4. AenFrames(h)
  BY <1>3 DEF AenFrames
<1>9. PICK l \in DOMAIN h.sent :
        /\ h.sent[l] = f
        /\ \A j \in DOMAIN h.sent : j = l \/ (j \in DOMAIN g.sent /\ j < l /\ h.sent[j] = g.sent[j])
        /\ \A j \in DOMAIN h.sent : j \in Nat /\ ~(l < j)
  BY <1>3
<1>5. \A k \in AenSlots : AenNth(h, k) # 0 => k + 1 \in AenSlots /\ AenNth(h, k) = AenNth(g, k + 1)
  OBVIOUS
<1>6. AenKnown(h)
  BY <1>2, <1>9, <1>5 DEF AenOrder, AenKnown
<1>7. \A e, e2 : Before(h, e, e2) <=> Before(g, e, e2)
  BY DEF Before
<1>8. AenSorted(h)
  <2>1. ASSUME NEW j \in DOMAIN h.sent, NEW k \in DOMAIN h.sent, j < k
        PROVE  Before(h, h.sent[j], h.sent[k])
    <3>1. j # l
      BY <1>9, <2>1
    <3>2. j \in DOMAIN g.sent /\ h.sent[j] = g.sent[j]
      BY <1>9, <3>1
    <3>3. Before(g, g.sent[j], f)
      BY <1>1, <1>2, <3>2 DEF AenOrder, AenSorted
    <3> QED BY <1>7, <1>9, <2>1, <3>2, <3>3 DEF AenOrder, AenSorted
  <2>2. ASSUME NEW j \in AenSlots, NEW k \in AenSlots, j < k, AenNth(h, j) # 0, AenNth(h, k) # 0
        PROVE  Before(h, AenNth(h, j), AenNth(h, k))
    <3>1. j + 1 < k + 1
      BY <2>2 DEF AenSlots
    <3> QED BY <1>5, <1>7, <2>2, <3>1 DEF AenOrder, AenSorted
  <2>3. ASSUME NEW j \in DOMAIN h.sent, NEW k \in AenSlots, AenNth(h, k) # 0
        PROVE  Before(h, h.sent[j], AenNth(h, k))
    <3>1. CASE j # l
      BY <1>9, <1>5, <1>7, <2>3, <3>1 DEF AenOrder, AenSorted
    <3>2. CASE j = l
      <4>1. 0 < k + 1 /\ k + 1 \in AenSlots
        BY <1>5, <2>3 DEF AenSlots
      <4> QED BY <1>1, <1>2, <1>9, <1>5, <1>7, <2>3, <3>2, <4>1 DEF AenOrder, AenSorted
    <3> QED BY <3>1, <3>2
  <2>4. ASSUME NEW v \in Aen!Users, NEW i \in DOMAIN h.wq[v]
        PROVE  /\ \A j \in DOMAIN h.wq[v] : i < j => h.wq[v][i] < h.wq[v][j]
               /\ \A j \in DOMAIN h.sent : Before(h, h.sent[j], h.wq[v][i])
               /\ \A k \in AenSlots : AenNth(h, k) # 0 => Before(h, AenNth(h, k), h.wq[v][i])
    <3>1. \A j \in DOMAIN h.sent : Before(h, h.sent[j], h.wq[v][i])
      BY <1>1, <1>2, <1>9, <1>7 DEF AenOrder, AenSorted
    <3>2. \A k \in AenSlots : AenNth(h, k) # 0 => Before(h, AenNth(h, k), h.wq[v][i])
      BY <1>5, <1>7 DEF AenOrder, AenSorted
    <3> QED BY <3>1, <3>2 DEF AenOrder, AenSorted
  <2> QED BY <2>1, <2>2, <2>3, <2>4 DEF AenSorted
<1>10. AenKept(h)
  <2>1. ASSUME NEW e \in DOMAIN g.put
        PROVE  Has(h.sent, e) \/ InRing(h, e) <=> Has(g.sent, e) \/ InRing(g, e)
    <3>1. Has(h.sent, e) <=> Has(g.sent, e) \/ e = f
      <4>1. Has(h.sent, e) => Has(g.sent, e) \/ e = f
        BY <1>9 DEF Has
      <4>2. Has(g.sent, e) \/ e = f => Has(h.sent, e)
        BY <1>3, <1>9 DEF Has
      <4> QED BY <4>1, <4>2
    <3>2. e # 0
      BY DEF AenFrames
    <3>3. InRing(h, e) => InRing(g, e)
      BY <1>5, <3>2 DEF InRing
    <3>4. InRing(g, e) => InRing(h, e) \/ e = f
      <4>1. \A k \in AenSlots : k # 0 => k - 1 \in AenSlots /\ (k - 1) + 1 = k
        BY DEF AenSlots
      <4>2. ASSUME NEW k \in AenSlots, AenNth(g, k) = e
            PROVE  InRing(h, e) \/ e = f
        <5>1. CASE k = 0
          BY <1>1, <4>2, <5>1
        <5>2. CASE k # 0
          <6>1. k - 1 \in AenSlots /\ (k - 1) + 1 = k
            BY <4>1, <5>2
          <6>2. AenNth(h, k - 1) = e
            BY <4>2, <6>1
          <6> QED BY <6>1, <6>2 DEF InRing
        <5> QED BY <5>1, <5>2
      <4> QED BY <4>2 DEF InRing
    <3>5. InRing(g, f)
      BY <1>1 DEF InRing
    <3> QED BY <3>1, <3>3, <3>4, <3>5
  <2> QED BY <2>1 DEF AenOrder, AenKept
<1> QED BY <1>4, <1>6, <1>8, <1>10 DEF AenOrder

\* A queue is flushed.
LEMMA AenOrderDrop ==
  ASSUME NEW g, NEW h, AenFrames(g), AenOrder(g), NEW u \in Aen!Users,
         h.put = g.put, h.sent = g.sent, h.tx = g.tx, h.at = g.at,
         h.wq = [g.wq EXCEPT ![u] = <<>>], h.gone = g.gone \cup Aen!Range(g.wq[u])
  PROVE  AenFrames(h) /\ AenOrder(h)
<1>1. \A k : AenNth(h, k) = AenNth(g, k)
  BY DEF AenNth
<1>2. h.wq[u] = <<>> /\ \A v \in Aen!Users \ {u} : h.wq[v] = g.wq[v]
  BY DEF AenFrames
<1>3. \A e : e \in Aen!Range(g.wq[u]) <=> Has(g.wq[u], e)
  BY DEF Aen!Range, Has
<1>4. \A e : Has(g.wq[u], e) => e \in DOMAIN g.put /\ g.put[e] = u /\ e \in Nat
  <2>1. \A e : Has(g.wq[u], e) => e \in DOMAIN g.put /\ g.put[e] = u
    BY DEF Has, AenOrder, AenKnown
  <2> QED BY <2>1 DEF AenFrames
<1>5. AenFrames(h)
  <2>1. h.wq \in [Aen!Users -> Seq(Nat)]
    BY DEF AenFrames
  <2>2. h.gone \subseteq DOMAIN h.put
    BY <1>3, <1>4 DEF AenFrames
  <2> QED BY <2>1, <2>2 DEF AenFrames
<1>6. ASSUME NEW v \in Aen!Users, NEW i \in DOMAIN h.wq[v]
      PROVE  v # u
  BY <1>2
<1>7. AenKnown(h)
  BY <1>1, <1>2, <1>6 DEF AenOrder, AenKnown
<1>8. AenSorted(h)
  <2>1. \A e, e2 : Before(h, e, e2) <=> Before(g, e, e2)
    BY DEF Before
  <2> QED BY <1>1, <1>2, <1>6, <2>1 DEF AenOrder, AenSorted
<1>9. AenKept(h)
  <2>1. ASSUME NEW e \in DOMAIN g.put
        PROVE  e \notin h.gone <=> Has(h.sent, e) \/ InRing(h, e) \/ Has(h.wq[h.put[e]], e)
    <3>1. g.put[e] \in Aen!Users
      BY DEF AenFrames
    <3>2. e \notin g.gone <=> Has(g.sent, e) \/ InRing(g, e) \/ Has(g.wq[g.put[e]], e)
      BY DEF AenOrder, AenKept
    <3>3. (Has(h.sent, e) <=> Has(g.sent, e)) /\ (InRing(h, e) <=> InRing(g, e))
      BY <1>1 DEF InRing
    <3>4. CASE g.put[e] # u
      BY <1>2, <1>3, <1>4, <3>1, <3>2, <3>3, <3>4
    <3>5. CASE g.put[e] = u
      <4>1. Has(g.wq[u], e) => ~Has(g.sent, e) /\ ~InRing(g, e)
        <5>1. Has(g.wq[u], e) => e # 0
          BY <1>4 DEF AenFrames
        <5>2. ~Before(g, e, e)
          BY DEF Before, AenFrames
        <5>3. Has(g.wq[u], e) => ~Has(g.sent, e)
          BY <5>2 DEF Has, AenOrder, AenSorted
        <5>4. Has(g.wq[u], e) => ~InRing(g, e)
          BY <5>1, <5>2 DEF Has, InRing, AenOrder, AenSorted
        <5> QED BY <5>3, <5>4
      <4>2. ~Has(h.wq[u], e)
        BY <1>2 DEF Has
      <4> QED BY <1>3, <3>2, <3>3, <3>5, <4>1, <4>2
    <3> QED BY <3>4, <3>5
  <2> QED BY <2>1 DEF AenKept
<1> QED BY <1>5, <1>7, <1>8, <1>9 DEF AenOrder

\* setup_lance() loses what is in the ring.
LEMMA AenOrderSetup ==
  ASSUME NEW g, NEW h, AenAssumption, AenFrames(g), AenOrder(g),
         h.put = g.put, h.sent = g.sent, h.wq = g.wq,
         h.tx = [i \in AenSlots |-> 0], h.at = 0,
         h.gone = g.gone \cup ({g.tx[i] : i \in AenSlots} \ {0})
  PROVE  AenFrames(h) /\ AenOrder(h)
<1>1. /\ \A k \in AenSlots : AenNth(h, k) = 0
      /\ h.tx \in [AenSlots -> Nat] /\ h.at \in AenSlots
  <2>1. TxCount \in Nat \ {0}
    BY DEF AenAssumption
  <2>2. 0 \in AenSlots
    BY <2>1 DEF AenSlots
  <2>3. \A k \in AenSlots : AenSlot(0, k) \in AenSlots
    BY <2>2, AenSlots1
  <2> QED BY <2>2, <2>3 DEF AenNth
<1>2. \A e : e \in {g.tx[i] : i \in AenSlots} <=> InRing(g, e)
  <2>1. /\ \A k \in AenSlots : AenSlot(g.at, k) \in AenSlots
        /\ \A i \in AenSlots : \E k \in AenSlots : AenSlot(g.at, k) = i
    BY AenSlots1 DEF AenFrames
  <2> QED BY <2>1 DEF InRing, AenNth
<1>3. \A e : InRing(g, e) /\ e # 0 => e \in DOMAIN g.put
  BY DEF InRing, AenOrder, AenKnown
<1>4. AenFrames(h)
  <2>1. h.gone \subseteq DOMAIN h.put
    BY <1>2, <1>3 DEF AenFrames
  <2> QED BY <1>1, <2>1 DEF AenFrames
<1>5. AenKnown(h)
  BY <1>1 DEF AenOrder, AenKnown
<1>6. AenSorted(h)
  <2>1. \A e, e2 : Before(h, e, e2) <=> Before(g, e, e2)
    BY DEF Before
  <2> QED BY <1>1, <2>1 DEF AenOrder, AenSorted
<1>7. AenKept(h)
  <2>1. ASSUME NEW e \in DOMAIN g.put
        PROVE  e \notin h.gone <=> Has(h.sent, e) \/ InRing(h, e) \/ Has(h.wq[h.put[e]], e)
    <3>1. e \notin g.gone <=> Has(g.sent, e) \/ InRing(g, e) \/ Has(g.wq[g.put[e]], e)
      BY DEF AenOrder, AenKept
    <3>2. e # 0 /\ g.put[e] = g.put[e] /\ ~Before(g, e, e)
      BY DEF AenFrames, Before
    <3>3. InRing(g, e) => ~Has(g.sent, e)
      BY <3>2 DEF Has, InRing, AenOrder, AenSorted
    <3>4. InRing(g, e) => ~Has(g.wq[g.put[e]], e)
      <4>1. g.put[e] \in Aen!Users
        BY DEF AenFrames
      <4> QED BY <3>2, <4>1 DEF Has, InRing, AenOrder, AenSorted
    <3>5. ~InRing(h, e)
      BY <1>1, <3>2 DEF InRing
    <3> QED BY <1>2, <3>1, <3>2, <3>3, <3>4, <3>5
  <2> QED BY <2>1 DEF AenKept
<1> QED BY <1>4, <1>5, <1>6, <1>7 DEF AenOrder

\* What the parts of the invariant depend on.
BoardSame(g, h) ==
  /\ h.board_state = g.board_state /\ h.chip = g.chip /\ h.csr = g.csr
  /\ h.q = g.q /\ h.user = g.user /\ h.wiped = g.wiped
AskedSame(g, h) == h.ioc = g.ioc /\ h.answers = g.answers
RingSame(g, h) == h.tx = g.tx /\ h.txi = g.txi /\ h.at = g.at
PathSame(g, h) == h.wq = g.wq /\ h.put = g.put /\ h.sent = g.sent /\ h.gone = g.gone
IntrSame(g, h) == h.intr = g.intr /\ h.err = g.err /\ h.unstarted = g.unstarted /\ h.storm = g.storm

LEMMA AenBoardSame ==
  ASSUME NEW g, NEW h, AenBoardInv(g), BoardSame(g, h)
  PROVE  AenBoardInv(h)
  BY DEF AenBoardInv, AenWindow, BoardSame

LEMMA AenAnswersSame ==
  ASSUME NEW g, NEW h, AenAnswers(g), AskedSame(g, h)
  PROVE  AenAnswers(h)
  BY DEF AenAnswers, AskedSame

LEMMA AenRingSame ==
  ASSUME NEW g, NEW h, RingSame(g, h)
  PROVE  /\ AenRing(g) => AenRing(h)
         /\ \A k : AenNth(h, k) = AenNth(g, k)
         /\ AenOrder(g) /\ PathSame(g, h) => AenOrder(h)
<1>1. \A k : AenNth(h, k) = AenNth(g, k)
  BY DEF AenNth, RingSame
<1>2. AenRing(g) => AenRing(h)
  BY <1>1 DEF AenRing, RingSame
<1>3. AenOrder(g) /\ PathSame(g, h) => AenOrder(h)
  BY AenOrderSame DEF RingSame, PathSame
<1> QED BY <1>1, <1>2, <1>3

LEMMA AenMovingSame ==
  ASSUME NEW g, NEW h, AenMoving(g), RingSame(g, h), PathSame(g, h), IntrSame(g, h),
         h.csr = g.csr, h.q = g.q, h.user = g.user
  PROVE  AenMoving(h)
  BY DEF AenMoving, RingSame, PathSame, IntrSame

LEMMA AenTypedFrames ==
  ASSUME NEW g, AenTyped(g)
  PROVE  AenFrames(g)
  BY DEF AenTyped, AenFrames

\* AenXmit() puts a frame into the ring.
LEMMA AenXmitDoes ==
  ASSUME AenAssumption, NEW g, AenTyped(g), NEW f \in Nat, NEW h, h = Aen!AenXmit(g, f)
  PROVE  /\ AenTyped(h) /\ AenPut(g, h, f)
         /\ BoardSame(g, h) /\ AskedSame(g, h) /\ PathSame(g, h) /\ IntrSame(g, h)
<1>1. PICK n : n = (g.txi + 1) % TxCount
  OBVIOUS
<1>2. n \in AenSlots
  <2>1. g.txi \in AenSlots
    BY DEF AenTyped
  <2> QED BY <1>1, <2>1, AenSlotNext
<1>3. h = [g EXCEPT !.tx = [g.tx EXCEPT ![g.txi] = f], !.txi = n]
  BY <1>1 DEF Aen!AenXmit, AenTyped
<1>4. [g.tx EXCEPT ![g.txi] = f] \in [AenSlots -> Nat]
  BY DEF AenTyped
<1>5. AenTyped(h)
  BY <1>2, <1>3, <1>4 DEF AenTyped
<1>6. AenPut(g, h, f)
  BY <1>1, <1>3 DEF AenTyped, AenPut
<1>7. BoardSame(g, h) /\ AskedSame(g, h) /\ PathSame(g, h) /\ IntrSame(g, h)
  BY <1>3 DEF BoardSame, AskedSame, PathSame, IntrSame
<1> QED BY <1>5, <1>6, <1>7

\* Answer() answers the ioctl of u alone.
LEMMA AenAnswerDoes ==
  ASSUME NEW g, AenTyped(g), NEW u \in Aen!Users, NEW h, h = Aen!Answer(g, u)
  PROVE  /\ AenTyped(h)
         /\ h.ioc = [g.ioc EXCEPT ![u] = "none"]
         /\ h.answers[u] = g.answers[u] + 1 /\ \A v \in Aen!Users \ {u} : h.answers[v] = g.answers[v]
         /\ BoardSame(g, h) /\ RingSame(g, h) /\ PathSame(g, h) /\ IntrSame(g, h)
<1>1. h.ioc = [g.ioc EXCEPT ![u] = "none"] /\ h.answers = [g.answers EXCEPT ![u] = @ + 1]
  BY DEF Aen!Answer, AenTyped
<1>2. /\ BoardSame(g, h) /\ RingSame(g, h) /\ PathSame(g, h) /\ IntrSame(g, h)
      /\ DOMAIN h = DOMAIN g
  BY DEF Aen!Answer, BoardSame, RingSame, PathSame, IntrSame
<1>3. AenTyped(h)
  BY <1>1, <1>2 DEF AenTyped, BoardSame, RingSame, PathSame, IntrSame
<1>4. h.answers[u] = g.answers[u] + 1 /\ \A v \in Aen!Users \ {u} : h.answers[v] = g.answers[v]
  BY <1>1 DEF AenTyped
<1> QED BY <1>1, <1>2, <1>3, <1>4

\* SetupLance() starts the chip afresh.
LEMMA AenSetupDoes ==
  ASSUME AenAssumption, NEW g, AenTyped(g), AenOrder(g), NEW h, h = Aen!SetupLance(g)
  PROVE  /\ AenTyped(h) /\ AenOrder(h) /\ AenRing(h)
         /\ h.board_state = "IN_INIT_CODE" /\ h.chip = "init" /\ h.csr = {}
         /\ h.q = g.q /\ h.user = g.user /\ h.wiped = g.wiped /\ h.wq = g.wq
         /\ h.unstarted = (g.unstarted \/ \E u \in Aen!Users : g.wq[u] # <<>>)
         /\ AskedSame(g, h) /\ h.intr = g.intr /\ h.err = g.err /\ h.storm = g.storm
<1>1. /\ h.tx = [i \in AenSlots |-> 0] /\ h.txi = 0 /\ h.at = 0
      /\ h.board_state = "IN_INIT_CODE" /\ h.chip = "init" /\ h.csr = {}
      /\ h.unstarted = (g.unstarted \/ \E u \in Aen!Users : g.wq[u] # <<>>)
  BY DEF Aen!SetupLance, AenTyped
<1>2. h.gone = g.gone \cup ({g.tx[i] : i \in AenSlots} \ {0})
  BY DEF Aen!SetupLance, AenTyped
<1>3. /\ h.q = g.q /\ h.user = g.user /\ h.wiped = g.wiped /\ h.wq = g.wq
      /\ h.put = g.put /\ h.sent = g.sent
      /\ h.intr = g.intr /\ h.err = g.err /\ h.storm = g.storm
      /\ h.ioc = g.ioc /\ h.answers = g.answers /\ DOMAIN h = DOMAIN g
  BY DEF Aen!SetupLance, AenTyped
<1>4. AenFrames(h) /\ AenOrder(h)
  BY <1>1, <1>2, <1>3, AenTypedFrames, AenOrderSetup
<1>5. AenRing(h) /\ 0 \in AenSlots
  BY <1>1, AenRingEmpty
<1>6. AenTyped(h)
  BY <1>1, <1>3, <1>4, <1>5 DEF AenTyped, AenFrames
<1> QED BY <1>1, <1>3, <1>4, <1>5, <1>6 DEF AskedSame

-----------------------------------------------------------------------------
(* Its steps.                                                              *)

\* What a step from g to h must do.
AenStepOK(g, h) == AenInv(h) /\ (h.storm # g.storm => AenWindow(g))

LEMMA AenIntrStep ==
  ASSUME AenAssumption, AenInv(aen), Aen!AenIntr
  PROVE  AenStepOK(aen, aen')
<1>1. PICK g : g = aen
  OBVIOUS
<1>2. PICK h : h = aen'
  OBVIOUS
<1>3. AenTyped(g) /\ AenBoardInv(g) /\ AenAnswers(g) /\ AenMoving(g) /\ AenRing(g) /\ AenOrder(g)
  BY <1>1 DEF AenInv
<1>4. PICK s : s = [g EXCEPT !.csr = {}]
  OBVIOUS
<1>5. /\ DOMAIN s = DOMAIN g /\ s.csr = {} /\ s.board_state = g.board_state /\ s.chip = g.chip
      /\ s.q = g.q /\ s.user = g.user /\ s.wiped = g.wiped
      /\ AskedSame(g, s) /\ RingSame(g, s) /\ PathSame(g, s) /\ IntrSame(g, s)
  BY <1>3, <1>4 DEF AenTyped, AskedSame, RingSame, PathSame, IntrSame
<1>6. g.intr = 0 /\ g.csr # {} /\ g.csr \subseteq {"IDON", "TINT"}
  BY <1>1, <1>3 DEF Aen!AenIntr, AenTyped
<1>7. CASE g.board_state = "RUNNING"
  <2>1. g.csr = {"TINT"}
    BY <1>3, <1>6, <1>7 DEF AenBoardInv
  <2>2. PICK e \in BOOLEAN : h = [s EXCEPT !.intr = 1, !.err = e, !.unstarted = FALSE]
    BY <1>1, <1>2, <1>4, <1>7, <2>1 DEF Aen!AenIntr
  <2>3. /\ DOMAIN h = DOMAIN g /\ h.intr = 1 /\ h.err = e /\ h.unstarted = FALSE /\ h.storm = g.storm
        /\ h.csr = {} /\ h.board_state = g.board_state /\ h.chip = g.chip
        /\ h.q = g.q /\ h.user = g.user /\ h.wiped = g.wiped
        /\ AskedSame(g, h) /\ RingSame(g, h) /\ PathSame(g, h)
    BY <1>3, <1>5, <2>2 DEF AenTyped, AskedSame, RingSame, PathSame, IntrSame
  <2>4. AenTyped(h)
    <3>1. 1 \in 0 .. AenUsers + 1
      BY DEF AenAssumption
    <3> QED BY <1>3, <2>3, <3>1 DEF AenTyped, AskedSame, RingSame, PathSame
  <2>5. AenBoardInv(h)
    BY <1>3, <1>7, <2>3 DEF AenBoardInv, AenWindow
  <2>6. AenMoving(h)
    <3>1. \A v \in h.q : v >= 1
      BY <1>3, <2>3 DEF AenTyped, Aen!Users
    <3> QED BY <1>3, <2>3, <3>1 DEF AenMoving, PathSame
  <2>7. AenAnswers(h) /\ AenRing(h) /\ AenOrder(h)
    BY <1>3, <2>3, AenAnswersSame, AenRingSame
  <2> QED BY <1>1, <1>2, <2>3, <2>4, <2>5, <2>6, <2>7 DEF AenStepOK, AenInv
<1>8. CASE g.board_state = "IN_INIT_CODE"
  <2>1. g.csr = {"IDON"} /\ g.chip = "ready"
    BY <1>3, <1>6, <1>8 DEF AenBoardInv
  <2>2. h = [s EXCEPT !.board_state = "RUNNING",
                      !.user = [u \in Aen!Users |-> CASE s.user[u] = "sleep"  -> "woken"
                                             [] s.user[u] = "csleep" -> "cwoken"
                                             [] OTHER           -> s.user[u]]]
    BY <1>1, <1>2, <1>4, <1>8, <2>1 DEF Aen!AenIntr, Aen!InitializeAndGo
  <2>3. PICK w : w = [u \in Aen!Users |-> CASE g.user[u] = "sleep"  -> "woken"
                                             [] g.user[u] = "csleep" -> "cwoken"
                                             [] OTHER           -> g.user[u]]
    OBVIOUS
  <2>4. /\ DOMAIN h = DOMAIN g /\ h.board_state = "RUNNING" /\ h.user = w
        /\ h.csr = {} /\ h.chip = g.chip /\ h.q = g.q /\ h.wiped = g.wiped
        /\ AskedSame(g, h) /\ RingSame(g, h) /\ PathSame(g, h) /\ IntrSame(g, h)
    <3>1. h = [s EXCEPT !.board_state = "RUNNING", !.user = w]
      BY <1>5, <2>2, <2>3
    <3> QED BY <1>3, <1>5, <3>1 DEF AenTyped, AskedSame, RingSame, PathSame, IntrSame
  <2>5. \A u \in Aen!Users :
          /\ g.user[u] = "sleep" => w[u] = "woken"
          /\ g.user[u] = "csleep" => w[u] = "cwoken"
          /\ g.user[u] \notin {"sleep", "csleep"} => w[u] = g.user[u]
    BY <2>3
  <2>6. AenTyped(h)
    <3>1. w \in [Aen!Users -> {"shut", "reset", "sleep", "woken", "open", "halt",
                               "csleep", "cwoken"}]
      BY <1>3, <2>3 DEF AenTyped
    <3> QED BY <1>3, <2>4, <3>1 DEF AenTyped, AskedSame, RingSame, PathSame, IntrSame
  <2>7. AenBoardInv(h)
    <3>1. \A u \in Aen!Users : g.user[u] \notin {"halt", "reset"}
      BY <1>3, <1>8 DEF AenBoardInv, AenWindow
    <3>2. \A u \in Aen!Users : w[u] \notin {"halt", "reset"}
      BY <2>5, <3>1
    <3>3. \E u \in Aen!Users : w[u] \in {"woken", "cwoken"}
      BY <1>3, <1>8, <2>5 DEF AenBoardInv
    <3>4. \A u \in h.q : h.user[u] \in {"open", "csleep", "cwoken"}
      BY <1>3, <2>4, <2>5 DEF AenBoardInv, AenTyped
    <3>5. ~h.wiped => \A u \in Aen!Users : h.user[u] \in {"open", "csleep", "cwoken"} => u \in h.q
      <4>1. \A u \in Aen!Users : w[u] \in {"open", "csleep", "cwoken"}
                                  => g.user[u] \in {"open", "csleep", "cwoken"}
        BY <2>5
      <4> QED BY <1>3, <2>4, <4>1 DEF AenBoardInv
    <3> QED BY <1>8, <2>1, <2>4, <3>2, <3>3, <3>4, <3>5 DEF AenBoardInv, AenWindow
  <2>8. AenMoving(h)
    <3>1. \A u \in Aen!Users : w[u] \in {"shut", "reset", "sleep", "woken", "halt"}
                                 => g.user[u] \in {"shut", "reset", "sleep", "woken", "halt"}
      BY <2>5
    <3> QED BY <1>3, <1>6, <2>1, <2>4, <3>1 DEF AenMoving, RingSame, PathSame, IntrSame
  <2>9. AenAnswers(h) /\ AenRing(h) /\ AenOrder(h)
    BY <1>3, <2>4, AenAnswersSame, AenRingSame
  <2> QED BY <1>1, <1>2, <2>4, <2>6, <2>7, <2>8, <2>9 DEF AenStepOK, AenInv, IntrSame
<1>9. CASE g.board_state = "RESET"
  <2>1. h = [g EXCEPT !.storm = TRUE]
    BY <1>1, <1>2, <1>4, <1>9 DEF Aen!AenIntr
  <2>2. /\ DOMAIN h = DOMAIN g /\ h.storm = TRUE /\ h.intr = g.intr /\ h.err = g.err
        /\ h.unstarted = g.unstarted
        /\ BoardSame(g, h) /\ AskedSame(g, h) /\ RingSame(g, h) /\ PathSame(g, h)
    BY <1>3, <2>1 DEF AenTyped, BoardSame, AskedSame, RingSame, PathSame
  <2>3. AenTyped(h)
    BY <1>3, <2>2 DEF AenTyped, BoardSame, AskedSame, RingSame, PathSame
  <2>4. AenMoving(h)
    BY <1>3, <2>2 DEF AenMoving, BoardSame, RingSame, PathSame
  <2>5. AenBoardInv(h) /\ AenAnswers(h) /\ AenRing(h) /\ AenOrder(h)
    BY <1>3, <2>2, AenBoardSame, AenAnswersSame, AenRingSame
  <2>6. AenWindow(g)
    BY <1>3, <1>6, <1>9 DEF AenBoardInv
  <2> QED BY <1>1, <1>2, <2>3, <2>4, <2>5, <2>6 DEF AenStepOK, AenInv
<1> QED BY <1>3, <1>7, <1>8, <1>9 DEF AenTyped

LEMMA AenIntrEndStep ==
  ASSUME AenAssumption, AenInv(aen), Aen!AenIntrEnd
  PROVE  AenStepOK(aen, aen')
<1>1. PICK g : g = aen
  OBVIOUS
<1>2. PICK h : h = aen'
  OBVIOUS
<1>3. AenTyped(g) /\ AenBoardInv(g) /\ AenAnswers(g) /\ AenMoving(g) /\ AenRing(g) /\ AenOrder(g)
  BY <1>1 DEF AenInv
<1>4. PICK c : c = IF g.err THEN g.csr \ {"TINT"} ELSE g.csr
  OBVIOUS
<1>5. PICK x : x = (g.unstarted \/ (g.err /\ "TINT" \in g.csr))
  OBVIOUS
<1>6. h = [g EXCEPT !.intr = 0, !.csr = c, !.unstarted = x]
  BY <1>1, <1>2, <1>3, <1>4, <1>5 DEF Aen!AenIntrEnd, AenTyped
<1>7. /\ DOMAIN h = DOMAIN g /\ h.intr = 0 /\ h.csr = c /\ h.unstarted = x
      /\ h.err = g.err /\ h.storm = g.storm
      /\ h.board_state = g.board_state /\ h.chip = g.chip
      /\ h.q = g.q /\ h.user = g.user /\ h.wiped = g.wiped
      /\ AskedSame(g, h) /\ RingSame(g, h) /\ PathSame(g, h)
  BY <1>3, <1>6 DEF AenTyped, AskedSame, RingSame, PathSame
<1>8. c \subseteq g.csr /\ x \in BOOLEAN /\ ("IDON" \in g.csr => "IDON" \in c)
  BY <1>3, <1>4, <1>5 DEF AenTyped
<1>9. AenTyped(h)
  <2>1. 0 \in 0 .. AenUsers + 1
    BY DEF AenAssumption
  <2>2. c \subseteq {"IDON", "TINT"}
    BY <1>3, <1>8 DEF AenTyped
  <2> QED BY <1>3, <1>7, <1>8, <2>1, <2>2 DEF AenTyped, AskedSame, RingSame, PathSame
<1>10. AenBoardInv(h)
  BY <1>3, <1>7, <1>8 DEF AenBoardInv, AenWindow
<1>11. AenMoving(h)
  <2>1. ASSUME ~x, NEW u \in g.q, g.wq[u] # <<>>
        PROVE  "TINT" \in c \/ \E i \in AenSlots : g.tx[i] # 0
    <3>1. ~g.unstarted /\ ("TINT" \in g.csr => "TINT" \in c)
      BY <1>3, <1>4, <1>5, <2>1 DEF AenTyped
    <3>2. \A v \in g.q : ~(v >= g.intr)
      <4>1. g.intr = AenUsers + 1
        BY <1>1 DEF Aen!AenIntrEnd
      <4>2. \A v \in g.q : v \in 1 .. AenUsers
        BY <1>3 DEF AenTyped, Aen!Users
      <4> QED BY <4>1, <4>2 DEF AenAssumption
    <3> QED BY <1>3, <2>1, <3>1, <3>2 DEF AenMoving
  <2> QED BY <1>3, <1>7, <2>1 DEF AenMoving, RingSame, PathSame
<1>12. AenAnswers(h) /\ AenRing(h) /\ AenOrder(h)
  BY <1>3, <1>7, AenAnswersSame, AenRingSame
<1> QED BY <1>1, <1>2, <1>7, <1>9, <1>10, <1>11, <1>12 DEF AenStepOK, AenInv

LEMMA AenLanceInitStep ==
  ASSUME AenAssumption, AenInv(aen), Aen!LanceInit
  PROVE  AenStepOK(aen, aen')
<1>1. PICK g : g = aen
  OBVIOUS
<1>2. PICK h : h = aen'
  OBVIOUS
<1>3. AenTyped(g) /\ AenBoardInv(g) /\ AenAnswers(g) /\ AenMoving(g) /\ AenRing(g) /\ AenOrder(g)
  BY <1>1 DEF AenInv
<1>4. g.chip = "init" /\ h = [g EXCEPT !.chip = "ready", !.csr = {"IDON"}]
  BY <1>1, <1>2 DEF Aen!LanceInit
<1>5. /\ DOMAIN h = DOMAIN g /\ h.chip = "ready" /\ h.csr = {"IDON"}
      /\ h.board_state = g.board_state /\ h.q = g.q /\ h.user = g.user /\ h.wiped = g.wiped
      /\ AskedSame(g, h) /\ RingSame(g, h) /\ PathSame(g, h) /\ IntrSame(g, h)
  BY <1>3, <1>4 DEF AenTyped, AskedSame, RingSame, PathSame, IntrSame
<1>6. AenTyped(h)
  BY <1>3, <1>5 DEF AenTyped, AskedSame, RingSame, PathSame, IntrSame
<1>7. AenBoardInv(h)
  BY <1>3, <1>4, <1>5 DEF AenBoardInv, AenWindow
<1>8. AenMoving(h)
  <2>1. g.csr = {}
    BY <1>3, <1>4 DEF AenBoardInv
  <2> QED BY <1>3, <1>5, <2>1 DEF AenMoving, RingSame, PathSame, IntrSame
<1>9. AenAnswers(h) /\ AenRing(h) /\ AenOrder(h)
  BY <1>3, <1>5, AenAnswersSame, AenRingSame
<1> QED BY <1>1, <1>2, <1>5, <1>6, <1>7, <1>8, <1>9 DEF AenStepOK, AenInv, IntrSame

LEMMA AenLanceSendStep ==
  ASSUME AenAssumption, AenInv(aen), Aen!LanceSend
  PROVE  AenStepOK(aen, aen')
<1>1. PICK g : g = aen
  OBVIOUS
<1>2. PICK h : h = aen'
  OBVIOUS
<1>3. AenTyped(g) /\ AenBoardInv(g) /\ AenAnswers(g) /\ AenMoving(g) /\ AenRing(g) /\ AenOrder(g)
  BY <1>1 DEF AenInv
<1>4. g.chip = "on" /\ g.tx[g.at] # 0
  BY <1>1 DEF Aen!LanceSend
<1>5. PICK n : n = (g.at + 1) % TxCount
  OBVIOUS
<1>6. PICK t : t = [g.tx EXCEPT ![g.at] = 0]
  OBVIOUS
<1>7. PICK c : c = g.csr \cup {"TINT"}
  OBVIOUS
<1>8. PICK z : z = Append(g.sent, g.tx[g.at])
  OBVIOUS
<1>9. h = [g EXCEPT !.sent = z, !.tx = t, !.at = n, !.csr = c]
  BY <1>1, <1>2, <1>3, <1>5, <1>6, <1>7, <1>8 DEF Aen!LanceSend, AenTyped
<1>10. /\ DOMAIN h = DOMAIN g /\ h.sent = z /\ h.tx = t /\ h.at = n /\ h.csr = c
       /\ h.txi = g.txi /\ h.wq = g.wq /\ h.put = g.put /\ h.gone = g.gone
       /\ h.board_state = g.board_state /\ h.chip = g.chip
       /\ h.q = g.q /\ h.user = g.user /\ h.wiped = g.wiped
       /\ AskedSame(g, h) /\ IntrSame(g, h)
  BY <1>3, <1>9 DEF AenTyped, AskedSame, IntrSame
<1>11. /\ AenRing(h) /\ h.at \in AenSlots /\ h.tx \in [AenSlots -> Nat]
       /\ AenNth(g, 0) = g.tx[g.at] /\ 0 \in AenSlots
       /\ \A k \in AenSlots : AenNth(h, k) = IF k + 1 \in AenSlots THEN AenNth(g, k + 1) ELSE 0
  <2>1. g.tx \in [AenSlots -> Nat] /\ g.at \in AenSlots
    BY <1>3 DEF AenTyped
  <2>2. h.tx = [g.tx EXCEPT ![g.at] = 0] /\ h.at = (g.at + 1) % TxCount /\ h.txi = g.txi
    BY <1>5, <1>6, <1>10
  <2> QED BY <1>3, <1>4, <2>1, <2>2, AenRingSent
<1>12. AenFrames(h) /\ AenOrder(h)
  BY <1>3, <1>4, <1>8, <1>10, <1>11, AenTypedFrames, AenOrderSent DEF AenAssumption
<1>13. AenTyped(h)
  <2>1. c \subseteq {"IDON", "TINT"}
    BY <1>3, <1>7 DEF AenTyped
  <2> QED BY <1>3, <1>10, <1>12, <2>1 DEF AenTyped, AenFrames, AskedSame, IntrSame
<1>14. AenBoardInv(h)
  BY <1>3, <1>4, <1>7, <1>10 DEF AenBoardInv, AenWindow
<1>15. AenMoving(h)
  BY <1>3, <1>7, <1>10 DEF AenMoving
<1>16. AenAnswers(h)
  BY <1>3, <1>10, AenAnswersSame
<1> QED BY <1>1, <1>2, <1>10, <1>11, <1>12, <1>13, <1>14, <1>15, <1>16 DEF AenStepOK, AenInv, IntrSame

LEMMA AenTransmitNextStep ==
  ASSUME AenAssumption, AenInv(aen), Aen!TransmitNext
  PROVE  AenStepOK(aen, aen')
<1>1. PICK g : g = aen
  OBVIOUS
<1>2. PICK h : h = aen'
  OBVIOUS
<1>3. AenTyped(g) /\ AenBoardInv(g) /\ AenAnswers(g) /\ AenMoving(g) /\ AenRing(g) /\ AenOrder(g)
  BY <1>1 DEF AenInv
<1>4. PICK u \in Aen!Users : u = g.intr
  BY <1>1 DEF Aen!TransmitNext
<1>5. u \in 1 .. AenUsers /\ u + 1 \in 0 .. AenUsers + 1 /\ AenUsers + 1 \in 0 .. AenUsers + 1
  BY <1>4 DEF Aen!Users, AenAssumption
\* The slot alone changes.
<1>6. ASSUME NEW n \in 0 .. AenUsers + 1, h = [g EXCEPT !.intr = n]
      PROVE  /\ AenTyped(h) /\ AenBoardInv(h) /\ AenAnswers(h) /\ AenRing(h) /\ AenOrder(h)
             /\ h.storm = g.storm /\ h.intr = n /\ h.unstarted = g.unstarted
             /\ h.csr = g.csr /\ h.q = g.q /\ h.user = g.user
             /\ RingSame(g, h) /\ PathSame(g, h)
  <2>1. /\ DOMAIN h = DOMAIN g /\ h.intr = n /\ h.err = g.err /\ h.storm = g.storm
        /\ h.unstarted = g.unstarted
        /\ BoardSame(g, h) /\ AskedSame(g, h) /\ RingSame(g, h) /\ PathSame(g, h)
    BY <1>3, <1>6 DEF AenTyped, BoardSame, AskedSame, RingSame, PathSame
  <2>2. AenTyped(h)
    BY <1>3, <2>1 DEF AenTyped, BoardSame, AskedSame, RingSame, PathSame
  <2>3. AenBoardInv(h) /\ AenAnswers(h) /\ AenRing(h) /\ AenOrder(h)
    BY <1>3, <2>1, AenBoardSame, AenAnswersSame, AenRingSame
  <2> QED BY <2>1, <2>2, <2>3 DEF BoardSame
<1>7. CASE u \notin g.q \/ g.wq[u] = <<>>
  <2>1. h = [g EXCEPT !.intr = u + 1]
    BY <1>1, <1>2, <1>4, <1>7 DEF Aen!TransmitNext
  <2>2. AenMoving(h)
    <3>1. \A v \in g.q : v >= u /\ g.wq[v] # <<>> => v >= u + 1
      <4>1. \A v \in g.q : v \in 1 .. AenUsers
        BY <1>3 DEF AenTyped, Aen!Users
      <4> QED BY <1>5, <1>7, <4>1 DEF AenAssumption
    <3>2. u # 0 /\ u + 1 # 0
      BY <1>5
    <3>3. /\ h.intr = u + 1 /\ h.unstarted = g.unstarted
          /\ h.csr = g.csr /\ h.q = g.q /\ h.user = g.user /\ RingSame(g, h) /\ PathSame(g, h)
      BY <1>5, <1>6, <2>1
    <3> QED BY <1>3, <1>4, <3>1, <3>2, <3>3 DEF AenMoving, RingSame, PathSame
  <2> QED BY <1>1, <1>2, <1>5, <1>6, <2>1, <2>2 DEF AenStepOK, AenInv
<1>8. CASE u \in g.q /\ g.wq[u] # <<>> /\ g.tx[g.txi] # 0
  <2>1. h = [g EXCEPT !.intr = AenUsers + 1]
    BY <1>1, <1>2, <1>4, <1>8 DEF Aen!TransmitNext
  <2>2. AenMoving(h)
    <3>1. /\ h.user = g.user /\ RingSame(g, h) /\ PathSame(g, h)
      BY <1>5, <1>6, <2>1
    <3>2. \E i \in AenSlots : h.tx[i] # 0
      BY <1>3, <1>8, <3>1 DEF AenTyped, RingSame
    <3> QED BY <1>3, <3>1, <3>2 DEF AenMoving, PathSame
  <2> QED BY <1>1, <1>2, <1>5, <1>6, <2>1, <2>2 DEF AenStepOK, AenInv
<1>9. CASE u \in g.q /\ g.wq[u] # <<>> /\ g.tx[g.txi] = 0
  <2>1. PICK f : f = Head(g.wq[u])
    OBVIOUS
  <2>2. PICK w : w = [g.wq EXCEPT ![u] = Tail(g.wq[u])]
    OBVIOUS
  <2>3. PICK s : s = [g EXCEPT !.wq = w]
    OBVIOUS
  <2>4. PICK x : x = Aen!AenXmit(s, f)
    OBVIOUS
  <2>5. h = [x EXCEPT !.intr = u + 1]
    <3>1. [g EXCEPT !.wq[u] = Tail(g.wq[u])] = s
      BY <1>3, <2>2, <2>3 DEF AenTyped
    <3>2. h = [Aen!AenXmit([g EXCEPT !.wq[u] = Tail(g.wq[u])], Head(g.wq[u])) EXCEPT !.intr = u + 1]
      BY <1>1, <1>2, <1>4, <1>9 DEF Aen!TransmitNext
    <3> QED BY <2>1, <2>4, <3>1, <3>2
  <2>6. Shorter(w[u], g.wq[u])
    <3>1. g.wq[u] \in Seq(Nat) /\ w[u] = Tail(g.wq[u])
      BY <1>3, <2>2 DEF AenTyped
    <3> QED BY <1>9, <3>1, TailOf
  <2>7. f \in DOMAIN g.put /\ f \in Nat \ {0} /\ w \in [Aen!Users -> Seq(Nat)]
    <3>1. f \in DOMAIN g.put
      BY <2>1, <2>6, <1>3, SMTT(30) DEF Shorter, AenOrder, AenKnown
    <3>2. w \in [Aen!Users -> Seq(Nat)]
      BY <1>3, <2>2, <2>6 DEF Shorter, AenTyped
    <3>3. g.put \in Seq(Aen!Users)
      BY <1>3, ZenonT(30) DEF AenTyped
    <3>4. f \in Nat \ {0}
      <4> HIDE DEF Aen!Users
      <4> QED BY <3>1, <3>3
    <3> QED BY <3>1, <3>2, <3>4
  <2>8. /\ DOMAIN s = DOMAIN g /\ s.wq = w /\ s.put = g.put /\ s.sent = g.sent /\ s.gone = g.gone
        /\ BoardSame(g, s) /\ AskedSame(g, s) /\ RingSame(g, s) /\ IntrSame(g, s)
    BY <1>3, <2>3 DEF AenTyped, BoardSame, AskedSame, RingSame, IntrSame
  <2>9. AenTyped(s)
    BY <1>3, <2>7, <2>8 DEF AenTyped, BoardSame, AskedSame, RingSame, IntrSame
  <2>10. /\ AenTyped(x) /\ AenPut(s, x, f)
         /\ BoardSame(s, x) /\ AskedSame(s, x) /\ PathSame(s, x) /\ IntrSame(s, x)
    <3>1. f \in Nat
      BY <2>7
    <3> QED BY ONLY AenAssumption, <3>1, <2>4, <2>9, AenXmitDoes
  <2>11. /\ DOMAIN h = DOMAIN x /\ h.intr = u + 1 /\ h.err = x.err /\ h.storm = x.storm
         /\ h.unstarted = x.unstarted
         /\ BoardSame(x, h) /\ AskedSame(x, h) /\ RingSame(x, h) /\ PathSame(x, h)
    BY <2>5, <2>10 DEF AenTyped, BoardSame, AskedSame, RingSame, PathSame
  <2>12. AenTyped(h)
    BY <1>5, <2>10, <2>11, SMTT(30) DEF AenTyped, BoardSame, AskedSame, RingSame, PathSame
  <2>13. BoardSame(g, h) /\ AskedSame(g, h)
    BY <2>8, <2>10, <2>11 DEF BoardSame, AskedSame
  <2>14. /\ h.tx = [g.tx EXCEPT ![g.txi] = f] /\ h.txi = (g.txi + 1) % TxCount /\ h.at = g.at
         /\ h.put = g.put /\ h.sent = g.sent /\ h.gone = g.gone /\ h.wq = w
    BY <2>8, <2>10, <2>11 DEF RingSame, PathSame, AenPut
  <2>15. /\ AenRing(h)
         /\ \E n \in AenSlots : AenPlaced(g, h, f, n)
         /\ h.tx \in [AenSlots -> Nat] /\ h.txi \in AenSlots
    <3>1. AenPut(g, h, f)
      BY <2>14 DEF AenPut
    <3>2. AenRing(g) /\ AenTyped(g) /\ g.tx[g.txi] = 0 /\ f \in Nat \ {0}
      BY <1>3, <1>9, <2>7
    <3> QED BY ONLY AenAssumption, <3>1, <3>2, AenRingPut
  <2>16. PICK n \in AenSlots :
              /\ AenNth(h, n) = f /\ \A k \in AenSlots \ {n} : AenNth(h, k) = AenNth(g, k)
              /\ AenNth(g, n) = 0 /\ \A k \in AenSlots : k > n => AenNth(h, k) = 0
    BY <2>15 DEF AenPlaced
  <2>17. AenOrder(h)
    <3>1. AenFrames(g) /\ TxCount \in Nat /\ h.at \in AenSlots
      BY <1>3, <2>14, AenTypedFrames DEF AenTyped, AenAssumption
    <3>2. AenNth(h, n) = Head(g.wq[u]) /\ h.wq = [g.wq EXCEPT ![u] = Tail(g.wq[u])]
      BY <2>1, <2>2, <2>14, <2>16
    <3>3. AenOrder(g) /\ g.wq[u] # <<>> /\ h.tx \in [AenSlots -> Nat]
      BY <1>3, <1>9, <2>15
    <3>4. h.put = g.put /\ h.sent = g.sent /\ h.gone = g.gone
      BY <2>14
    <3> QED BY <2>16, <3>1, <3>2, <3>3, <3>4, AenOrderHead
  <2>18. AenMoving(h)
    <3>1. \E i \in AenSlots : h.tx[i] # 0
      BY <1>3, <2>7, <2>14 DEF AenTyped
    <3>2. \A v \in Aen!Users : g.wq[v] = <<>> => h.wq[v] = <<>>
      BY <1>3, <1>9, <2>2, <2>14 DEF AenTyped
    <3>3. h.user = g.user
      BY <2>13 DEF BoardSame
    <3> QED BY <1>3, <3>1, <3>2, <3>3 DEF AenMoving
  <2>19. AenBoardInv(h) /\ AenAnswers(h)
    BY <1>3, <2>13, AenBoardSame, AenAnswersSame
  <2>20. h.storm = g.storm
    BY <2>8, <2>10, <2>11 DEF IntrSame
  <2> QED BY <1>1, <1>2, <2>12, <2>15, <2>17, <2>18, <2>19, <2>20 DEF AenStepOK, AenInv
<1> QED BY <1>7, <1>8, <1>9

\* A process runs.
Runs(g, u) ==
  g.intr = 0 /\ \A v \in Aen!Users \ {u} : g.user[v] \notin {"reset", "halt"}

LEMMA AenUnitDataStep ==
  ASSUME AenAssumption, AenInv(aen), NEW u \in Aen!Users, Aen!UnitData(u)
  PROVE  AenStepOK(aen, aen')
<1>1. PICK g : g = aen
  OBVIOUS
<1>2. PICK h : h = aen'
  OBVIOUS
<1>3. AenTyped(g) /\ AenBoardInv(g) /\ AenAnswers(g) /\ AenMoving(g) /\ AenRing(g) /\ AenOrder(g)
  BY <1>1 DEF AenInv
<1>4. PICK f : f = Len(g.put) + 1
  OBVIOUS
<1>5. PICK p : p = Append(g.put, u)
  OBVIOUS
<1>6. PICK s : s = [g EXCEPT !.put = p]
  OBVIOUS
<1>7. /\ p \in Seq(Aen!Users) /\ DOMAIN p = DOMAIN g.put \cup {f} /\ f \in Nat \ {0}
  <2>1. g.put \in Seq(Aen!Users)
    BY <1>3 DEF AenTyped
  <2> QED BY <1>4, <1>5, <2>1
<1>8. /\ DOMAIN s = DOMAIN g /\ s.put = p /\ s.wq = g.wq /\ s.sent = g.sent /\ s.gone = g.gone
      /\ BoardSame(g, s) /\ AskedSame(g, s) /\ RingSame(g, s) /\ IntrSame(g, s)
  BY <1>3, <1>6 DEF AenTyped, BoardSame, AskedSame, RingSame, IntrSame
<1>9. AenTyped(s)
  BY <1>3, <1>7, <1>8 DEF AenTyped, BoardSame, AskedSame, RingSame, IntrSame
<1>10. CASE g.wq[u] # <<>> \/ g.tx[g.txi] # 0
  <2>1. PICK w : w = [g.wq EXCEPT ![u] = Append(g.wq[u], f)]
    OBVIOUS
  <2>2. h = [s EXCEPT !.wq = w]
    <3>1. h = [[g EXCEPT !.put = Append(g.put, u)] EXCEPT !.wq[u] = Append(g.wq[u], f)]
      BY <1>1, <1>2, <1>3, <1>4, <1>10 DEF Aen!UnitData, AenTyped
    <3> QED BY <1>5, <1>6, <1>9, <2>1, <3>1 DEF AenTyped
  <2>3. /\ DOMAIN h = DOMAIN s /\ h.wq = w /\ h.put = s.put /\ h.sent = s.sent /\ h.gone = s.gone
        /\ BoardSame(s, h) /\ AskedSame(s, h) /\ RingSame(s, h) /\ IntrSame(s, h)
    BY <1>9, <2>2 DEF AenTyped, BoardSame, AskedSame, RingSame, IntrSame
  <2>4. /\ h.wq = w /\ h.put = p /\ h.sent = g.sent /\ h.gone = g.gone
        /\ BoardSame(g, h) /\ AskedSame(g, h) /\ RingSame(g, h) /\ IntrSame(g, h)
    BY <1>8, <2>3 DEF BoardSame, AskedSame, RingSame, IntrSame
  <2>5. AenFrames(h) /\ AenOrder(h)
    <3>1. /\ h.put = Append(g.put, u) /\ h.wq = [g.wq EXCEPT ![u] = Append(g.wq[u], Len(g.put) + 1)]
          /\ h.tx = g.tx /\ h.at = g.at /\ AenFrames(g)
      BY <1>3, <1>4, <1>5, <2>1, <2>4, AenTypedFrames DEF RingSame
    <3> QED BY <1>3, <2>4, <3>1, AenOrderQueue
  <2>6. AenTyped(h)
    BY <1>9, <2>3, <2>5 DEF AenTyped, AenFrames, BoardSame, AskedSame, RingSame, IntrSame
  <2>7. AenMoving(h)
    <3>1. w[u] # <<>> /\ \A v \in Aen!Users \ {u} : w[v] = g.wq[v]
      <4>1. g.wq[u] \in Seq(Nat) /\ w[u] = Append(g.wq[u], f)
        BY <1>3, <2>1 DEF AenTyped
      <4>2. Longer(w[u], g.wq[u], f)
        BY <1>7, <4>1, AppendOf
      <4>3. w[u] # <<>>
        BY <4>2 DEF Longer
      <4> QED BY <1>3, <2>1, <4>3 DEF AenTyped
    <3>2. g.user[u] = "open"
      BY <1>1 DEF Aen!UnitData
    <3>3. CASE g.tx[g.txi] # 0
      <4>1. \E i \in AenSlots : h.tx[i] # 0
        BY <1>3, <2>4, <3>3 DEF AenTyped, RingSame
      <4> QED BY <1>3, <2>4, <3>1, <3>2, <4>1 DEF AenMoving, BoardSame
    <3>4. CASE g.wq[u] # <<>>
      <4>1. \A v \in Aen!Users : h.wq[v] # <<>> <=> g.wq[v] # <<>>
        BY <2>4, <3>1, <3>4
      <4>2. g.q \subseteq Aen!Users
        BY <1>3 DEF AenTyped
      <4> QED BY <1>3, <2>4, <3>2, <3>4, <4>1, <4>2 DEF AenMoving, BoardSame, RingSame, IntrSame
    <3> QED BY <1>10, <3>3, <3>4
  <2>8. AenBoardInv(h) /\ AenAnswers(h) /\ AenRing(h)
    BY <1>3, <2>4, AenBoardSame, AenAnswersSame, AenRingSame
  <2> QED BY <1>1, <1>2, <2>4, <2>5, <2>6, <2>7, <2>8 DEF AenStepOK, AenInv, IntrSame
<1>11. CASE g.wq[u] = <<>> /\ g.tx[g.txi] = 0
  <2>1. h = Aen!AenXmit(s, f)
    BY <1>1, <1>2, <1>4, <1>5, <1>6, <1>11 DEF Aen!UnitData
  <2>2. /\ AenTyped(h) /\ AenPut(s, h, f)
        /\ BoardSame(s, h) /\ AskedSame(s, h) /\ PathSame(s, h) /\ IntrSame(s, h)
    <3>1. f \in Nat
      BY <1>7
    <3> QED BY ONLY AenAssumption, <3>1, <1>9, <2>1, AenXmitDoes
  <2>3. /\ h.tx = [g.tx EXCEPT ![g.txi] = f] /\ h.txi = (g.txi + 1) % TxCount /\ h.at = g.at
        /\ h.wq = g.wq /\ h.put = p /\ h.sent = g.sent /\ h.gone = g.gone
        /\ BoardSame(g, h) /\ AskedSame(g, h) /\ IntrSame(g, h)
    BY <1>8, <2>2 DEF BoardSame, AskedSame, RingSame, PathSame, IntrSame, AenPut
  <2>4. /\ AenRing(h)
         /\ \E n \in AenSlots : AenPlaced(g, h, f, n)
         /\ h.tx \in [AenSlots -> Nat] /\ h.txi \in AenSlots
    <3>1. AenPut(g, h, f)
      BY <2>3 DEF AenPut
    <3>2. AenRing(g) /\ AenTyped(g) /\ g.tx[g.txi] = 0 /\ f \in Nat \ {0}
      BY <1>3, <1>7, <1>11
    <3> QED BY ONLY AenAssumption, <3>1, <3>2, AenRingPut
  <2>5. PICK n \in AenSlots :
              /\ AenNth(h, n) = f /\ \A k \in AenSlots \ {n} : AenNth(h, k) = AenNth(g, k)
              /\ AenNth(g, n) = 0 /\ \A k \in AenSlots : k > n => AenNth(h, k) = 0
    BY <2>4 DEF AenPlaced
  <2>6. AenOrder(h)
    <3>1. AenFrames(g) /\ TxCount \in Nat /\ h.at \in AenSlots
      BY <1>3, <2>3, AenTypedFrames DEF AenTyped, AenAssumption
    <3>2. AenNth(h, n) = Len(g.put) + 1 /\ h.put = Append(g.put, u)
      BY <1>4, <1>5, <2>3, <2>5
    <3> QED BY <1>3, <1>11, <2>3, <2>4, <2>5, <3>1, <3>2, AenOrderNew
  <2>7. AenMoving(h)
    <3>1. \E i \in AenSlots : h.tx[i] # 0
      BY <1>3, <1>7, <2>3 DEF AenTyped
    <3> QED BY <1>3, <2>3, <3>1 DEF AenMoving, BoardSame
  <2>8. AenBoardInv(h) /\ AenAnswers(h)
    BY <1>3, <2>3, AenBoardSame, AenAnswersSame
  <2> QED BY <1>1, <1>2, <2>2, <2>3, <2>4, <2>6, <2>7, <2>8 DEF AenStepOK, AenInv, IntrSame
<1> QED BY <1>10, <1>11

\* An opener or AEN_SET_CONFIG starts the chip and sleeps.
LEMMA AenSleeps ==
  ASSUME AenAssumption, NEW g, AenTyped(g), AenBoardInv(g), AenRing(g), AenOrder(g), AenMoving(g),
         NEW u \in Aen!Users, Runs(g, u),
         NEW n, \/ g.user[u] = "reset" /\ n = "sleep"
                \/ g.user[u] = "open" /\ n = "csleep",
         NEW s, s = Aen!SetupLance(g), NEW h, DOMAIN h = DOMAIN s,
         h.user = [s.user EXCEPT ![u] = n],
         h.board_state = s.board_state, h.chip = s.chip, h.csr = s.csr, h.q = s.q, h.wiped = s.wiped,
         AenAnswers(h), h.ioc \in [Aen!Users -> {"none", "copyin", "copyout", "set"}],
         h.answers \in [Aen!Users -> Nat],
         RingSame(s, h), PathSame(s, h), IntrSame(s, h)
  PROVE  AenInv(h) /\ h.storm = g.storm
<1>1. /\ AenTyped(s) /\ AenOrder(s) /\ AenRing(s)
      /\ s.board_state = "IN_INIT_CODE" /\ s.chip = "init" /\ s.csr = {}
      /\ s.q = g.q /\ s.user = g.user /\ s.wiped = g.wiped /\ s.wq = g.wq
      /\ s.unstarted = (g.unstarted \/ \E v \in Aen!Users : g.wq[v] # <<>>)
      /\ s.intr = g.intr /\ s.err = g.err /\ s.storm = g.storm
  BY AenSetupDoes
<1>2. /\ h.user[u] = n /\ \A v \in Aen!Users \ {u} : h.user[v] = g.user[v]
      /\ h.user \in [Aen!Users -> {"shut", "reset", "sleep", "woken", "open", "halt",
                                   "csleep", "cwoken"}]
  BY <1>1, SMTT(30) DEF AenTyped
<1>3. AenTyped(h)
  BY <1>1, <1>2, ZenonT(30) DEF AenTyped, RingSame, PathSame, IntrSame
<1>4. AenRing(h) /\ AenOrder(h)
  BY <1>1, AenRingSame
<1>5. AenBoardInv(h)
  <2>1. \A v \in Aen!Users : h.user[v] \notin {"halt", "reset"}
    BY <1>2 DEF Runs
  <2>2. \A v \in g.q : h.user[v] \in {"open", "csleep", "cwoken"}
    <3>1. g.user[u] = "reset" => u \notin g.q
      BY DEF AenBoardInv
    <3> QED BY <1>2, <3>1 DEF AenBoardInv, AenTyped
  <2>3. ~g.wiped => \A v \in Aen!Users : h.user[v] \in {"open", "csleep", "cwoken"} => v \in g.q
    BY <1>2 DEF AenBoardInv
  <2>4. \E v \in Aen!Users : h.user[v] \in {"sleep", "csleep"}
    BY <1>2
  <2> QED BY <1>1, <2>1, <2>2, <2>3, <2>4 DEF AenBoardInv, AenWindow
<1>6. AenMoving(h)
  <2>1. h.wq = g.wq /\ h.q = g.q /\ g.q \subseteq Aen!Users
        /\ h.unstarted = (g.unstarted \/ \E v \in Aen!Users : g.wq[v] # <<>>)
    BY <1>1 DEF PathSame, IntrSame, AenTyped
  <2>2. \A v \in Aen!Users : h.user[v] \in {"shut", "reset", "sleep", "woken", "halt"} => g.wq[v] = <<>>
    BY <1>2 DEF AenMoving
  <2>3. ~h.unstarted => ~\E v \in h.q : h.wq[v] # <<>>
    BY <2>1
  <2>4. \A v \in Aen!Users : h.user[v] \in {"shut", "reset", "sleep", "woken", "halt"} => h.wq[v] = <<>>
    BY <2>1, <2>2
  <2> QED BY <2>3, <2>4 DEF AenMoving
<1>7. h.storm = g.storm
  BY <1>1 DEF IntrSame
<1> QED BY <1>3, <1>4, <1>5, <1>6, <1>7 DEF AenInv

LEMMA AenOpenStep ==
  ASSUME AenAssumption, AenInv(aen), NEW u \in Aen!Users, Runs(aen, u), Aen!AenOpen(u)
  PROVE  AenStepOK(aen, aen')
<1>1. PICK g : g = aen
  OBVIOUS
<1>2. PICK h : h = aen'
  OBVIOUS
<1>3. AenTyped(g) /\ AenBoardInv(g) /\ AenAnswers(g) /\ AenMoving(g) /\ AenRing(g) /\ AenOrder(g)
  BY <1>1 DEF AenInv
<1>4. g.user[u] = "shut" /\ g.wq[u] = <<>> /\ u \notin g.q
  <2>1. g.user[u] = "shut"
    BY <1>1 DEF Aen!AenOpen
  <2> QED BY <1>3, <2>1 DEF AenMoving, AenBoardInv
<1>5. CASE g.board_state = "RUNNING"
  <2>1. PICK q : q = g.q \cup {u}
    OBVIOUS
  <2>2. PICK w : w = [g.user EXCEPT ![u] = "open"]
    OBVIOUS
  <2>3. PICK s : s = [g EXCEPT !.ctl = @ + 1]
    OBVIOUS
  <2>4. /\ DOMAIN s = DOMAIN g /\ AskedSame(g, s) /\ BoardSame(g, s) /\ RingSame(g, s)
        /\ PathSame(g, s) /\ IntrSame(g, s)
    BY <1>3, <2>3 DEF AenTyped, AskedSame, BoardSame, RingSame, PathSame, IntrSame
  <2>5. h = [s EXCEPT !.q = q, !.user = w]
    <3>1. h = Aen!Attach(s, u)
      BY <1>1, <1>2, <1>5, <2>3 DEF Aen!AenOpen
    <3>2. s.q = g.q /\ s.user = g.user
      BY <2>4 DEF BoardSame
    <3> QED BY <1>3, <2>1, <2>2, <2>4, <3>1, <3>2 DEF Aen!Attach, AenTyped
  <2>6. /\ DOMAIN h = DOMAIN s /\ h.q = q /\ h.user = w
        /\ h.board_state = s.board_state /\ h.chip = s.chip /\ h.csr = s.csr /\ h.wiped = s.wiped
        /\ AskedSame(s, h) /\ RingSame(s, h) /\ PathSame(s, h) /\ IntrSame(s, h)
    BY <1>3, <2>4, <2>5 DEF AenTyped, AskedSame, RingSame, PathSame, IntrSame
  <2>7. /\ DOMAIN h = DOMAIN g /\ h.q = q /\ h.user = w
        /\ h.board_state = g.board_state /\ h.chip = g.chip /\ h.csr = g.csr /\ h.wiped = g.wiped
        /\ AskedSame(g, h) /\ RingSame(g, h) /\ PathSame(g, h) /\ IntrSame(g, h)
    BY <2>4, <2>6 DEF AskedSame, BoardSame, RingSame, PathSame, IntrSame
  <2>8. /\ w[u] = "open" /\ \A v \in Aen!Users \ {u} : w[v] = g.user[v]
        /\ w \in [Aen!Users -> {"shut", "reset", "sleep", "woken", "open", "halt",
                                "csleep", "cwoken"}]
    BY <1>3, <2>2 DEF AenTyped
  <2>9. AenTyped(h)
    <3>1. q \subseteq Aen!Users
      BY <1>3, <2>1 DEF AenTyped
    <3> QED BY <1>3, <2>7, <2>8, <3>1 DEF AenTyped, AskedSame, RingSame, PathSame, IntrSame
  <2>10. AenBoardInv(h)
    <3>1. \A v \in Aen!Users : w[v] \notin {"halt", "reset"}
      BY <1>3, <1>5, <2>8 DEF AenBoardInv, AenWindow
    <3>2. g.chip = "ready" => \E v \in Aen!Users : w[v] \in {"woken", "cwoken"}
      BY <1>3, <1>4, <1>5, <2>8 DEF AenBoardInv
    <3>3. \A v \in q : w[v] \in {"open", "csleep", "cwoken"}
      BY <1>3, <2>1, <2>8 DEF AenBoardInv, AenTyped
    <3>4. ~g.wiped => \A v \in Aen!Users : w[v] \in {"open", "csleep", "cwoken"} => v \in q
      BY <1>3, <2>1, <2>8 DEF AenBoardInv
    <3> QED BY <1>3, <1>5, <2>7, <3>1, <3>2, <3>3, <3>4 DEF AenBoardInv, AenWindow
  <2>11. AenMoving(h)
    <3>1. \A v \in q : g.wq[v] # <<>> => v \in g.q
      BY <1>4, <2>1
    <3> QED BY <1>3, <1>4, <2>1, <2>7, <2>8, <3>1 DEF AenMoving, RingSame, PathSame, IntrSame
  <2>12. AenAnswers(h) /\ AenRing(h) /\ AenOrder(h)
    BY <1>3, <2>7, AenAnswersSame, AenRingSame
  <2> QED BY <1>1, <1>2, <2>7, <2>9, <2>10, <2>11, <2>12 DEF AenStepOK, AenInv, IntrSame
<1>6. CASE g.board_state # "RUNNING"
  <2>1. PICK w : w = [g.user EXCEPT ![u] = "reset"]
    OBVIOUS
  <2>2. PICK x : x = (g.wiped \/ g.q # {})
    OBVIOUS
  <2>3. /\ DOMAIN h = DOMAIN g /\ h.q = {} /\ h.user = w
        /\ h.board_state = "RESET" /\ h.chip = g.chip /\ h.csr = g.csr /\ h.wiped = x
        /\ AskedSame(g, h) /\ RingSame(g, h) /\ PathSame(g, h) /\ IntrSame(g, h)
    <3>1. PICK c : c = g.ctl + 1
      OBVIOUS
    <3>2. h = [g EXCEPT !.ctl = c, !.q = {}, !.state = [v \in Aen!Users |-> "UNBOUND"],
                        !.wiped = x, !.board_state = "RESET", !.user = w]
      BY <1>1, <1>2, <1>3, <1>6, <2>1, <2>2, <3>1 DEF Aen!AenOpen, AenTyped
    <3> QED BY <1>3, <3>2 DEF AenTyped, AskedSame, RingSame, PathSame, IntrSame
  <2>4. /\ w[u] = "reset" /\ \A v \in Aen!Users \ {u} : w[v] = g.user[v]
        /\ w \in [Aen!Users -> {"shut", "reset", "sleep", "woken", "open", "halt",
                                "csleep", "cwoken"}]
    BY <1>3, <2>1 DEF AenTyped
  <2>5. AenTyped(h)
    <3>1. x \in BOOLEAN
      BY <2>2
    <3> QED BY <1>3, <2>3, <2>4, <3>1 DEF AenTyped, AskedSame, RingSame, PathSame, IntrSame
  <2>6. AenBoardInv(h)
    <3>1. \A v, v2 \in Aen!Users : {w[v], w[v2]} \subseteq {"halt", "reset"} => v = v2
      BY <1>1, <2>4 DEF Runs
    <3>2. \E v \in Aen!Users : w[v] \in {"halt", "reset"}
      BY <2>4
    <3>3. ~x => \A v \in Aen!Users : w[v] \notin {"open", "csleep", "cwoken"}
      BY <1>3, <2>2, <2>4 DEF AenBoardInv, AenTyped
    <3>4. g.chip = "init" => g.csr = {}
      BY <1>3 DEF AenBoardInv
    <3> QED BY <2>3, <3>1, <3>2, <3>3, <3>4 DEF AenBoardInv, AenWindow
  <2>7. AenMoving(h)
    <3>1. \A v \in Aen!Users : w[v] \in {"shut", "reset", "sleep", "woken", "halt"} => g.wq[v] = <<>>
      BY <1>3, <1>4, <2>4 DEF AenMoving
    <3> QED BY <2>3, <3>1 DEF AenMoving, PathSame
  <2>8. AenAnswers(h) /\ AenRing(h) /\ AenOrder(h)
    BY <1>3, <2>3, AenAnswersSame, AenRingSame
  <2> QED BY <1>1, <1>2, <2>3, <2>5, <2>6, <2>7, <2>8 DEF AenStepOK, AenInv, IntrSame
<1> QED BY <1>5, <1>6

LEMMA AenOpenSetupStep ==
  ASSUME AenAssumption, AenInv(aen), NEW u \in Aen!Users, Runs(aen, u), Aen!AenOpenSetup(u)
  PROVE  AenStepOK(aen, aen')
<1>1. PICK g : g = aen
  OBVIOUS
<1>2. PICK h : h = aen'
  OBVIOUS
<1>3. AenTyped(g) /\ AenBoardInv(g) /\ AenAnswers(g) /\ AenMoving(g) /\ AenRing(g) /\ AenOrder(g)
  BY <1>1 DEF AenInv
<1>4. PICK s : s = Aen!SetupLance(g)
  OBVIOUS
<1>5. g.user[u] = "reset" /\ h = [s EXCEPT !.user[u] = "sleep"]
  BY <1>1, <1>2, <1>4 DEF Aen!AenOpenSetup
<1>6. AenTyped(s) /\ AskedSame(g, s)
  BY <1>3, <1>4, AenSetupDoes
<1>7. /\ DOMAIN h = DOMAIN s /\ h.user = [s.user EXCEPT ![u] = "sleep"]
      /\ h.board_state = s.board_state /\ h.chip = s.chip /\ h.csr = s.csr /\ h.q = s.q
      /\ h.wiped = s.wiped
      /\ AskedSame(s, h) /\ RingSame(s, h) /\ PathSame(s, h) /\ IntrSame(s, h)
  BY <1>5, <1>6 DEF AenTyped, AskedSame, RingSame, PathSame, IntrSame
<1>8. AenAnswers(h)
  BY <1>3, <1>6, <1>7, AenAnswersSame DEF AskedSame
<1>9. h.ioc \in [Aen!Users -> {"none", "copyin", "copyout", "set"}] /\ h.answers \in [Aen!Users -> Nat]
  BY <1>6, <1>7 DEF AskedSame, AenTyped
<1>10. Runs(g, u)
  BY <1>1
<1>11. AenInv(h) /\ h.storm = g.storm
  <2>1. PICK n : n = "sleep"
    OBVIOUS
  <2>2. (\/ g.user[u] = "reset" /\ n = "sleep"
         \/ g.user[u] = "open" /\ n = "csleep")
        /\ h.user = [s.user EXCEPT ![u] = n]
    BY <1>5, <1>7, <2>1
  <2>3. /\ DOMAIN h = DOMAIN s
        /\ h.board_state = s.board_state /\ h.chip = s.chip /\ h.csr = s.csr /\ h.q = s.q
        /\ h.wiped = s.wiped /\ RingSame(s, h) /\ PathSame(s, h) /\ IntrSame(s, h)
    BY <1>7
  <2> QED BY <1>3, <1>4, <1>8, <1>9, <1>10, <2>2, <2>3, AenSleeps
<1> QED BY <1>1, <1>2, <1>11 DEF AenStepOK

LEMMA AenOpenWokenStep ==
  ASSUME AenAssumption, AenInv(aen), NEW u \in Aen!Users, Runs(aen, u), Aen!AenOpenWoken(u)
  PROVE  AenStepOK(aen, aen')
<1>1. PICK g : g = aen
  OBVIOUS
<1>2. PICK h : h = aen'
  OBVIOUS
<1>3. AenTyped(g) /\ AenBoardInv(g) /\ AenAnswers(g) /\ AenMoving(g) /\ AenRing(g) /\ AenOrder(g)
  BY <1>1 DEF AenInv
<1>4. g.user[u] = "woken" /\ g.wq[u] = <<>> /\ u \notin g.q
  <2>1. g.user[u] = "woken"
    BY <1>1 DEF Aen!AenOpenWoken
  <2> QED BY <1>3, <2>1 DEF AenMoving, AenBoardInv
<1>5. CASE g.board_state \in {"IN_INIT_CODE", "RESET"}
  <2>1. PICK n : n = IF g.board_state = "RESET" THEN "shut" ELSE "sleep"
    OBVIOUS
  <2>2. PICK w : w = [g.user EXCEPT ![u] = n]
    OBVIOUS
  <2>3. h = [g EXCEPT !.user = w]
    BY <1>1, <1>2, <1>3, <1>5, <2>1, <2>2 DEF Aen!AenOpenWoken, AenTyped
  <2>4. /\ DOMAIN h = DOMAIN g /\ h.q = g.q /\ h.user = w
        /\ h.board_state = g.board_state /\ h.chip = g.chip /\ h.csr = g.csr /\ h.wiped = g.wiped
        /\ AskedSame(g, h) /\ RingSame(g, h) /\ PathSame(g, h) /\ IntrSame(g, h)
    BY <1>3, <2>3 DEF AenTyped, AskedSame, RingSame, PathSame, IntrSame
  <2>5. /\ w[u] = n /\ \A v \in Aen!Users \ {u} : w[v] = g.user[v]
        /\ w \in [Aen!Users -> {"shut", "reset", "sleep", "woken", "open", "halt",
                                "csleep", "cwoken"}]
    BY <1>3, <2>1, <2>2 DEF AenTyped
  <2>6. AenTyped(h)
    BY <1>3, <2>4, <2>5 DEF AenTyped, AskedSame, RingSame, PathSame, IntrSame
  <2>7. AenBoardInv(h)
    <3>1. \A v \in Aen!Users : w[v] \notin {"halt", "reset"} /\ g.user[v] \notin {"halt", "reset"}
      BY <1>1, <1>4, <2>1, <2>5 DEF Runs
    <3>2. g.board_state = "IN_INIT_CODE" => \E v \in Aen!Users : w[v] \in {"sleep", "csleep"}
      BY <2>1, <2>5
    <3>3. \A v \in g.q : w[v] \in {"open", "csleep", "cwoken"}
      BY <1>3, <1>4, <2>5 DEF AenBoardInv, AenTyped
    <3>4. ~g.wiped => \A v \in Aen!Users : w[v] \in {"open", "csleep", "cwoken"} => v \in g.q
      BY <1>3, <2>1, <2>5 DEF AenBoardInv
    <3> QED BY <1>3, <1>5, <2>4, <3>1, <3>2, <3>3, <3>4 DEF AenBoardInv, AenWindow
  <2>8. AenMoving(h)
    <3>1. \A v \in Aen!Users : w[v] \in {"shut", "reset", "sleep", "woken", "halt"} => g.wq[v] = <<>>
      BY <1>3, <1>4, <2>5 DEF AenMoving
    <3> QED BY <1>3, <2>4, <3>1 DEF AenMoving, RingSame, PathSame, IntrSame
  <2>9. AenAnswers(h) /\ AenRing(h) /\ AenOrder(h)
    BY <1>3, <2>4, AenAnswersSame, AenRingSame
  <2> QED BY <1>1, <1>2, <2>4, <2>6, <2>7, <2>8, <2>9 DEF AenStepOK, AenInv, IntrSame
<1>6. CASE g.board_state = "RUNNING"
  <2>1. PICK q : q = g.q \cup {u}
    OBVIOUS
  <2>2. PICK w : w = [g.user EXCEPT ![u] = "open"]
    OBVIOUS
  <2>3. PICK c : c = IF g.chip = "ready" THEN "on" ELSE g.chip
    OBVIOUS
  <2>4. h = [[g EXCEPT !.chip = c] EXCEPT !.q = q, !.user = w]
    <3>1. PICK s : s = [g EXCEPT !.chip = c]
      OBVIOUS
    <3>2. DOMAIN s = DOMAIN g /\ s.q = g.q /\ s.user = g.user
      BY <1>3, <3>1 DEF AenTyped
    <3>3. h = Aen!Attach(s, u)
      <4>1. s = [g EXCEPT !.chip = IF g.chip = "ready" THEN "on" ELSE g.chip]
        BY <2>3, <3>1
      <4>2. g.chip = aen.chip
        BY <1>1
      <4> QED BY <1>1, <1>2, <1>3, <1>6, <4>1 DEF Aen!AenOpenWoken, AenTyped
    <3>4. h = [s EXCEPT !.q = q, !.user = w]
      BY <1>3, <2>1, <2>2, <3>2, <3>3 DEF Aen!Attach, AenTyped
    <3> QED BY <3>1, <3>4
  <2>5. /\ DOMAIN h = DOMAIN g /\ h.q = q /\ h.user = w /\ h.chip = c
        /\ h.board_state = g.board_state /\ h.csr = g.csr /\ h.wiped = g.wiped
        /\ AskedSame(g, h) /\ RingSame(g, h) /\ PathSame(g, h) /\ IntrSame(g, h)
    BY <1>3, <2>4 DEF AenTyped, AskedSame, RingSame, PathSame, IntrSame
  <2>6. /\ w[u] = "open" /\ \A v \in Aen!Users \ {u} : w[v] = g.user[v]
        /\ w \in [Aen!Users -> {"shut", "reset", "sleep", "woken", "open", "halt",
                                "csleep", "cwoken"}]
    BY <1>3, <2>2 DEF AenTyped
  <2>7. c = "on"
    BY <1>3, <1>6, <2>3 DEF AenBoardInv
  <2>8. AenTyped(h)
    <3>1. q \subseteq Aen!Users
      BY <1>3, <2>1 DEF AenTyped
    <3> QED BY <1>3, <2>5, <2>6, <2>7, <3>1 DEF AenTyped, AskedSame, RingSame, PathSame, IntrSame
  <2>9. AenBoardInv(h)
    <3>1. \A v \in Aen!Users : w[v] \notin {"halt", "reset"}
      BY <1>3, <1>6, <2>6 DEF AenBoardInv, AenWindow
    <3>3. \A v \in q : w[v] \in {"open", "csleep", "cwoken"}
      BY <1>3, <2>1, <2>6 DEF AenBoardInv, AenTyped
    <3>4. ~g.wiped => \A v \in Aen!Users : w[v] \in {"open", "csleep", "cwoken"} => v \in q
      BY <1>3, <2>1, <2>6 DEF AenBoardInv
    <3> QED BY <1>3, <1>6, <2>5, <2>7, <3>1, <3>3, <3>4 DEF AenBoardInv, AenWindow
  <2>10. AenMoving(h)
    <3>1. \A v \in q : g.wq[v] # <<>> => v \in g.q
      BY <1>4, <2>1
    <3> QED BY <1>3, <1>4, <2>1, <2>5, <2>6, <3>1 DEF AenMoving, RingSame, PathSame, IntrSame
  <2>11. AenAnswers(h) /\ AenRing(h) /\ AenOrder(h)
    BY <1>3, <2>5, AenAnswersSame, AenRingSame
  <2> QED BY <1>1, <1>2, <2>5, <2>8, <2>9, <2>10, <2>11 DEF AenStepOK, AenInv, IntrSame
<1> QED BY <1>3, <1>5, <1>6 DEF AenTyped

LEMMA AenCloseStep ==
  ASSUME AenAssumption, AenInv(aen), NEW u \in Aen!Users, Runs(aen, u), Aen!AenClose(u)
  PROVE  AenStepOK(aen, aen')
<1>1. PICK g : g = aen
  OBVIOUS
<1>2. PICK h : h = aen'
  OBVIOUS
<1>3. AenTyped(g) /\ AenBoardInv(g) /\ AenAnswers(g) /\ AenMoving(g) /\ AenRing(g) /\ AenOrder(g)
  BY <1>1 DEF AenInv
<1>4. g.user[u] = "open" /\ g.intr = 0
  BY <1>1 DEF Aen!AenClose, Runs
<1>5. PICK q : q = g.q \ {u}
  OBVIOUS
<1>6. PICK k : k = g.gone \cup Aen!Range(g.wq[u])
  OBVIOUS
<1>7. PICK e : e = [g.wq EXCEPT ![u] = <<>>]
  OBVIOUS
<1>8. PICK n : n = IF q = {} THEN "halt" ELSE "shut"
  OBVIOUS
<1>9. PICK w : w = [g.user EXCEPT ![u] = n]
  OBVIOUS
<1>10. PICK b : b = IF q = {} THEN "RESET" ELSE g.board_state
  OBVIOUS
<1>11. PICK s : s = [g EXCEPT !.q = q, !.gone = k, !.wq = e]
  OBVIOUS
<1>12. /\ DOMAIN s = DOMAIN g /\ s.q = q /\ s.gone = k /\ s.wq = e /\ s.user = g.user
       /\ s.board_state = g.board_state /\ s.chip = g.chip /\ s.csr = g.csr /\ s.wiped = g.wiped
       /\ s.put = g.put /\ s.sent = g.sent
       /\ AskedSame(g, s) /\ RingSame(g, s) /\ IntrSame(g, s)
  BY <1>3, <1>11 DEF AenTyped, AskedSame, RingSame, IntrSame
<1>13. h = [s EXCEPT !.board_state = b, !.user = w]
  <2>1. h = IF s.q = {} THEN [s EXCEPT !.board_state = "RESET", !.user[u] = "halt"]
            ELSE [s EXCEPT !.user[u] = "shut"]
    <3>1. s = [g EXCEPT !.q = @ \ {u}, !.gone = @ \cup Aen!Range(g.wq[u]), !.wq[u] = <<>>]
      BY <1>3, <1>5, <1>6, <1>7, <1>11 DEF AenTyped
    <3> QED BY <1>1, <1>2, <3>1 DEF Aen!AenClose
  <2>2. CASE q = {}
    BY <1>3, <1>8, <1>9, <1>10, <1>12, <2>1, <2>2 DEF AenTyped
  <2>3. CASE q # {}
    <3>1. b = s.board_state /\ [s EXCEPT !.board_state = s.board_state] = s
      BY <1>3, <1>10, <1>11, <1>12, <2>3 DEF AenTyped
    <3>2. h = [s EXCEPT !.user = w]
      BY <1>3, <1>8, <1>9, <1>12, <2>1, <2>3 DEF AenTyped
    <3> QED BY <1>3, <1>12, <3>1, <3>2 DEF AenTyped
  <2> QED BY <2>2, <2>3
<1>14. /\ DOMAIN h = DOMAIN s /\ h.board_state = b /\ h.user = w
       /\ h.q = s.q /\ h.gone = s.gone /\ h.wq = s.wq /\ h.put = s.put /\ h.sent = s.sent
       /\ h.chip = s.chip /\ h.csr = s.csr /\ h.wiped = s.wiped
       /\ AskedSame(s, h) /\ RingSame(s, h) /\ IntrSame(s, h)
  BY <1>3, <1>12, <1>13 DEF AenTyped, AskedSame, RingSame, IntrSame
<1>15. /\ DOMAIN h = DOMAIN g /\ h.board_state = b /\ h.user = w
       /\ h.q = q /\ h.gone = k /\ h.wq = e /\ h.put = g.put /\ h.sent = g.sent
       /\ h.chip = g.chip /\ h.csr = g.csr /\ h.wiped = g.wiped
       /\ AskedSame(g, h) /\ RingSame(g, h) /\ IntrSame(g, h)
  BY <1>12, <1>14 DEF AskedSame, RingSame, IntrSame
<1>16. /\ w[u] = n /\ \A v \in Aen!Users \ {u} : w[v] = g.user[v]
       /\ w \in [Aen!Users -> {"shut", "reset", "sleep", "woken", "open", "halt",
                               "csleep", "cwoken"}]
  BY <1>3, <1>8, <1>9 DEF AenTyped
<1>17. AenFrames(h) /\ AenOrder(h)
  BY <1>3, <1>6, <1>7, <1>15, AenTypedFrames, AenOrderDrop DEF RingSame
<1>18. AenTyped(h)
  <2>1. q \subseteq Aen!Users /\ b \in {"RESET", "IN_INIT_CODE", "RUNNING"}
    BY <1>3, <1>5, <1>10 DEF AenTyped
  <2> QED BY <1>3, <1>15, <1>16, <1>17, <2>1 DEF AenTyped, AenFrames, AskedSame, RingSame, IntrSame
<1>19. AenBoardInv(h)
  <2>1. \A v \in Aen!Users \ {u} : w[v] \notin {"halt", "reset"} /\ g.user[v] \notin {"halt", "reset"}
    BY <1>1, <1>16 DEF Runs
  <2>2. \A v, v2 \in Aen!Users : {w[v], w[v2]} \subseteq {"halt", "reset"} => v = v2
    BY <2>1
  <2>3. \A v \in q : w[v] \in {"open", "csleep", "cwoken"}
    BY <1>3, <1>5, <1>16 DEF AenBoardInv, AenTyped
  <2>4. ~g.wiped => \A v \in Aen!Users : w[v] \in {"open", "csleep", "cwoken"} => v \in q
    BY <1>3, <1>5, <1>8, <1>16 DEF AenBoardInv
  <2>5. CASE q = {}
    <3>1. \E v \in Aen!Users : w[v] \in {"halt", "reset"}
      BY <1>8, <1>16, <2>5
    <3>2. g.chip = "init" => g.csr = {}
      BY <1>3 DEF AenBoardInv
    <3> QED BY <1>10, <1>15, <2>2, <2>3, <2>4, <2>5, <3>1, <3>2 DEF AenBoardInv, AenWindow
  <2>6. CASE q # {}
    <3>1. b = g.board_state /\ b # "RESET" /\ n = "shut"
      BY <1>3, <1>5, <1>8, <1>10, <2>6 DEF AenBoardInv
    <3>2. \A v \in Aen!Users : w[v] \notin {"halt", "reset"}
      BY <1>16, <2>1, <3>1
    <3>3. b = "IN_INIT_CODE" => \E v \in Aen!Users : w[v] \in {"sleep", "csleep"}
      BY <1>3, <1>4, <1>16, <3>1 DEF AenBoardInv
    <3>4. b = "RUNNING" /\ g.chip = "ready" => \E v \in Aen!Users : w[v] \in {"woken", "cwoken"}
      BY <1>3, <1>4, <1>16, <3>1 DEF AenBoardInv
    <3> QED BY <1>3, <1>15, <2>3, <2>4, <3>1, <3>2, <3>3, <3>4 DEF AenBoardInv, AenWindow
  <2> QED BY <2>5, <2>6
<1>20. AenMoving(h)
  <2>1. e[u] = <<>> /\ \A v \in Aen!Users \ {u} : e[v] = g.wq[v]
    BY <1>3, <1>7 DEF AenTyped
  <2>2. \A v \in Aen!Users : w[v] \in {"shut", "reset", "sleep", "woken", "halt"} => e[v] = <<>>
    BY <1>3, <1>16, <2>1 DEF AenMoving
  <2>3. \A v \in q : e[v] # <<>> => v \in g.q /\ g.wq[v] # <<>>
    BY <1>3, <1>5, <2>1 DEF AenTyped
  <2> QED BY <1>3, <1>4, <1>15, <2>2, <2>3 DEF AenMoving, RingSame, IntrSame
<1>21. AenAnswers(h) /\ AenRing(h)
  BY <1>3, <1>15, AenAnswersSame, AenRingSame
<1> QED BY <1>1, <1>2, <1>15, <1>17, <1>18, <1>19, <1>20, <1>21 DEF AenStepOK, AenInv, IntrSame

LEMMA AenCloseHaltStep ==
  ASSUME AenAssumption, AenInv(aen), NEW u \in Aen!Users, Runs(aen, u), Aen!AenCloseHalt(u)
  PROVE  AenStepOK(aen, aen')
<1>1. PICK g : g = aen
  OBVIOUS
<1>2. PICK h : h = aen'
  OBVIOUS
<1>3. AenTyped(g) /\ AenBoardInv(g) /\ AenAnswers(g) /\ AenMoving(g) /\ AenRing(g) /\ AenOrder(g)
  BY <1>1 DEF AenInv
<1>4. PICK w : w = [g.user EXCEPT ![u] = "shut"]
  OBVIOUS
<1>5. g.user[u] = "halt" /\ h = [g EXCEPT !.chip = "stop", !.csr = {}, !.user = w]
  BY <1>1, <1>2, <1>3, <1>4 DEF Aen!AenCloseHalt, AenTyped
<1>6. /\ DOMAIN h = DOMAIN g /\ h.chip = "stop" /\ h.csr = {} /\ h.user = w
      /\ h.board_state = g.board_state /\ h.q = g.q /\ h.wiped = g.wiped
      /\ AskedSame(g, h) /\ RingSame(g, h) /\ PathSame(g, h) /\ IntrSame(g, h)
  BY <1>3, <1>5 DEF AenTyped, AskedSame, RingSame, PathSame, IntrSame
<1>7. /\ w[u] = "shut" /\ \A v \in Aen!Users \ {u} : w[v] = g.user[v]
      /\ w \in [Aen!Users -> {"shut", "reset", "sleep", "woken", "open", "halt",
                              "csleep", "cwoken"}]
  BY <1>3, <1>4 DEF AenTyped
<1>8. g.board_state = "RESET" /\ g.q = {} /\ g.wq[u] = <<>>
  <2>1. g.board_state = "RESET"
    BY <1>3, <1>5 DEF AenBoardInv, AenWindow
  <2> QED BY <1>3, <1>5, <2>1 DEF AenBoardInv, AenMoving
<1>9. AenTyped(h)
  BY <1>3, <1>6, <1>7 DEF AenTyped, AskedSame, RingSame, PathSame, IntrSame
<1>10. AenBoardInv(h)
  <2>1. \A v \in Aen!Users : w[v] \notin {"halt", "reset"}
    BY <1>1, <1>7 DEF Runs
  <2>2. ~g.wiped => \A v \in Aen!Users : w[v] \in {"open", "csleep", "cwoken"} => v \in g.q
    BY <1>3, <1>7 DEF AenBoardInv
  <2> QED BY <1>6, <1>8, <2>1, <2>2 DEF AenBoardInv, AenWindow
<1>11. AenMoving(h)
  <2>1. \A v \in Aen!Users : w[v] \in {"shut", "reset", "sleep", "woken", "halt"} => g.wq[v] = <<>>
    BY <1>3, <1>7, <1>8 DEF AenMoving
  <2> QED BY <1>6, <1>8, <2>1 DEF AenMoving, PathSame
<1>12. AenAnswers(h) /\ AenRing(h) /\ AenOrder(h)
  BY <1>3, <1>6, AenAnswersSame, AenRingSame
<1> QED BY <1>1, <1>2, <1>6, <1>9, <1>10, <1>11, <1>12 DEF AenStepOK, AenInv, IntrSame

LEMMA AenProtoStep ==
  ASSUME AenAssumption, AenInv(aen), NEW u \in Aen!Users, Aen!Proto(u)
  PROVE  AenStepOK(aen, aen')
<1>1. PICK g : g = aen
  OBVIOUS
<1>2. PICK h : h = aen'
  OBVIOUS
<1>3. AenTyped(g) /\ AenBoardInv(g) /\ AenAnswers(g) /\ AenMoving(g) /\ AenRing(g) /\ AenOrder(g)
  BY <1>1 DEF AenInv
<1>4. PICK c, x : h = [g EXCEPT !.ctl = c, !.state = x]
  <2>1. PICK to \in {"IDLE", "UNBOUND"}, memory \in BOOLEAN :
          h = [g EXCEPT !.ctl = @ + 1, !.state[u] = IF to = "IDLE" \/ memory THEN to ELSE @]
    BY <1>1, <1>2 DEF Aen!Proto
  <2>2. PICK c : c = g.ctl + 1
    OBVIOUS
  <2>3. PICK x : x = [g.state EXCEPT ![u] = IF to = "IDLE" \/ memory THEN to ELSE @]
    OBVIOUS
  <2>4. h = [g EXCEPT !.ctl = c, !.state = x]
    BY <1>3, <2>1, <2>2, <2>3 DEF AenTyped
  <2> QED BY <2>4
<1>5. /\ DOMAIN h = DOMAIN g /\ BoardSame(g, h)
      /\ AskedSame(g, h) /\ RingSame(g, h) /\ PathSame(g, h) /\ IntrSame(g, h)
  BY <1>3, <1>4 DEF AenTyped, BoardSame, AskedSame, RingSame, PathSame, IntrSame
<1>6. AenTyped(h)
  BY <1>3, <1>5 DEF AenTyped, BoardSame, AskedSame, RingSame, PathSame, IntrSame
<1>7. AenBoardInv(h) /\ AenAnswers(h) /\ AenRing(h) /\ AenOrder(h)
  BY <1>3, <1>5, AenBoardSame, AenAnswersSame, AenRingSame
<1>8. AenMoving(h)
  BY <1>3, <1>5, AenMovingSame DEF BoardSame
<1> QED BY <1>1, <1>2, <1>5, <1>6, <1>7, <1>8 DEF AenStepOK, AenInv, IntrSame

LEMMA AenFlushStep ==
  ASSUME AenAssumption, AenInv(aen), NEW u \in Aen!Users, Runs(aen, u), Aen!Flush(u)
  PROVE  AenStepOK(aen, aen')
<1>1. PICK g : g = aen
  OBVIOUS
<1>2. PICK h : h = aen'
  OBVIOUS
<1>3. AenTyped(g) /\ AenBoardInv(g) /\ AenAnswers(g) /\ AenMoving(g) /\ AenRing(g) /\ AenOrder(g)
  BY <1>1 DEF AenInv
<1>4. g.intr = 0
  BY <1>1 DEF Runs
<1>5. PICK k : k = g.gone \cup Aen!Range(g.wq[u])
  OBVIOUS
<1>6. PICK e : e = [g.wq EXCEPT ![u] = <<>>]
  OBVIOUS
<1>7. h = [g EXCEPT !.gone = k, !.wq = e]
  BY <1>1, <1>2, <1>3, <1>5, <1>6 DEF Aen!Flush, AenTyped
<1>8. /\ DOMAIN h = DOMAIN g /\ h.gone = k /\ h.wq = e /\ h.put = g.put /\ h.sent = g.sent
      /\ BoardSame(g, h) /\ AskedSame(g, h) /\ RingSame(g, h) /\ IntrSame(g, h)
  BY <1>3, <1>7 DEF AenTyped, BoardSame, AskedSame, RingSame, IntrSame
<1>9. AenFrames(h) /\ AenOrder(h)
  <2>1. h.tx = g.tx /\ h.at = g.at
    BY <1>8 DEF RingSame
  <2> QED BY <1>3, <1>5, <1>6, <1>8, <2>1, AenTypedFrames, AenOrderDrop
<1>10. AenTyped(h)
  BY <1>3, <1>8, <1>9 DEF AenTyped, AenFrames, BoardSame, AskedSame, RingSame, IntrSame
<1>11. AenMoving(h)
  <2>1. e[u] = <<>> /\ \A v \in Aen!Users \ {u} : e[v] = g.wq[v]
    BY <1>3, <1>6 DEF AenTyped
  <2>2. \A v \in Aen!Users : g.wq[v] = <<>> => e[v] = <<>>
    BY <2>1
  <2>3. g.q \subseteq Aen!Users
    BY <1>3 DEF AenTyped
  <2> QED BY <1>3, <1>4, <1>8, <2>2, <2>3 DEF AenMoving, BoardSame, RingSame, IntrSame
<1>12. AenBoardInv(h) /\ AenAnswers(h) /\ AenRing(h)
  BY <1>3, <1>8, AenBoardSame, AenAnswersSame, AenRingSame
<1> QED BY <1>1, <1>2, <1>8, <1>9, <1>10, <1>11, <1>12 DEF AenStepOK, AenInv, IntrSame

\* An ioctl in which nothing but the answers changes.
LEMMA AenOnlyAsked ==
  ASSUME NEW g, NEW h, AenInv(g), AenTyped(h), AenAnswers(h),
         BoardSame(g, h), RingSame(g, h), PathSame(g, h), IntrSame(g, h)
  PROVE  AenInv(h) /\ h.storm = g.storm
<1>1. AenBoardInv(h) /\ AenRing(h) /\ AenOrder(h)
  BY AenBoardSame, AenRingSame DEF AenInv
<1>2. AenMoving(h)
  BY AenMovingSame DEF AenInv, BoardSame
<1> QED BY <1>1, <1>2 DEF AenInv, IntrSame

\* SetConfig() from a state in which the ioctl of u has no answer yet.
LEMMA AenSetConfig ==
  ASSUME AenAssumption, NEW g, AenTyped(g), AenBoardInv(g), AenMoving(g), AenRing(g), AenOrder(g),
         NEW u \in Aen!Users, Runs(g, u), g.user[u] = "open", g.answers[u] = 0,
         \A v \in Aen!Users \ {u} : g.ioc[v] \in {"copyin", "copyout", "set"} <=> g.answers[v] = 0,
         NEW h, h \in Aen!SetConfig(g, u)
  PROVE  AenInv(h) /\ h.storm = g.storm
<1>1. CASE h = Aen!Answer(Aen!Answer(g, u), u)
  <2>1. PICK s : s = Aen!Answer(g, u)
    OBVIOUS
  <2>2. /\ AenTyped(s)
        /\ s.ioc = [g.ioc EXCEPT ![u] = "none"]
        /\ s.answers[u] = g.answers[u] + 1 /\ \A v \in Aen!Users \ {u} : s.answers[v] = g.answers[v]
        /\ BoardSame(g, s) /\ RingSame(g, s) /\ PathSame(g, s) /\ IntrSame(g, s)
    BY <2>1, AenAnswerDoes
  <2>3. h = Aen!Answer(s, u)
    BY <1>1, <2>1
  <2>4. /\ AenTyped(h)
        /\ h.ioc = [s.ioc EXCEPT ![u] = "none"]
        /\ h.answers[u] = s.answers[u] + 1 /\ \A v \in Aen!Users \ {u} : h.answers[v] = s.answers[v]
        /\ BoardSame(s, h) /\ RingSame(s, h) /\ PathSame(s, h) /\ IntrSame(s, h)
    BY <2>2, <2>3, AenAnswerDoes
  <2>5. h.answers[u] = 2 /\ h.ioc[u] = "none"
    BY <2>2, <2>4 DEF AenTyped
  <2>6. \A v \in Aen!Users \ {u} : h.ioc[v] = g.ioc[v] /\ h.answers[v] = g.answers[v]
    BY <2>2, <2>4 DEF AenTyped
  <2>7. AenAnswers(h)
    BY <2>5, <2>6 DEF AenAnswers
  <2>8. BoardSame(g, h) /\ RingSame(g, h) /\ PathSame(g, h) /\ IntrSame(g, h)
    BY <2>2, <2>4 DEF BoardSame, RingSame, PathSame, IntrSame
  <2>9. AenBoardInv(h) /\ AenRing(h) /\ AenOrder(h)
    BY <2>8, AenBoardSame, AenRingSame
  <2>10. AenMoving(h)
    BY <2>8, AenMovingSame DEF BoardSame
  <2> QED BY <2>4, <2>7, <2>8, <2>9, <2>10 DEF AenInv, IntrSame
<1>2. CASE h = [Aen!SetupLance(g) EXCEPT !.user[u] = "csleep", !.ioc[u] = "set"]
  <2>1. PICK s : s = Aen!SetupLance(g)
    OBVIOUS
  <2>2. AenTyped(s) /\ AskedSame(g, s)
    BY <2>1, AenSetupDoes
  <2>3. PICK n : n = "csleep"
    OBVIOUS
  <2>4. PICK i : i = [s.ioc EXCEPT ![u] = "set"]
    OBVIOUS
  <2>5. PICK w : w = [s.user EXCEPT ![u] = n]
    OBVIOUS
  <2>6. h = [s EXCEPT !.user = w, !.ioc = i]
    BY <1>2, <2>1, <2>2, <2>3, <2>4, <2>5 DEF AenTyped
  <2>7. /\ DOMAIN h = DOMAIN s /\ h.user = w /\ h.ioc = i /\ h.answers = s.answers
        /\ h.board_state = s.board_state /\ h.chip = s.chip /\ h.csr = s.csr /\ h.q = s.q
        /\ h.wiped = s.wiped
        /\ RingSame(s, h) /\ PathSame(s, h) /\ IntrSame(s, h)
    BY <2>2, <2>6 DEF AenTyped, RingSame, PathSame, IntrSame
  <2>8. /\ i[u] = "set" /\ \A v \in Aen!Users \ {u} : i[v] = g.ioc[v]
        /\ i \in [Aen!Users -> {"none", "copyin", "copyout", "set"}]
    BY <2>2, <2>4 DEF AenTyped, AskedSame
  <2>9. h.answers = g.answers /\ h.answers \in [Aen!Users -> Nat]
    BY <2>2, <2>7 DEF AenTyped, AskedSame
  <2>10. AenAnswers(h)
    BY <2>7, <2>8, <2>9 DEF AenAnswers
  <2>11. \/ g.user[u] = "reset" /\ n = "sleep"
         \/ g.user[u] = "open" /\ n = "csleep"
    BY <2>3
  <2>12. h.user = [s.user EXCEPT ![u] = n] /\ h.ioc \in [Aen!Users -> {"none", "copyin", "copyout", "set"}]
    BY <2>5, <2>7, <2>8
  <2>13. /\ DOMAIN h = DOMAIN s
         /\ h.board_state = s.board_state /\ h.chip = s.chip /\ h.csr = s.csr /\ h.q = s.q
         /\ h.wiped = s.wiped /\ RingSame(s, h) /\ PathSame(s, h) /\ IntrSame(s, h)
    BY <2>7
  <2>14. h.answers \in [Aen!Users -> Nat]
    BY <2>9
  <2> QED BY <2>1, <2>10, <2>11, <2>12, <2>13, <2>14, AenSleeps
<1> QED BY <1>1, <1>2 DEF Aen!SetConfig

LEMMA AenIoctlStep ==
  ASSUME AenAssumption, AenInv(aen), NEW u \in Aen!Users, Runs(aen, u), Aen!AenIoctl(u)
  PROVE  AenStepOK(aen, aen')
<1>1. PICK g : g = aen
  OBVIOUS
<1>2. PICK h : h = aen'
  OBVIOUS
<1>3. AenTyped(g) /\ AenBoardInv(g) /\ AenAnswers(g) /\ AenMoving(g) /\ AenRing(g) /\ AenOrder(g)
  BY <1>1 DEF AenInv
<1>4. g.user[u] = "open" /\ g.ioc[u] = "none"
  BY <1>1 DEF Aen!AenIoctl
<1>5. PICK s : s = [g EXCEPT !.ctl = @ + 1, !.answers[u] = 0]
  OBVIOUS
<1>6. /\ DOMAIN s = DOMAIN g /\ s.ioc = g.ioc /\ s.answers = [g.answers EXCEPT ![u] = 0]
      /\ BoardSame(g, s) /\ RingSame(g, s) /\ PathSame(g, s) /\ IntrSame(g, s)
  BY <1>3, <1>5 DEF AenTyped, BoardSame, RingSame, PathSame, IntrSame
<1>7. /\ s.answers[u] = 0 /\ \A v \in Aen!Users \ {u} : s.answers[v] = g.answers[v]
      /\ s.answers \in [Aen!Users -> Nat]
  BY <1>3, <1>6 DEF AenTyped
<1>8. AenTyped(s)
  BY <1>3, <1>6, <1>7 DEF AenTyped, BoardSame, RingSame, PathSame, IntrSame
<1>9. \A v \in Aen!Users \ {u} : s.ioc[v] \in {"copyin", "copyout", "set"} <=> s.answers[v] = 0
  BY <1>3, <1>6, <1>7 DEF AenAnswers
<1>10. AenBoardInv(s) /\ AenRing(s) /\ AenOrder(s) /\ AenMoving(s)
  BY <1>3, <1>6, AenBoardSame, AenRingSame, AenMovingSame DEF BoardSame
<1>11. ASSUME NEW i, i \in {"copyin", "copyout"}, h = [s EXCEPT !.ioc[u] = i]
       PROVE  AenInv(h) /\ h.storm = g.storm
  <2>1. PICK j : j = [s.ioc EXCEPT ![u] = i]
    OBVIOUS
  <2>2. h = [s EXCEPT !.ioc = j]
    BY <1>8, <1>11, <2>1 DEF AenTyped
  <2>3. /\ DOMAIN h = DOMAIN s /\ h.ioc = j /\ h.answers = s.answers
        /\ BoardSame(s, h) /\ RingSame(s, h) /\ PathSame(s, h) /\ IntrSame(s, h)
    BY <1>8, <2>2 DEF AenTyped, BoardSame, RingSame, PathSame, IntrSame
  <2>4. j[u] = i /\ \A v \in Aen!Users \ {u} : j[v] = s.ioc[v]
    BY <1>8, <2>1 DEF AenTyped
  <2>5. AenTyped(h)
    <3>1. j \in [Aen!Users -> {"none", "copyin", "copyout", "set"}]
      BY <1>8, <1>11, <2>1 DEF AenTyped
    <3> QED BY <1>8, <2>3, <3>1 DEF AenTyped, BoardSame, RingSame, PathSame, IntrSame
  <2>6. AenAnswers(h)
    BY <1>7, <1>9, <1>11, <2>3, <2>4 DEF AenAnswers
  <2>7. AenBoardInv(h) /\ AenRing(h) /\ AenOrder(h) /\ AenMoving(h)
    BY <1>10, <2>3, AenBoardSame, AenRingSame, AenMovingSame DEF BoardSame
  <2> QED BY <1>6, <2>3, <2>5, <2>6, <2>7 DEF AenInv, IntrSame
<1>12. CASE h = Aen!Answer(s, u)
  <2>1. /\ AenTyped(h)
        /\ h.ioc = [s.ioc EXCEPT ![u] = "none"]
        /\ h.answers[u] = s.answers[u] + 1 /\ \A v \in Aen!Users \ {u} : h.answers[v] = s.answers[v]
        /\ BoardSame(s, h) /\ RingSame(s, h) /\ PathSame(s, h) /\ IntrSame(s, h)
    BY <1>8, <1>12, AenAnswerDoes
  <2>2. h.answers[u] = 1 /\ h.ioc[u] = "none" /\ \A v \in Aen!Users \ {u} : h.ioc[v] = s.ioc[v]
    BY <1>7, <1>8, <2>1 DEF AenTyped
  <2>3. AenAnswers(h)
    BY <1>9, <2>1, <2>2 DEF AenAnswers
  <2>4. AenBoardInv(h) /\ AenRing(h) /\ AenOrder(h) /\ AenMoving(h)
    BY <1>10, <2>1, AenBoardSame, AenRingSame, AenMovingSame DEF BoardSame
  <2>5. h.storm = g.storm
    BY <1>6, <2>1 DEF IntrSame
  <2> QED BY <1>1, <1>2, <2>1, <2>3, <2>4, <2>5 DEF AenStepOK, AenInv
<1>13. CASE h \in Aen!SetConfig(s, u)
  <2>1. Runs(s, u) /\ s.user[u] = "open"
    BY <1>1, <1>4, <1>6 DEF Runs, BoardSame, IntrSame
  <2>2. AenInv(h) /\ h.storm = s.storm
    BY <1>7, <1>8, <1>9, <1>10, <1>13, <2>1, AenSetConfig
  <2> QED BY <1>1, <1>2, <1>6, <2>2 DEF AenStepOK, IntrSame
<1>14. \/ h = [s EXCEPT !.ioc[u] = "copyout"] \/ h = [s EXCEPT !.ioc[u] = "copyin"]
       \/ h = Aen!Answer(s, u) \/ h \in Aen!SetConfig(s, u)
  <2>1. PICK c \in AenIoctls, transparent \in BOOLEAN, memory \in BOOLEAN :
          CASE c = "get" /\ transparent /\ memory -> h = Aen!CopyOut(s, u)
            [] c = "set" /\ transparent -> h = [s EXCEPT !.ioc[u] = "copyin"]
            [] c = "set" /\ ~transparent -> h \in Aen!SetConfig(s, u)
            [] OTHER -> h = Aen!Answer(s, u)
    BY <1>1, <1>2, <1>5 DEF Aen!AenIoctl
  <2> QED BY <2>1 DEF Aen!CopyOut
<1>15. CASE h = [s EXCEPT !.ioc[u] = "copyout"] \/ h = [s EXCEPT !.ioc[u] = "copyin"]
  <2>1. AenInv(h) /\ h.storm = g.storm
    BY <1>11, <1>15
  <2> QED BY <1>1, <1>2, <2>1 DEF AenStepOK
<1> QED BY <1>12, <1>13, <1>14, <1>15

LEMMA AenIocDataStep ==
  ASSUME AenAssumption, AenInv(aen), NEW u \in Aen!Users, Runs(aen, u), Aen!AenIocData(u)
  PROVE  AenStepOK(aen, aen')
<1>1. PICK g : g = aen
  OBVIOUS
<1>2. PICK h : h = aen'
  OBVIOUS
<1>3. AenTyped(g) /\ AenBoardInv(g) /\ AenAnswers(g) /\ AenMoving(g) /\ AenRing(g) /\ AenOrder(g)
  BY <1>1 DEF AenInv
<1>4. g.user[u] = "open" /\ g.ioc[u] \in {"copyin", "copyout"}
  BY <1>1 DEF Aen!AenIocData
<1>5. g.answers[u] = 0
  BY <1>3, <1>4 DEF AenAnswers
<1>6. \A v \in Aen!Users \ {u} : g.ioc[v] \in {"copyin", "copyout", "set"} <=> g.answers[v] = 0
  BY <1>3 DEF AenAnswers
<1>7. CASE h = Aen!Answer(g, u)
  <2>1. /\ AenTyped(h)
        /\ h.ioc = [g.ioc EXCEPT ![u] = "none"]
        /\ h.answers[u] = g.answers[u] + 1 /\ \A v \in Aen!Users \ {u} : h.answers[v] = g.answers[v]
        /\ BoardSame(g, h) /\ RingSame(g, h) /\ PathSame(g, h) /\ IntrSame(g, h)
    BY <1>3, <1>7, AenAnswerDoes
  <2>2. h.answers[u] = 1 /\ h.ioc[u] = "none" /\ \A v \in Aen!Users \ {u} : h.ioc[v] = g.ioc[v]
    BY <1>3, <1>5, <2>1 DEF AenTyped
  <2>3. AenAnswers(h)
    BY <1>6, <2>1, <2>2 DEF AenAnswers
  <2>4. AenInv(g)
    BY <1>1
  <2>5. AenInv(h) /\ h.storm = g.storm
    BY <2>1, <2>3, <2>4, AenOnlyAsked
  <2> QED BY <1>1, <1>2, <2>5 DEF AenStepOK
<1>8. CASE h \in Aen!SetConfig(g, u)
  <2>1. Runs(g, u)
    BY <1>1
  <2>2. AenInv(h) /\ h.storm = g.storm
    BY <1>3, <1>4, <1>5, <1>6, <1>8, <2>1, AenSetConfig
  <2> QED BY <1>1, <1>2, <2>2 DEF AenStepOK
<1>9. h = Aen!Answer(g, u) \/ h \in Aen!SetConfig(g, u)
  <2>1. CASE h = [g EXCEPT !.ioc[u] = "none", !.answers[u] = @ + 1]
    <3>1. [g EXCEPT !.ioc[u] = "none", !.answers[u] = @ + 1]
            = [g EXCEPT !.answers[u] = @ + 1, !.ioc[u] = "none"]
      BY <1>3 DEF AenTyped
    <3> QED BY <2>1, <3>1 DEF Aen!Answer
  <2> QED BY <1>1, <1>2, <2>1 DEF Aen!AenIocData
<1> QED BY <1>7, <1>8, <1>9

LEMMA AenSetConfigWokenStep ==
  ASSUME AenAssumption, AenInv(aen), NEW u \in Aen!Users, Runs(aen, u), Aen!SetConfigWoken(u)
  PROVE  AenStepOK(aen, aen')
<1>1. PICK g : g = aen
  OBVIOUS
<1>2. PICK h : h = aen'
  OBVIOUS
<1>3. AenTyped(g) /\ AenBoardInv(g) /\ AenAnswers(g) /\ AenMoving(g) /\ AenRing(g) /\ AenOrder(g)
  BY <1>1 DEF AenInv
<1>4. g.user[u] = "cwoken"
  BY <1>1 DEF Aen!SetConfigWoken
<1>5. \A v \in Aen!Users : g.user[v] \notin {"reset", "halt"}
  BY <1>1, <1>4 DEF Runs
<1>6. CASE g.board_state = "IN_INIT_CODE"
  <2>1. PICK w : w = [g.user EXCEPT ![u] = "csleep"]
    OBVIOUS
  <2>2. h = [g EXCEPT !.user = w]
    BY <1>1, <1>2, <1>3, <1>6, <2>1 DEF Aen!SetConfigWoken, AenTyped
  <2>3. /\ DOMAIN h = DOMAIN g /\ h.q = g.q /\ h.user = w
        /\ h.board_state = g.board_state /\ h.chip = g.chip /\ h.csr = g.csr /\ h.wiped = g.wiped
        /\ AskedSame(g, h) /\ RingSame(g, h) /\ PathSame(g, h) /\ IntrSame(g, h)
    BY <1>3, <2>2 DEF AenTyped, AskedSame, RingSame, PathSame, IntrSame
  <2>4. /\ w[u] = "csleep" /\ \A v \in Aen!Users \ {u} : w[v] = g.user[v]
        /\ w \in [Aen!Users -> {"shut", "reset", "sleep", "woken", "open", "halt",
                                "csleep", "cwoken"}]
    BY <1>3, <2>1 DEF AenTyped
  <2>5. AenTyped(h)
    BY <1>3, <2>3, <2>4 DEF AenTyped, AskedSame, RingSame, PathSame, IntrSame
  <2>6. AenBoardInv(h)
    <3>1. \A v \in Aen!Users : w[v] \notin {"halt", "reset"}
      BY <1>5, <2>4
    <3>2. \E v \in Aen!Users : w[v] \in {"sleep", "csleep"}
      BY <2>4
    <3>3. \A v \in g.q : w[v] \in {"open", "csleep", "cwoken"}
      BY <1>3, <2>4 DEF AenBoardInv, AenTyped
    <3>4. ~g.wiped => \A v \in Aen!Users : w[v] \in {"open", "csleep", "cwoken"} => v \in g.q
      BY <1>3, <1>4, <2>4 DEF AenBoardInv
    <3> QED BY <1>3, <1>6, <2>3, <3>1, <3>2, <3>3, <3>4 DEF AenBoardInv, AenWindow
  <2>7. AenMoving(h)
    <3>1. \A v \in Aen!Users : w[v] \in {"shut", "reset", "sleep", "woken", "halt"} => g.wq[v] = <<>>
      BY <1>3, <2>4 DEF AenMoving
    <3> QED BY <1>3, <2>3, <3>1 DEF AenMoving, RingSame, PathSame, IntrSame
  <2>8. AenAnswers(h) /\ AenRing(h) /\ AenOrder(h)
    BY <1>3, <2>3, AenAnswersSame, AenRingSame
  <2> QED BY <1>1, <1>2, <2>3, <2>5, <2>6, <2>7, <2>8 DEF AenStepOK, AenInv, IntrSame
<1>7. CASE g.board_state # "IN_INIT_CODE"
  <2>1. PICK w : w = [g.user EXCEPT ![u] = "open"]
    OBVIOUS
  <2>2. PICK r : r = [g EXCEPT !.user = w]
    OBVIOUS
  <2>3. /\ DOMAIN r = DOMAIN g /\ r.q = g.q /\ r.user = w
        /\ r.board_state = g.board_state /\ r.chip = g.chip /\ r.csr = g.csr /\ r.wiped = g.wiped
        /\ AskedSame(g, r) /\ RingSame(g, r) /\ PathSame(g, r) /\ IntrSame(g, r)
    BY <1>3, <2>2 DEF AenTyped, AskedSame, RingSame, PathSame, IntrSame
  <2>4. /\ w[u] = "open" /\ \A v \in Aen!Users \ {u} : w[v] = g.user[v]
        /\ w \in [Aen!Users -> {"shut", "reset", "sleep", "woken", "open", "halt",
                                "csleep", "cwoken"}]
    BY <1>3, <2>1 DEF AenTyped
  <2>5. AenTyped(r)
    BY <1>3, <2>3, <2>4 DEF AenTyped, AskedSame, RingSame, PathSame, IntrSame
  <2>6. PICK t : t = Aen!Answer(r, u)
    OBVIOUS
  <2>7. /\ AenTyped(t)
        /\ t.ioc = [r.ioc EXCEPT ![u] = "none"]
        /\ t.answers[u] = r.answers[u] + 1 /\ \A v \in Aen!Users \ {u} : t.answers[v] = r.answers[v]
        /\ BoardSame(r, t) /\ RingSame(r, t) /\ PathSame(r, t) /\ IntrSame(r, t)
    BY <2>5, <2>6, AenAnswerDoes
  <2>8. PICK s : s = Aen!Answer(t, u)
    OBVIOUS
  <2>9. /\ AenTyped(s)
        /\ s.ioc = [t.ioc EXCEPT ![u] = "none"]
        /\ s.answers[u] = t.answers[u] + 1 /\ \A v \in Aen!Users \ {u} : s.answers[v] = t.answers[v]
        /\ BoardSame(t, s) /\ RingSame(t, s) /\ PathSame(t, s) /\ IntrSame(t, s)
    BY <2>7, <2>8, AenAnswerDoes
  <2>10. AenAnswers(s)
    <3>1. s.answers[u] # 0 /\ s.ioc[u] = "none"
      <4>1. s.answers[u] = (r.answers[u] + 1) + 1 /\ r.answers[u] \in Nat
        BY <2>5, <2>7, <2>9 DEF AenTyped
      <4>2. s.ioc[u] = "none"
        <5>1. t.ioc \in [Aen!Users -> {"none", "copyin", "copyout", "set"}]
          BY <2>7 DEF AenTyped
        <5> QED BY <2>9, <5>1
      <4> QED BY <4>1, <4>2
    <3>2. \A v \in Aen!Users \ {u} : s.ioc[v] = g.ioc[v] /\ s.answers[v] = g.answers[v]
      <4>1. \A v \in Aen!Users \ {u} : s.ioc[v] = t.ioc[v] /\ s.answers[v] = t.answers[v]
        <5>1. t.ioc \in [Aen!Users -> {"none", "copyin", "copyout", "set"}]
          BY <2>7 DEF AenTyped
        <5> QED BY <2>9, <5>1
      <4>2. \A v \in Aen!Users \ {u} : t.ioc[v] = r.ioc[v] /\ t.answers[v] = r.answers[v]
        BY <2>5, <2>7 DEF AenTyped
      <4> QED BY <2>3, <4>1, <4>2 DEF AskedSame
    <3> QED BY <1>3, <3>1, <3>2 DEF AenAnswers
  <2>11. PICK c : c = IF g.board_state = "RUNNING" /\ g.chip = "ready" THEN "on" ELSE g.chip
    OBVIOUS
  <2>12. /\ RingSame(g, s) /\ PathSame(g, s) /\ IntrSame(g, s) /\ s.user = w
         /\ s.board_state = g.board_state /\ s.chip = g.chip /\ s.csr = g.csr /\ s.q = g.q
         /\ s.wiped = g.wiped
    BY <2>3, <2>7, <2>9 DEF BoardSame, RingSame, PathSame, IntrSame
  <2>13. h = IF g.board_state = "RUNNING" /\ g.chip = "ready" THEN [s EXCEPT !.chip = "on"] ELSE s
    <3>1. [g EXCEPT !.user[u] = "open"] = r
      BY <1>3, <2>1, <2>2 DEF AenTyped
    <3> QED BY <1>1, <1>2, <1>7, <2>6, <2>8, <3>1 DEF Aen!SetConfigWoken
  <2>14. h = [s EXCEPT !.chip = c]
    <3>1. s = [s EXCEPT !.chip = s.chip]
      BY <2>8 DEF Aen!Answer
    <3> QED BY <2>11, <2>12, <2>13, <3>1
  <2>15. /\ DOMAIN h = DOMAIN s /\ h.chip = c
         /\ h.user = s.user /\ h.board_state = s.board_state /\ h.csr = s.csr /\ h.q = s.q
         /\ h.wiped = s.wiped
         /\ AskedSame(s, h) /\ RingSame(s, h) /\ PathSame(s, h) /\ IntrSame(s, h)
    BY <2>9, <2>14 DEF AenTyped, AskedSame, RingSame, PathSame, IntrSame
  <2>16. c \in {"stop", "init", "ready", "on"}
    BY <1>3, <2>11 DEF AenTyped
  <2>17. AenTyped(h)
    BY <2>9, <2>15, <2>16 DEF AenTyped, AskedSame, RingSame, PathSame, IntrSame
  <2>18. /\ h.user = w /\ h.board_state = g.board_state /\ h.csr = g.csr /\ h.q = g.q
         /\ h.wiped = g.wiped /\ RingSame(g, h) /\ PathSame(g, h) /\ IntrSame(g, h)
    BY <2>12, <2>15 DEF RingSame, PathSame, IntrSame
  <2>19. AenBoardInv(h)
    <3>1. \A v \in Aen!Users : w[v] \notin {"halt", "reset"}
      BY <1>5, <2>4
    <3>2. \A v \in g.q : w[v] \in {"open", "csleep", "cwoken"}
      BY <1>3, <2>4 DEF AenBoardInv, AenTyped
    <3>3. ~g.wiped => \A v \in Aen!Users : w[v] \in {"open", "csleep", "cwoken"} => v \in g.q
      BY <1>3, <1>4, <2>4 DEF AenBoardInv
    <3>4. CASE g.board_state = "RUNNING"
      <4>1. c = "on"
        BY <1>3, <2>11, <3>4 DEF AenBoardInv
      <4> QED BY <1>3, <2>15, <2>18, <3>1, <3>2, <3>3, <3>4, <4>1 DEF AenBoardInv, AenWindow
    <3>5. CASE g.board_state = "RESET"
      <4>1. c = g.chip
        BY <2>11, <3>5
      <4>2. g.q = {} /\ g.chip = "stop" /\ g.csr = {}
        BY <1>3, <1>5, <3>5 DEF AenBoardInv, AenWindow
      <4> QED BY <2>15, <2>18, <3>1, <3>2, <3>3, <3>5, <4>1, <4>2 DEF AenBoardInv, AenWindow
    <3> QED BY <1>3, <1>7, <3>4, <3>5 DEF AenTyped
  <2>20. AenMoving(h)
    <3>1. \A v \in Aen!Users : w[v] \in {"shut", "reset", "sleep", "woken", "halt"} => g.wq[v] = <<>>
      BY <1>3, <2>4 DEF AenMoving
    <3> QED BY <1>3, <2>18, <3>1 DEF AenMoving, RingSame, PathSame, IntrSame
  <2>21. AenAnswers(h) /\ AenRing(h) /\ AenOrder(h)
    BY <1>3, <2>10, <2>15, <2>18, AenAnswersSame, AenRingSame
  <2> QED BY <1>1, <1>2, <2>17, <2>18, <2>19, <2>20, <2>21 DEF AenStepOK, AenInv, IntrSame
<1> QED BY <1>6, <1>7

LEMMA AenStep ==
  ASSUME AenAssumption, AenInv(aen), [Aen!Next]_aen
  PROVE  AenStepOK(aen, aen')
<1>1. CASE UNCHANGED aen
  BY <1>1 DEF AenStepOK
<1>2. CASE Aen!AenIntr \/ Aen!TransmitNext \/ Aen!AenIntrEnd \/ Aen!LanceInit \/ Aen!LanceSend
  BY <1>2, AenIntrStep, AenTransmitNextStep, AenIntrEndStep, AenLanceInitStep, AenLanceSendStep
<1>3. ASSUME NEW u \in Aen!Users, aen.intr = 0,
             \A v \in Aen!Users \ {u} : aen.user[v] \notin {"reset", "halt"},
             \/ Aen!AenOpen(u) \/ Aen!AenOpenSetup(u) \/ Aen!AenOpenWoken(u)
             \/ Aen!AenClose(u) \/ Aen!AenCloseHalt(u)
             \/ Aen!UnitData(u) \/ Aen!Proto(u) \/ Aen!Flush(u)
             \/ Aen!AenIoctl(u) \/ Aen!AenIocData(u) \/ Aen!SetConfigWoken(u)
      PROVE  AenStepOK(aen, aen')
  <2>1. Runs(aen, u)
    BY <1>3 DEF Runs
  <2>2. CASE Aen!AenOpen(u) \/ Aen!AenOpenSetup(u) \/ Aen!AenOpenWoken(u)
    BY <2>1, <2>2, AenOpenStep, AenOpenSetupStep, AenOpenWokenStep
  <2>3. CASE Aen!AenClose(u) \/ Aen!AenCloseHalt(u)
    BY <2>1, <2>3, AenCloseStep, AenCloseHaltStep
  <2>4. CASE Aen!UnitData(u) \/ Aen!Proto(u) \/ Aen!Flush(u)
    BY <2>1, <2>4, AenUnitDataStep, AenProtoStep, AenFlushStep
  <2>5. CASE Aen!AenIoctl(u) \/ Aen!AenIocData(u) \/ Aen!SetConfigWoken(u)
    BY <2>1, <2>5, AenIoctlStep, AenIocDataStep, AenSetConfigWokenStep
  <2> QED BY <1>3, <2>2, <2>3, <2>4, <2>5
<1> QED BY <1>1, <1>2, <1>3 DEF Aen!Next

LEMMA AenInitial ==
  ASSUME AenAssumption, Aen!Init
  PROVE  AenInv(aen)
<1>1. PICK h : h = aen
  OBVIOUS
<1>2. /\ DOMAIN h = {"board_state", "chip", "csr", "tx", "txi", "at", "intr", "err", "q", "state",
                     "wq", "user", "ioc", "put", "sent", "gone", "ctl", "answers", "storm",
                     "unstarted", "wiped"}
      /\ h.board_state = "RESET" /\ h.chip = "stop" /\ h.csr = {}
      /\ h.tx = [i \in AenSlots |-> 0] /\ h.txi = 0 /\ h.at = 0 /\ h.intr = 0 /\ h.err = FALSE
  BY <1>1 DEF Aen!Init, AenSlots
<1>3. /\ h.q = {} /\ h.wq = [u \in Aen!Users |-> <<>>] /\ h.user = [u \in Aen!Users |-> "shut"]
      /\ h.ioc = [u \in Aen!Users |-> "none"] /\ h.put = <<>> /\ h.sent = <<>> /\ h.gone = {}
      /\ h.answers = [u \in Aen!Users |-> 1] /\ h.storm = FALSE /\ h.unstarted = FALSE
      /\ h.wiped = FALSE
  BY <1>1 DEF Aen!Init
<1>4. AenRing(h) /\ (\A k \in AenSlots : AenNth(h, k) = 0) /\ h.tx \in [AenSlots -> Nat] /\ 0 \in AenSlots
  BY <1>2, AenRingEmpty
<1>5. AenTyped(h)
  <2>1. 0 \in 0 .. AenUsers + 1
    BY DEF AenAssumption
  <2>2. /\ h.wq \in [Aen!Users -> Seq(Nat)] /\ h.put \in Seq(Aen!Users) /\ h.sent \in Seq(Nat)
        /\ h.gone \subseteq DOMAIN h.put
    BY <1>3
  <2>3. /\ h.user \in [Aen!Users -> {"shut", "reset", "sleep", "woken", "open", "halt",
                                     "csleep", "cwoken"}]
        /\ h.ioc \in [Aen!Users -> {"none", "copyin", "copyout", "set"}]
        /\ h.answers \in [Aen!Users -> Nat]
    BY <1>3
  <2> QED BY <1>2, <1>3, <1>4, <2>1, <2>2, <2>3 DEF AenTyped
<1>6. AenBoardInv(h)
  BY <1>2, <1>3 DEF AenBoardInv, AenWindow
<1>7. AenAnswers(h) /\ AenMoving(h)
  BY <1>3 DEF AenAnswers, AenMoving
<1>8. AenKnown(h) /\ AenSorted(h) /\ AenKept(h)
  BY <1>3, <1>4 DEF AenKnown, AenSorted, AenKept
<1> QED BY <1>1, <1>4, <1>5, <1>6, <1>7, <1>8 DEF AenInv, AenOrder

\* Has the terms of SentInOrder.
AenRingOf(h) == [k \in 1 .. TxCount |-> h.tx[(h.at + k - 1) % TxCount]]
AenPathOf(h, u) == h.sent \o AenRingOf(h) \o h.wq[u]
AenMine(h, u) == {f \in DOMAIN h.put : h.put[f] = u}

LEMMA AenPath ==
  ASSUME AenAssumption, NEW h, AenTyped(h), AenOrder(h), NEW u \in Aen!Users,
         NEW p, p = AenPathOf(h, u), NEW M, M = AenMine(h, u)
  PROVE  /\ Among(p, M) /\ \A f \in M : Has(p, f) <=> f \notin h.gone
         /\ \A k \in DOMAIN p : p[k] \in M <=> p[k] # 0 /\ h.put[p[k]] = u
<1>1. TxCount \in Nat \ {0}
  BY DEF AenAssumption
<1>0. PICK ring : ring = AenRingOf(h)
  OBVIOUS
<1>2. ring \in Seq(Nat) /\ DOMAIN ring = 1 .. TxCount
      /\ \A k \in 1 .. TxCount : k - 1 \in AenSlots /\ ring[k] = AenNth(h, k - 1)
  <2>1. ASSUME NEW k \in 1 .. TxCount
        PROVE  k - 1 \in AenSlots /\ ring[k] = AenNth(h, k - 1) /\ ring[k] \in Nat
    <3>1. PICK j : j = k - 1
      OBVIOUS
    <3>2. j \in AenSlots /\ h.at \in Nat /\ h.at \in AenSlots
      BY <1>1, <3>1 DEF AenTyped, AenSlots
    <3>3. h.at + k - 1 = h.at + j
      BY <3>1, <3>2 DEF AenSlots
    <3>4. (h.at + j) % TxCount = AenSlot(h.at, j)
      BY <1>1, <3>2, RingPlus DEF AenSlots, AenSlot
    <3>5. ring[k] = h.tx[AenSlot(h.at, j)]
      BY <1>0, <3>3, <3>4 DEF AenRingOf
    <3>6. AenSlot(h.at, j) \in AenSlots
      BY <3>2, AenSlots1
    <3>7. h.tx[AenSlot(h.at, j)] \in Nat
      BY <3>6 DEF AenTyped
    <3> QED BY <3>1, <3>2, <3>5, <3>7 DEF AenNth
  <2>2. ring \in Seq(Nat) /\ DOMAIN ring = 1 .. TxCount
    BY <1>0, <1>1, <2>1 DEF AenRingOf
  <2> QED BY <2>1, <2>2
<1>3. h.sent \in Seq(Nat) /\ h.wq[u] \in Seq(Nat) /\ h.put \in Seq(Aen!Users)
  BY DEF AenTyped
<1>4. M \subseteq DOMAIN h.put /\ \A f \in M : f # 0 /\ h.put[f] = u
  BY <1>3 DEF AenMine
<1>5. PICK a : a = h.sent \o ring
  OBVIOUS
<1>6. p = a \o h.wq[u] /\ a \in Seq(Nat)
  BY <1>0, <1>2, <1>3, <1>5 DEF AenPathOf
\* The three parts.
<1>7. Among(h.sent, M) /\ Among(h.wq[u], M) /\ Ahead(h.sent, h.wq[u], M)
  <2>1. Among(h.sent, M)
    BY <1>4 DEF Among, AenOrder, AenSorted, Before
  <2>2. Among(h.wq[u], M)
    BY DEF Among, AenOrder, AenSorted
  <2>3. Ahead(h.sent, h.wq[u], M)
    BY <1>4 DEF Ahead, AenOrder, AenSorted, Before
  <2> QED BY <2>1, <2>2, <2>3
<1>8. Among(ring, M)
  <2>1. ASSUME NEW i \in DOMAIN ring, NEW j \in DOMAIN ring, i < j, ring[i] \in M, ring[j] \in M
        PROVE  ring[i] < ring[j]
    <3>1. i - 1 \in AenSlots /\ j - 1 \in AenSlots /\ ring[i] = AenNth(h, i - 1) /\ ring[j] = AenNth(h, j - 1)
      BY <1>2
    <3>2. i - 1 < j - 1
      BY <1>1, <1>2, <2>1
    <3>3. Before(h, ring[i], ring[j])
      BY <1>4, <2>1, <3>1, <3>2 DEF AenOrder, AenSorted
    <3> QED BY <1>4, <2>1, <3>3 DEF Before
  <2> QED BY <2>1 DEF Among
<1>9. Ahead(h.sent, ring, M)
  <2>1. ASSUME NEW i \in DOMAIN h.sent, NEW j \in DOMAIN ring, h.sent[i] \in M, ring[j] \in M
        PROVE  h.sent[i] < ring[j]
    <3>1. j - 1 \in AenSlots /\ ring[j] = AenNth(h, j - 1)
      BY <1>2
    <3>2. Before(h, h.sent[i], ring[j])
      BY <1>4, <2>1, <3>1 DEF AenOrder, AenSorted
    <3> QED BY <1>4, <2>1, <3>2 DEF Before
  <2> QED BY <2>1 DEF Ahead
<1>10. Ahead(ring, h.wq[u], M)
  <2>1. ASSUME NEW i \in DOMAIN ring, NEW j \in DOMAIN h.wq[u], ring[i] \in M, h.wq[u][j] \in M
        PROVE  ring[i] < h.wq[u][j]
    <3>1. i - 1 \in AenSlots /\ ring[i] = AenNth(h, i - 1)
      BY <1>2
    <3>2. Before(h, ring[i], h.wq[u][j])
      BY <1>4, <2>1, <3>1 DEF AenOrder, AenSorted
    <3> QED BY <1>4, <2>1, <3>2 DEF Before
  <2> QED BY <2>1 DEF Ahead
<1>19. PICK b : b = h.sent
  OBVIOUS
<1>20. PICK c : c = h.wq[u]
  OBVIOUS
<1>21. b \in Seq(Nat) /\ ring \in Seq(Nat) /\ c \in Seq(Nat) /\ a \in Seq(Nat)
  BY <1>2, <1>3, <1>6, <1>19, <1>20
<1>22. a = b \o ring /\ p = a \o c
  BY <1>5, <1>6, <1>19, <1>20
<1>23. /\ Among(b, M) /\ Among(c, M) /\ Among(ring, M)
       /\ Ahead(b, c, M) /\ Ahead(b, ring, M) /\ Ahead(ring, c, M)
  BY <1>7, <1>8, <1>9, <1>10, <1>19, <1>20
<1>11. Among(a, M)
  BY ONLY <1>21, <1>22, <1>23, JoinedAmong
<1>12. Ahead(a, c, M)
  BY ONLY <1>21, <1>22, <1>23, JoinedAhead
<1>13. Among(p, M)
  BY ONLY <1>11, <1>12, <1>21, <1>22, <1>23, JoinedAmong
<1>14. \A e : Has(p, e) <=> Has(h.sent, e) \/ Has(ring, e) \/ Has(h.wq[u], e)
  <2>1. \A e : Has(p, e) <=> Has(a, e) \/ Has(c, e)
    BY ONLY <1>21, <1>22, JoinedHas
  <2>2. \A e : Has(a, e) <=> Has(b, e) \/ Has(ring, e)
    BY ONLY <1>21, <1>22, JoinedHas
  <2> QED BY <1>19, <1>20, <2>1, <2>2
<1>15. \A e : Has(ring, e) <=> InRing(h, e)
  <2>1. \A k \in AenSlots : k + 1 \in 1 .. TxCount /\ (k + 1) - 1 = k
    BY <1>1 DEF AenSlots
  <2>2. ASSUME NEW e, Has(ring, e)
        PROVE  InRing(h, e)
    <3>1. PICK k \in DOMAIN ring : ring[k] = e
      BY <2>2 DEF Has
    <3>2. k - 1 \in AenSlots /\ ring[k] = AenNth(h, k - 1)
      BY <1>2
    <3> QED BY <3>1, <3>2 DEF InRing
  <2>3. ASSUME NEW e, InRing(h, e)
        PROVE  Has(ring, e)
    <3>1. PICK k \in AenSlots : AenNth(h, k) = e
      BY <2>3 DEF InRing
    <3>2. PICK i \in DOMAIN ring : i - 1 = k
      BY <1>2, <2>1
    <3>3. ring[i] = e
      BY <1>2, <3>1, <3>2
    <3> QED BY <3>3 DEF Has
  <2> QED BY <2>2, <2>3
<1>16. ASSUME NEW f \in M
       PROVE  Has(p, f) <=> f \notin h.gone
  <2>1. f \in DOMAIN h.put /\ h.put[f] = u
    BY <1>4
  <2>2. f \notin h.gone <=> Has(h.sent, f) \/ InRing(h, f) \/ Has(h.wq[u], f)
    BY <2>1 DEF AenOrder, AenKept
  <2>3. \A s : Has(s, f) <=> Has(s, f)
    BY DEF Has
  <2> QED BY <1>14, <1>15, <2>2, <2>3
<1>17. ASSUME NEW k \in DOMAIN p
       PROVE  p[k] = 0 \/ p[k] \in DOMAIN h.put
  <2>1. Has(p, p[k])
    BY DEF Has
  <2>2. \A e : Has(h.sent, e) => e \in DOMAIN h.put
    BY DEF Has, AenOrder, AenKnown
  <2>3. \A e : Has(h.wq[u], e) => e \in DOMAIN h.put
    BY DEF Has, AenOrder, AenKnown
  <2>4. \A e : InRing(h, e) => e = 0 \/ e \in DOMAIN h.put
    BY DEF InRing, AenOrder, AenKnown
  <2> QED BY <1>14, <1>15, <2>1, <2>2, <2>3, <2>4
<1>18. ASSUME NEW k \in DOMAIN p
       PROVE  p[k] \in M <=> p[k] # 0 /\ h.put[p[k]] = u
  <2>1. p[k] # 0 => p[k] \in DOMAIN h.put
    BY <1>17
  <2>2. \A f : f \in M <=> f \in DOMAIN h.put /\ h.put[f] = u
    BY DEF AenMine
  <2> QED BY <1>4, <2>1, <2>2
<1> QED BY <1>13, <1>16, <1>18

\* What the invariant says of the properties.
LEMMA AenGood ==
  ASSUME AenAssumption, AenInv(aen)
  PROVE  /\ Aen!TypeOK /\ Aen!SentInOrder /\ Aen!QueuedOutputMoves
         /\ Aen!OpenIsAttached /\ Aen!IoctlsAnswered
<1>1. AenTyped(aen) /\ AenBoardInv(aen) /\ AenAnswers(aen) /\ AenMoving(aen) /\ AenRing(aen) /\ AenOrder(aen)
  BY DEF AenInv
<1>2. Aen!TypeOK
  BY <1>1 DEF AenTyped, Aen!TypeOK
<1>3. Aen!IoctlsAnswered
  BY <1>1 DEF AenAnswers, Aen!IoctlsAnswered
<1>4. Aen!OpenIsAttached
  <2> SUFFICES ASSUME ~aen.wiped PROVE
          /\ \A u \in Aen!Users : aen.user[u] = "open" => u \in aen.q
          /\ aen.q # {} /\ (\A u \in Aen!Users : aen.user[u] \in {"shut", "open"})
               => aen.board_state = "RUNNING" /\ aen.chip = "on"
    BY DEF Aen!OpenIsAttached
  <2>1. \A u \in Aen!Users : aen.user[u] = "open" => u \in aen.q
    BY <1>1 DEF AenBoardInv
  <2>2. ASSUME aen.q # {}, \A u \in Aen!Users : aen.user[u] \in {"shut", "open"}
        PROVE  aen.board_state = "RUNNING" /\ aen.chip = "on"
    <3>1. aen.board_state # "RESET"
      BY <1>1, <2>2 DEF AenBoardInv
    <3>2. aen.board_state # "IN_INIT_CODE"
      BY <1>1, <2>2 DEF AenBoardInv
    <3>3. aen.board_state = "RUNNING"
      BY <1>1, <3>1, <3>2 DEF AenTyped
    <3> QED BY <1>1, <2>2, <3>3 DEF AenBoardInv
  <2> QED BY <2>1, <2>2
<1>5. Aen!QueuedOutputMoves
  <2>1. DOMAIN aen.tx = AenSlots
    BY <1>1 DEF AenTyped
  <2> QED BY <1>1, <2>1 DEF AenMoving, Aen!QueuedOutputMoves
<1>6. Aen!SentInOrder
  <2> SUFFICES ASSUME NEW u \in Aen!Users, NEW K,
                      K = {k \in DOMAIN AenPathOf(aen, u) :
                             AenPathOf(aen, u)[k] # 0 /\ aen.put[AenPathOf(aen, u)[k]] = u}
               PROVE  /\ \A j, k \in K : j < k => AenPathOf(aen, u)[j] < AenPathOf(aen, u)[k]
                      /\ {AenPathOf(aen, u)[k] : k \in K} = AenMine(aen, u) \ aen.gone
    BY DEF Aen!SentInOrder, AenPathOf, AenRingOf, AenMine
  <2>1. PICK p : p = AenPathOf(aen, u)
    OBVIOUS
  <2>2. PICK M : M = AenMine(aen, u)
    OBVIOUS
  <2>3. /\ Among(p, M) /\ \A f \in M : Has(p, f) <=> f \notin aen.gone
        /\ \A k \in DOMAIN p : p[k] \in M <=> p[k] # 0 /\ aen.put[p[k]] = u
    BY <1>1, <2>1, <2>2, AenPath
  <2>4. K = {k \in DOMAIN p : p[k] \in M}
    BY <2>1, <2>3
  <2>5. \A j, k \in K : j < k => p[j] < p[k]
    BY <2>3, <2>4 DEF Among
  <2>6. {p[k] : k \in K} = M \ aen.gone
    BY <2>3, <2>4 DEF Has
  <2> QED BY <2>1, <2>2, <2>5, <2>6
<1> QED BY <1>2, <1>3, <1>4, <1>5, <1>6

\* An interrupt nobody serves.
LEMMA AenUnserved ==
  ASSUME AenAssumption, AenInv(aen), [Aen!Next]_aen
  PROVE  Aen!UnservedOnlyInWindow
  BY AenStep DEF AenStepOK, AenWindow, Aen!UnservedOnlyInWindow

-----------------------------------------------------------------------------
(* The serial port: what stands in line.                                   *)

\* The characters 1 .. n but for those in drop are in u, m and r, in that order.
InLine(u, m, r, n, drop) ==
  /\ u \in Seq(Nat) /\ m \in Seq(Nat) /\ r \in Seq(Nat) /\ n \in Nat /\ drop \subseteq 1 .. n
  /\ Among(u, Nat) /\ Among(m, Nat) /\ Among(r, Nat)
  /\ Ahead(u, m, Nat) /\ Ahead(u, r, Nat) /\ Ahead(m, r, Nat)
  /\ \A f : Has(u, f) \/ Has(m, f) \/ Has(r, f) <=> f \in (1 .. n) \ drop

LEMMA HasNat ==
  ASSUME NEW s, s \in Seq(Nat), NEW i \in DOMAIN s
  PROVE  s[i] \in Nat /\ Has(s, s[i])
  BY DEF Has

LEMMA InLineKnown ==
  ASSUME NEW u, NEW m, NEW r, NEW n, NEW drop, InLine(u, m, r, n, drop)
  PROVE  /\ \A i \in DOMAIN u : u[i] \in Nat /\ u[i] <= n
         /\ \A i \in DOMAIN m : m[i] \in Nat /\ m[i] <= n
         /\ \A i \in DOMAIN r : r[i] \in Nat /\ r[i] <= n
<1>1. \A f : Has(u, f) \/ Has(m, f) \/ Has(r, f) => f \in Nat /\ f <= n
  BY DEF InLine
<1> QED BY <1>1 DEF Has

LEMMA LongerHas ==
  ASSUME NEW t, NEW s, NEW x, Longer(t, s, x), NEW e
  PROVE  Has(t, e) <=> Has(s, e) \/ e = x
<1>1. PICK n \in DOMAIN t : t[n] = x /\ \A i \in DOMAIN t : i = n \/ (i \in DOMAIN s /\ i < n /\ t[i] = s[i])
  BY DEF Longer
<1>2. \A i \in DOMAIN s : i \in DOMAIN t /\ t[i] = s[i]
  BY DEF Longer
<1>3. Has(t, e) => Has(s, e) \/ e = x
  BY <1>1 DEF Has
<1>4. Has(s, e) => Has(t, e)
  BY <1>2 DEF Has
<1> QED BY <1>1, <1>3, <1>4 DEF Has

LEMMA ShorterHas ==
  ASSUME NEW t, NEW s, Shorter(t, s), NEW e
  PROVE  Has(s, e) <=> Has(t, e) \/ e = Head(s)
<1>1. /\ 1 \in DOMAIN s /\ Head(s) = s[1]
      /\ \A i \in DOMAIN t : i + 1 \in DOMAIN s /\ t[i] = s[i + 1]
      /\ \A i \in DOMAIN s : i # 1 => \E j \in DOMAIN t : s[i] = t[j]
  BY DEF Shorter
<1>2. Has(s, e) => Has(t, e) \/ e = Head(s)
  BY <1>1 DEF Has
<1>3. Has(t, e) => Has(s, e)
  BY <1>1 DEF Has
<1> QED BY <1>1, <1>2, <1>3 DEF Has

\* The next character comes last.
LEMMA LineArrives ==
  ASSUME NEW u, NEW m, NEW r, NEW n, NEW drop, InLine(u, m, r, n, drop),
         NEW q, Longer(q, r, n + 1)
  PROVE  InLine(u, m, q, n + 1, drop)
<1>1. /\ \A i \in DOMAIN u : u[i] \in Nat /\ u[i] <= n
      /\ \A i \in DOMAIN m : m[i] \in Nat /\ m[i] <= n
      /\ \A i \in DOMAIN r : r[i] \in Nat /\ r[i] <= n
  BY InLineKnown
<1>2. n \in Nat /\ n + 1 \in Nat /\ q \in Seq(Nat) /\ drop \subseteq 1 .. n
  BY DEF InLine, Longer
<1>3. PICK l \in DOMAIN q : /\ q[l] = n + 1
                            /\ \A i \in DOMAIN q : i = l \/ (i \in DOMAIN r /\ i < l /\ q[i] = r[i])
                            /\ \A i \in DOMAIN q : i \in Nat /\ ~(l < i)
  BY DEF Longer
<1>4. Among(q, Nat)
  <2>1. ASSUME NEW i \in DOMAIN q, NEW j \in DOMAIN q, i < j
        PROVE  q[i] < q[j]
    <3>1. i # l
      BY <1>3, <2>1
    <3>2. i \in DOMAIN r /\ q[i] = r[i]
      BY <1>3, <3>1
    <3>3. CASE j = l
      BY <1>1, <1>2, <1>3, <3>2, <3>3
    <3>4. CASE j # l
      BY <1>1, <1>3, <2>1, <3>2, <3>4 DEF InLine, Among
    <3> QED BY <3>3, <3>4
  <2> QED BY <2>1 DEF Among
<1>5. ASSUME NEW x, Ahead(x, r, Nat), \A i \in DOMAIN x : x[i] \in Nat /\ x[i] <= n
      PROVE  Ahead(x, q, Nat)
  <2>1. ASSUME NEW i \in DOMAIN x, NEW j \in DOMAIN q, q[j] \in Nat
        PROVE  x[i] < q[j]
    <3>1. CASE j = l
      BY <1>2, <1>3, <1>5, <3>1
    <3>2. CASE j # l
      BY <1>3, <1>5, <2>1, <3>2 DEF Ahead
    <3> QED BY <3>1, <3>2
  <2> QED BY <2>1 DEF Ahead
<1>6. Ahead(u, q, Nat) /\ Ahead(m, q, Nat)
  BY <1>1, <1>5 DEF InLine
<1>7. \A f : Has(u, f) \/ Has(m, f) \/ Has(q, f) <=> f \in (1 .. n + 1) \ drop
  <2>1. \A f : Has(q, f) <=> Has(r, f) \/ f = n + 1
    BY LongerHas
  <2>2. \A f : f \in (1 .. n + 1) \ drop <=> f \in (1 .. n) \ drop \/ f = n + 1
    BY <1>2
  <2> QED BY <2>1, <2>2 DEF InLine
<1>8. drop \subseteq 1 .. n + 1
  BY <1>2
<1> QED BY <1>2, <1>4, <1>6, <1>7, <1>8 DEF InLine

\* It is lost.
LEMMA LineLost ==
  ASSUME NEW u, NEW m, NEW r, NEW n, NEW drop, InLine(u, m, r, n, drop)
  PROVE  InLine(u, m, r, n + 1, drop \cup {n + 1})
<1>1. n \in Nat /\ n + 1 \in Nat /\ drop \subseteq 1 .. n
  BY DEF InLine
<1>2. (1 .. n + 1) \ (drop \cup {n + 1}) = (1 .. n) \ drop /\ drop \cup {n + 1} \subseteq 1 .. n + 1
  BY <1>1
<1> QED BY <1>1, <1>2 DEF InLine

LEMMA EmptySeq ==
  /\ <<>> \in Seq(Nat)
  /\ \A M : Among(<<>>, M)
  /\ \A e : ~Has(<<>>, e)
  /\ \A s, M : Ahead(s, <<>>, M) /\ Ahead(<<>>, s, M)
  BY DEF Among, Has, Ahead

\* A block is sent up.
LEMMA LineUp ==
  ASSUME NEW u, NEW m, NEW r, NEW n, NEW drop, InLine(u, m, r, n, drop), NEW v, v = u \o m
  PROVE  InLine(v, <<>>, r, n, drop)
<1>1. u \in Seq(Nat) /\ m \in Seq(Nat) /\ v = u \o m
  BY DEF InLine
<1>2. Both(v, u, m)
  BY ONLY <1>1, Joined
<1>3. v \in Seq(Nat)
  BY <1>2 DEF Both
<1>4. Among(u, Nat) /\ Among(m, Nat) /\ Ahead(u, m, Nat) /\ Ahead(u, r, Nat) /\ Ahead(m, r, Nat)
  BY DEF InLine
<1>5. Among(v, Nat)
  BY ONLY <1>1, <1>4, JoinedAmong
<1>6. Ahead(v, r, Nat)
  BY ONLY <1>1, <1>4, JoinedAhead
<1>7. \A e : Has(v, e) <=> Has(u, e) \/ Has(m, e)
  BY ONLY <1>1, JoinedHas
<1> QED BY <1>3, <1>5, <1>6, <1>7, EmptySeq DEF InLine

\* The first character of the ring goes into the block.
LEMMA LineTake ==
  ASSUME NEW u, NEW m, NEW r, NEW n, NEW drop, InLine(u, m, r, n, drop),
         NEW b, Longer(b, m, Head(r)), NEW q, Shorter(q, r)
  PROVE  InLine(u, b, q, n, drop)
<1>1. /\ q \in Seq(Nat) /\ 1 \in DOMAIN r /\ Head(r) = r[1]
      /\ \A i \in DOMAIN q : i \in Nat /\ i + 1 \in DOMAIN r /\ 1 < i + 1 /\ q[i] = r[i + 1]
  BY DEF Shorter
<1>2. PICK l \in DOMAIN b : /\ b[l] = r[1]
                            /\ \A i \in DOMAIN b : i = l \/ (i \in DOMAIN m /\ i < l /\ b[i] = m[i])
                            /\ \A i \in DOMAIN b : i \in Nat /\ ~(l < i)
  BY <1>1 DEF Longer
<1>3. \A i \in DOMAIN r : r[i] \in Nat
  BY InLineKnown
<1>4. \A i \in DOMAIN m : m[i] \in Nat
  BY InLineKnown
<1>5. \A i \in DOMAIN u : u[i] \in Nat
  BY InLineKnown
<1>6. Among(q, Nat)
  <2>1. ASSUME NEW i \in DOMAIN q, NEW j \in DOMAIN q, i < j
        PROVE  q[i] < q[j]
    <3>1. i \in Nat /\ j \in Nat /\ i + 1 \in DOMAIN r /\ j + 1 \in DOMAIN r
          /\ q[i] = r[i + 1] /\ q[j] = r[j + 1]
      BY <1>1
    <3>2. i + 1 < j + 1
      BY <2>1, <3>1
    <3> QED BY <1>3, <3>1, <3>2 DEF InLine, Among
  <2> QED BY <2>1 DEF Among
<1>7. Among(b, Nat)
  <2>1. ASSUME NEW i \in DOMAIN b, NEW j \in DOMAIN b, i < j, b[i] \in Nat, b[j] \in Nat
        PROVE  b[i] < b[j]
    <3>1. i # l
      BY <1>2, <2>1
    <3>2. i \in DOMAIN m /\ b[i] = m[i]
      BY <1>2, <3>1
    <3>3. CASE j = l
      BY <1>1, <1>2, <2>1, <3>2, <3>3 DEF InLine, Ahead
    <3>4. CASE j # l
      BY <1>2, <2>1, <3>2, <3>4 DEF InLine, Among
    <3> QED BY <3>3, <3>4
  <2> QED BY <2>1 DEF Among
<1>8. Ahead(u, b, Nat)
  BY <1>1, <1>2 DEF InLine, Ahead
<1>9. Ahead(u, q, Nat)
  BY <1>1 DEF InLine, Ahead
<1>10. Ahead(b, q, Nat)
  <2>1. ASSUME NEW i \in DOMAIN b, NEW j \in DOMAIN q, b[i] \in Nat, q[j] \in Nat
        PROVE  b[i] < q[j]
    <3>1. j + 1 \in DOMAIN r /\ 1 < j + 1 /\ q[j] = r[j + 1]
      BY <1>1
    <3>2. CASE i = l
      BY <1>1, <1>2, <2>1, <3>1, <3>2 DEF InLine, Among
    <3>3. CASE i # l
      BY <1>2, <2>1, <3>1, <3>3 DEF InLine, Ahead
    <3> QED BY <3>2, <3>3
  <2> QED BY <2>1 DEF Ahead
<1>11. \A f : Has(u, f) \/ Has(b, f) \/ Has(q, f) <=> f \in (1 .. n) \ drop
  <2>1. \A f : Has(b, f) <=> Has(m, f) \/ f = Head(r)
    BY LongerHas
  <2>2. \A f : Has(r, f) <=> Has(q, f) \/ f = Head(r)
    BY ShorterHas
  <2> QED BY <2>1, <2>2 DEF InLine
<1>12. b \in Seq(Nat)
  BY DEF Longer
<1> QED BY <1>1, <1>6, <1>7, <1>8, <1>9, <1>10, <1>11, <1>12 DEF InLine

\* It is a break and goes nowhere.
LEMMA LineSkip ==
  ASSUME NEW u, NEW m, NEW r, NEW n, NEW drop, InLine(u, m, r, n, drop), NEW q, Shorter(q, r)
  PROVE  InLine(u, m, q, n, drop \cup {Head(r)})
<1>1. /\ q \in Seq(Nat) /\ 1 \in DOMAIN r /\ Head(r) = r[1]
      /\ \A i \in DOMAIN q : i \in Nat /\ i + 1 \in DOMAIN r /\ 1 < i + 1 /\ q[i] = r[i + 1]
  BY DEF Shorter
<1>2. Head(r) \in 1 .. n /\ Has(r, Head(r))
  <2>1. Has(r, Head(r))
    BY <1>1 DEF Has
  <2> QED BY <2>1 DEF InLine
<1>3. \A i \in DOMAIN r : r[i] \in Nat
  BY InLineKnown
<1>4. Among(q, Nat)
  <2>1. ASSUME NEW i \in DOMAIN q, NEW j \in DOMAIN q, i < j
        PROVE  q[i] < q[j]
    <3>1. i \in Nat /\ j \in Nat /\ i + 1 \in DOMAIN r /\ j + 1 \in DOMAIN r
          /\ q[i] = r[i + 1] /\ q[j] = r[j + 1]
      BY <1>1
    <3>2. i + 1 < j + 1
      BY <2>1, <3>1
    <3> QED BY <1>3, <3>1, <3>2 DEF InLine, Among
  <2> QED BY <2>1 DEF Among
<1>5. Ahead(u, q, Nat) /\ Ahead(m, q, Nat)
  BY <1>1 DEF InLine, Ahead
<1>6. ~Has(u, Head(r)) /\ ~Has(m, Head(r)) /\ ~Has(q, Head(r))
  <2>0. r[1] \in Nat /\ ~(r[1] < r[1]) /\ Head(r) = r[1] /\ 1 \in DOMAIN r
    BY <1>1, <1>3
  <2>1. ~Has(u, Head(r))
    <3>1. Ahead(u, r, Nat)
      BY DEF InLine
    <3> QED BY ONLY <2>0, <3>1 DEF Ahead, Has
  <2>2. ~Has(m, Head(r))
    <3>1. Ahead(m, r, Nat)
      BY DEF InLine
    <3> QED BY ONLY <2>0, <3>1 DEF Ahead, Has
  <2>3. ~Has(q, Head(r))
    <3>1. ASSUME NEW j \in DOMAIN q, q[j] = r[1]
          PROVE  FALSE
      <4>1. j + 1 \in DOMAIN r /\ 1 < j + 1 /\ q[j] = r[j + 1]
        BY <1>1
      <4>2. Among(r, Nat)
        BY DEF InLine
      <4> QED BY ONLY <2>0, <3>1, <4>1, <4>2 DEF Among
    <3> QED BY <2>0, <3>1 DEF Has
  <2> QED BY <2>1, <2>2, <2>3
<1>7. \A f : Has(u, f) \/ Has(m, f) \/ Has(q, f) <=> f \in (1 .. n) \ (drop \cup {Head(r)})
  <2>1. \A f : Has(r, f) <=> Has(q, f) \/ f = Head(r)
    BY ShorterHas
  <2> QED BY <1>6, <2>1 DEF InLine
<1> QED BY <1>1, <1>2, <1>4, <1>5, <1>7 DEF InLine

\* The block is flushed.
LEMMA LineFlush ==
  ASSUME NEW u, NEW m, NEW r, NEW n, NEW drop, InLine(u, m, r, n, drop),
         NEW d, \A f : f \in d <=> Has(m, f)
  PROVE  InLine(u, <<>>, r, n, drop \cup d)
<1>1. \A f : Has(m, f) => ~Has(u, f) /\ ~Has(r, f) /\ f \in 1 .. n
  <2>1. \A f : Has(m, f) => f \in 1 .. n
    BY DEF InLine
  <2>2. ASSUME NEW f, Has(m, f)
        PROVE  ~Has(u, f) /\ ~Has(r, f)
    <3>1. Ahead(u, m, Nat) /\ Ahead(m, r, Nat) /\ n \in Nat
      BY DEF InLine
    <3>2. f \in Nat /\ ~(f < f)
      BY <2>1, <2>2, <3>1
    <3>3. ~Has(u, f)
      BY ONLY <2>2, <3>1, <3>2 DEF Ahead, Has
    <3>4. ~Has(r, f)
      BY ONLY <2>2, <3>1, <3>2 DEF Ahead, Has
    <3> QED BY <3>3, <3>4
  <2> QED BY <2>1, <2>2
<1>2. \A f : Has(u, f) \/ Has(r, f) <=> f \in (1 .. n) \ (drop \cup d)
  BY <1>1 DEF InLine
<1>3. drop \cup d \subseteq 1 .. n
  BY <1>1 DEF InLine
<1> QED BY <1>2, <1>3, EmptySeq DEF InLine

-----------------------------------------------------------------------------
(* Its receive ring, and its steps.                                        *)

SlTyped(s) ==
  /\ DOMAIN s = {"iflag", "rdq", "head", "tail", "buff", "rbf", "rts", "pc", "mp", "n",
                 "breaks", "lost", "gone", "up", "opens", "ignored"}
  /\ s.rdq \in BOOLEAN /\ s.rbf \in BOOLEAN /\ s.rts \in BOOLEAN /\ s.ignored \in BOOLEAN
  /\ s.head \in 0 .. SlBufSize - 1 /\ s.tail \in 0 .. SlBufSize - 1
  /\ s.buff \in [0 .. SlBufSize - 1 -> Nat]
  /\ s.pc \in {"idle", "loop", "enable", "rts"}
  /\ s.mp \in Seq(Nat) /\ Len(s.mp) <= SlGlob
  /\ s.up \in Seq(Nat) /\ s.n \in Nat /\ s.opens \in Nat

SlOrder(s) == InLine(s.up, s.mp, SlIn!RingSeq(s), s.n, s.lost \cup s.gone)

\* An interrupt that is off, or a dropped RTS, has a slpoll() to come that turns it on.
SlGoes(s) ==
  /\ s.rdq /\ s.pc \in {"idle", "loop"} /\ (~s.rbf \/ ~s.rts) =>
       SlIn!Held(s) > 0 \/ s.ignored
  /\ s.rdq /\ s.pc = "rts" /\ ~s.rbf => SlIn!Held(s) > 0
  /\ ~s.rdq => s.pc = "idle"

SlInv(s) == SlTyped(s) /\ SlOrder(s) /\ SlGoes(s)

LEMMA SlHeld ==
  ASSUME SlAssumption, NEW s, SlTyped(s)
  PROVE  /\ SlIn!Held(s) = RingFill(s.head, s.tail, SlBufSize)
         /\ SlIn!Held(s) \in 0 .. SlBufSize - 1
         /\ SlIn!Held(s) = 0 <=> s.head = s.tail
<1>1. SlBufSize \in Nat \ {0}
  BY DEF SlAssumption
<1>2. s.head \in 0 .. SlBufSize - 1 /\ s.tail \in 0 .. SlBufSize - 1
  BY DEF SlTyped
<1>3. SlIn!Held(s) = (SlBufSize + s.head - s.tail) % SlBufSize
  BY DEF SlIn!Held
<1>4. PICK h \in 0 .. SlBufSize - 1, t \in 0 .. SlBufSize - 1 : h = s.head /\ t = s.tail
  BY <1>2
<1>5. /\ (SlBufSize + h - t) % SlBufSize = RingFill(h, t, SlBufSize)
      /\ RingFill(h, t, SlBufSize) \in 0 .. SlBufSize - 1
      /\ RingFill(h, t, SlBufSize) = 0 <=> h = t
  BY <1>1, RingGap
<1>6. SlIn!Held(s) = RingFill(h, t, SlBufSize)
  BY <1>3, <1>4, <1>5
<1> QED BY <1>4, <1>5, <1>6

LEMMA SlRing ==
  ASSUME SlAssumption, NEW s, SlTyped(s), NEW q, q = SlIn!RingSeq(s), NEW h, h = SlIn!Held(s)
  PROVE  /\ q \in Seq(Nat)
         /\ DOMAIN q = 1 .. h
         /\ \A k \in 1 .. h : /\ RingSlot(s.tail, k, SlBufSize) \in 0 .. SlBufSize - 1
                             /\ q[k] = s.buff[RingSlot(s.tail, k, SlBufSize)]
<1>1. SlBufSize \in Nat \ {0}
  BY DEF SlAssumption
<1>2. s.tail \in 0 .. SlBufSize - 1 /\ s.buff \in [0 .. SlBufSize - 1 -> Nat]
  BY DEF SlTyped
<1>3. PICK t \in 0 .. SlBufSize - 1 : t = s.tail
  BY <1>2
<1>4. h \in 0 .. SlBufSize - 1
  BY SlHeld
<1>5. q = [k \in 1 .. h |-> s.buff[(t + k - 1) % SlBufSize]]
  BY <1>3 DEF SlIn!RingSeq
<1>6. ASSUME NEW k \in 1 .. h
      PROVE  /\ RingSlot(t, k, SlBufSize) \in 0 .. SlBufSize - 1
             /\ (t + k - 1) % SlBufSize = RingSlot(t, k, SlBufSize)
  <2>1. k \in 1 .. SlBufSize
    BY <1>1, <1>4
  <2> QED BY <1>1, <2>1, RingSlots
<1>7. ASSUME NEW k \in 1 .. h
      PROVE  q[k] = s.buff[RingSlot(t, k, SlBufSize)] /\ q[k] \in Nat
  <2>1. q[k] = s.buff[(t + k - 1) % SlBufSize]
    BY <1>5
  <2>2. q[k] = s.buff[RingSlot(t, k, SlBufSize)]
    BY <1>6, <2>1
  <2>3. \A i \in 0 .. SlBufSize - 1 : s.buff[i] \in Nat
    BY <1>2
  <2> QED BY <1>6, <2>2, <2>3
<1>8. h \in Nat /\ DOMAIN q = 1 .. h
  BY <1>1, <1>4, <1>5
<1>9. q \in [1 .. h -> Nat]
  BY <1>5, <1>7
<1>10. q \in Seq(Nat)
  BY <1>8, <1>9
<1> QED BY <1>3, <1>6, <1>7, <1>8, <1>10

LEMMA SlRingSame ==
  ASSUME NEW s, NEW t, t.head = s.head, t.tail = s.tail, t.buff = s.buff
  PROVE  SlIn!RingSeq(t) = SlIn!RingSeq(s) /\ SlIn!Held(t) = SlIn!Held(s)
<1>1. SlIn!Held(t) = SlIn!Held(s)
  BY DEF SlIn!Held
<1> QED BY <1>1 DEF SlIn!RingSeq

LEMMA SlRingPut ==
  ASSUME SlAssumption, NEW s, SlTyped(s), NEW t, SlTyped(t), NEW x \in Nat,
         SlIn!Held(s) < SlBufSize - 1,
         t.buff = [s.buff EXCEPT ![s.head] = x], t.head = (s.head + 1) % SlBufSize,
         t.tail = s.tail
  PROVE  /\ Longer(SlIn!RingSeq(t), SlIn!RingSeq(s), x)
         /\ SlIn!Held(t) = SlIn!Held(s) + 1
<1>1. SlBufSize \in Nat \ {0}
  BY DEF SlAssumption
<1>2. /\ s.head \in 0 .. SlBufSize - 1 /\ s.tail \in 0 .. SlBufSize - 1
      /\ s.buff \in [0 .. SlBufSize - 1 -> Nat]
  BY DEF SlTyped
<1>3. PICK hd \in 0 .. SlBufSize - 1, tl \in 0 .. SlBufSize - 1 : hd = s.head /\ tl = s.tail
  BY <1>2
<1>4. SlIn!Held(s) = RingFill(hd, tl, SlBufSize) /\ SlIn!Held(s) \in 0 .. SlBufSize - 1
  BY <1>3, SlHeld
<1>5. PICK h \in 0 .. SlBufSize - 1 : h = RingFill(hd, tl, SlBufSize) /\ h = SlIn!Held(s)
  BY <1>4
<1>6. PICK g : g = (hd + 1) % SlBufSize
  OBVIOUS
<1>7. RingFill(hd, tl, SlBufSize) < SlBufSize - 1
  BY <1>5
<1>8. /\ RingFill(g, tl, SlBufSize) = h + 1
      /\ RingSlot(tl, h + 1, SlBufSize) = hd
      /\ \A k \in 1 .. h : RingSlot(tl, k, SlBufSize) # hd
  <2>1. /\ RingFill((hd + 1) % SlBufSize, tl, SlBufSize) = RingFill(hd, tl, SlBufSize) + 1
        /\ RingSlot(tl, RingFill(hd, tl, SlBufSize) + 1, SlBufSize) = hd
        /\ \A k \in 1 .. RingFill(hd, tl, SlBufSize) : RingSlot(tl, k, SlBufSize) # hd
    BY ONLY <1>1, <1>3, <1>7, RingPutAt
  <2> QED BY <1>5, <1>6, <2>1
<1>9. t.head = g /\ t.tail = tl
  BY <1>3, <1>6
<1>10. SlIn!Held(t) = h + 1
  <2>1. SlIn!Held(t) = RingFill(t.head, t.tail, SlBufSize)
    BY SlHeld
  <2> QED BY <1>8, <1>9, <2>1
<1>11. PICK q : q = SlIn!RingSeq(s)
  OBVIOUS
<1>12. PICK r : r = SlIn!RingSeq(t)
  OBVIOUS
<1>13. /\ DOMAIN q = 1 .. h
       /\ \A k \in 1 .. h : /\ RingSlot(tl, k, SlBufSize) \in 0 .. SlBufSize - 1
                           /\ q[k] = s.buff[RingSlot(tl, k, SlBufSize)]
  BY <1>3, <1>5, <1>11, SlRing
<1>14. PICK n : n = h + 1 /\ n = SlIn!Held(t) /\ t.tail = tl
  BY <1>9, <1>10
<1>15. /\ r \in Seq(Nat) /\ DOMAIN r = 1 .. n
       /\ \A k \in 1 .. n : /\ RingSlot(tl, k, SlBufSize) \in 0 .. SlBufSize - 1
                           /\ r[k] = t.buff[RingSlot(tl, k, SlBufSize)]
  <2>1. /\ r \in Seq(Nat) /\ DOMAIN r = 1 .. n
        /\ \A k \in 1 .. n : /\ RingSlot(t.tail, k, SlBufSize) \in 0 .. SlBufSize - 1
                            /\ r[k] = t.buff[RingSlot(t.tail, k, SlBufSize)]
    BY ONLY SlAssumption, SlTyped(t), <1>12, <1>14, SlRing
  <2> QED BY <1>14, <2>1
<1>16. n \in 1 .. n /\ (\A k \in 1 .. h : k \in 1 .. n)
       /\ \A k \in 1 .. n : k \in Nat /\ ~(n < k) /\ (k = n \/ (k \in 1 .. h /\ k < n))
  BY <1>1, <1>14
<1>17. r[n] = x
  BY <1>2, <1>3, <1>8, <1>14, <1>15, <1>16
<1>18. ASSUME NEW k \in 1 .. h
       PROVE  r[k] = q[k]
  <2>1. RingSlot(tl, k, SlBufSize) # hd /\ RingSlot(tl, k, SlBufSize) \in 0 .. SlBufSize - 1
    BY <1>8, <1>13
  <2>2. t.buff[RingSlot(tl, k, SlBufSize)] = s.buff[RingSlot(tl, k, SlBufSize)]
    BY <1>2, <1>3, <2>1
  <2> QED BY <1>13, <1>15, <1>16, <2>2
<1>19. Longer(r, q, x)
  BY <1>13, <1>15, <1>16, <1>17, <1>18 DEF Longer
<1> QED BY <1>5, <1>10, <1>11, <1>12, <1>19

LEMMA SlRingGet ==
  ASSUME SlAssumption, NEW s, SlTyped(s), NEW t, SlTyped(t), s.tail # s.head,
         t.buff = s.buff, t.head = s.head, t.tail = (s.tail + 1) % SlBufSize
  PROVE  /\ Shorter(SlIn!RingSeq(t), SlIn!RingSeq(s))
         /\ Head(SlIn!RingSeq(s)) = s.buff[s.tail]
<1>1. SlBufSize \in Nat \ {0}
  BY DEF SlAssumption
<1>2. s.head \in 0 .. SlBufSize - 1 /\ s.tail \in 0 .. SlBufSize - 1
  BY DEF SlTyped
<1>3. PICK hd \in 0 .. SlBufSize - 1, tl \in 0 .. SlBufSize - 1 : hd = s.head /\ tl = s.tail
  BY <1>2
<1>4. SlIn!Held(s) = RingFill(hd, tl, SlBufSize)
  BY <1>3, SlHeld
<1>5. PICK c : c = RingFill(hd, tl, SlBufSize)
  OBVIOUS
<1>6. PICK u : u = (tl + 1) % SlBufSize
  OBVIOUS
<1>7. /\ c \in 1 .. SlBufSize - 1 /\ RingFill(hd, u, SlBufSize) = c - 1
      /\ RingSlot(tl, 1, SlBufSize) = tl
      /\ \A k \in 1 .. c - 1 : RingSlot(u, k, SlBufSize) = RingSlot(tl, k + 1, SlBufSize)
  <2>1. tl # hd
    BY <1>3
  <2>2. /\ RingFill(hd, tl, SlBufSize) \in 1 .. SlBufSize - 1
        /\ RingFill(hd, u, SlBufSize) = RingFill(hd, tl, SlBufSize) - 1
        /\ RingSlot(tl, 1, SlBufSize) = tl
        /\ \A k \in 1 .. RingFill(hd, tl, SlBufSize) - 1 :
             RingSlot(u, k, SlBufSize) = RingSlot(tl, k + 1, SlBufSize)
    <3>1. u \in 0 .. SlBufSize - 1
      BY <1>1, <1>3, <1>6, RingNext
    <3>2. hd \in 0 .. SlBufSize - 1 /\ tl \in 0 .. SlBufSize - 1 /\ u = (tl + 1) % SlBufSize
      BY <1>6
    <3> QED BY ONLY <1>1, <2>1, <3>1, <3>2, RingGetAt
  <2> QED BY <1>5, <1>6, <2>2
<1>8. t.head = hd /\ t.tail = u
  BY <1>3, <1>6
<1>9. SlIn!Held(t) = c - 1
  <2>1. SlIn!Held(t) = RingFill(t.head, t.tail, SlBufSize)
    BY SlHeld
  <2> QED BY <1>7, <1>8, <2>1
<1>10. PICK q : q = SlIn!RingSeq(s)
  OBVIOUS
<1>11. PICK r : r = SlIn!RingSeq(t)
  OBVIOUS
<1>12. /\ q \in Seq(Nat) /\ DOMAIN q = 1 .. c
       /\ \A k \in 1 .. c : q[k] = s.buff[RingSlot(tl, k, SlBufSize)]
  BY <1>3, <1>4, <1>5, <1>10, SlRing
<1>13. PICK d : d = c - 1
  OBVIOUS
<1>14. /\ r \in Seq(Nat) /\ DOMAIN r = 1 .. d
       /\ \A k \in 1 .. d : r[k] = s.buff[RingSlot(u, k, SlBufSize)]
  BY <1>8, <1>9, <1>11, <1>13, SlRing
<1>15. /\ 1 \in 1 .. c
       /\ \A k \in 1 .. d : k \in Nat /\ k + 1 \in 1 .. c /\ 1 < k + 1
       /\ \A i \in 1 .. c : i # 1 => \E k \in 1 .. d : i = k + 1
  <2>1. \A i \in 1 .. c : i # 1 => i - 1 \in 1 .. d /\ i = (i - 1) + 1
    BY <1>1, <1>7, <1>13
  <2> QED BY <1>1, <1>7, <1>13, <2>1
<1>16. \A k \in 1 .. d : r[k] = q[k + 1]
  <2>1. ASSUME NEW k \in 1 .. d
        PROVE  r[k] = q[k + 1]
    <3>1. r[k] = s.buff[RingSlot(u, k, SlBufSize)]
      BY <1>14
    <3>2. RingSlot(u, k, SlBufSize) = RingSlot(tl, k + 1, SlBufSize)
      BY <1>7, <1>13
    <3>3. q[k + 1] = s.buff[RingSlot(tl, k + 1, SlBufSize)]
      BY <1>12, <1>15
    <3> QED BY <3>1, <3>2, <3>3
  <2> QED BY <2>1
<1>17. \A i \in 1 .. c : i # 1 => \E k \in 1 .. d : q[i] = r[k]
  BY <1>15, <1>16
<1>18. Head(q) = q[1] /\ q[1] = s.buff[s.tail]
  BY <1>3, <1>7, <1>12, <1>15
<1>19. Shorter(r, q)
  BY ONLY <1>12, <1>14, <1>15, <1>16, <1>17, <1>18 DEF Shorter
<1> QED BY <1>10, <1>11, <1>18, <1>19

LEMMA SlInitial ==
  ASSUME SlAssumption, SlIn!Init
  PROVE  SlInv(ser)
<1>1. PICK f : ser = [iflag |-> f, rdq |-> FALSE,
                     head |-> 0, tail |-> 0, buff |-> [i \in 0 .. SlBufSize - 1 |-> 0],
                     rbf |-> FALSE, rts |-> FALSE, pc |-> "idle", mp |-> <<>>, n |-> 0,
                     breaks |-> {}, lost |-> {}, gone |-> {}, up |-> <<>>, opens |-> 0,
                     ignored |-> FALSE]
  BY DEF SlIn!Init
<1>2. SlBufSize \in Nat \ {0} /\ SlGlob \in Nat
  BY DEF SlAssumption
<1>3. SlTyped(ser)
  <2>1. ser.buff \in [0 .. SlBufSize - 1 -> Nat]
    BY <1>1
  <2>2. ser.head \in 0 .. SlBufSize - 1 /\ ser.tail \in 0 .. SlBufSize - 1
    BY <1>1, <1>2
  <2>3. ser.mp \in Seq(Nat) /\ Len(ser.mp) <= SlGlob /\ ser.up \in Seq(Nat)
    BY <1>1, <1>2
  <2> QED BY <1>1, <2>1, <2>2, <2>3 DEF SlTyped
<1>4. SlIn!Held(ser) = 0
  BY <1>1, <1>3, SlHeld
<1>5. SlOrder(ser)
  <2>1. PICK q : q = SlIn!RingSeq(ser)
    OBVIOUS
  <2>2. q \in Seq(Nat) /\ DOMAIN q = 1 .. 0
    BY <1>3, <1>4, <2>1, SlRing
  <2>3. Among(q, Nat) /\ (\A s : Ahead(s, q, Nat)) /\ \A e : ~Has(q, e)
    BY <2>2 DEF Among, Ahead, Has
  <2>4. ser.up = <<>> /\ ser.mp = <<>> /\ ser.n = 0 /\ ser.lost \cup ser.gone = {}
    BY <1>1
  <2>5. InLine(<<>>, <<>>, q, 0, {})
    BY <2>2, <2>3, EmptySeq DEF InLine
  <2> QED BY <2>1, <2>4, <2>5 DEF SlOrder
<1>6. SlGoes(ser)
  BY <1>1 DEF SlGoes
<1> QED BY <1>3, <1>5, <1>6 DEF SlInv

\* What a step leaves of the order when it does not touch the characters.
LEMMA SlOrderSame ==
  ASSUME NEW s, SlOrder(s), NEW t, t.head = s.head, t.tail = s.tail, t.buff = s.buff,
         t.up = s.up, t.mp = s.mp, t.n = s.n, t.lost = s.lost, t.gone = s.gone
  PROVE  SlOrder(t)
<1>1. SlIn!RingSeq(t) = SlIn!RingSeq(s)
  BY SlRingSame
<1> QED BY <1>1 DEF SlOrder

LEMMA SlArriveStep ==
  ASSUME SlAssumption, SlInv(ser), SlIn!Arrive
  PROVE  SlInv(ser')
<1>1. SlTyped(ser) /\ SlOrder(ser) /\ SlGoes(ser)
  BY DEF SlInv
<1>2. SlBufSize \in Nat \ {0} /\ SlBufSize >= 2
  BY DEF SlAssumption
<1>3. PICK i : i = ser.n + 1
  OBVIOUS
<1>4. PICK a, b : /\ a = [ser EXCEPT !.n = i, !.breaks = b]
                  /\ ser' = IF a.rbf THEN SlIn!SlRint(a, i) ELSE [a EXCEPT !.lost = @ \cup {i}]
  BY <1>3 DEF SlIn!Arrive
<1>5. ser.n \in Nat /\ i \in Nat
  BY <1>1, <1>3 DEF SlTyped
<1>6. SlTyped(a) /\ a.n = i /\ a.head = ser.head /\ a.tail = ser.tail /\ a.buff = ser.buff
      /\ a.up = ser.up /\ a.mp = ser.mp /\ a.lost = ser.lost /\ a.gone = ser.gone
      /\ a.rbf = ser.rbf /\ a.rts = ser.rts /\ a.rdq = ser.rdq /\ a.pc = ser.pc
      /\ a.ignored = ser.ignored
  BY <1>1, <1>4, <1>5 DEF SlTyped
<1>7. SlIn!Held(a) = SlIn!Held(ser) /\ SlIn!RingSeq(a) = SlIn!RingSeq(ser)
  BY <1>6, SlRingSame
<1>8. SlIn!Held(a) \in 0 .. SlBufSize - 1
  BY <1>6, SlHeld
<1>9. InLine(ser.up, ser.mp, SlIn!RingSeq(ser), ser.n, ser.lost \cup ser.gone)
  BY <1>1 DEF SlOrder
<1>10. ASSUME NEW t, SlTyped(t), t.head = a.head, t.tail = a.tail, t.buff = a.buff,
              t.up = a.up, t.mp = a.mp, t.lost = a.lost \cup {i}, t.gone = a.gone, t.n = a.n
       PROVE  SlOrder(t)
  <2>1. SlIn!RingSeq(t) = SlIn!RingSeq(ser)
    BY <1>6, <1>10, SlRingSame
  <2>2. InLine(ser.up, ser.mp, SlIn!RingSeq(ser), i, (ser.lost \cup ser.gone) \cup {i})
    BY <1>3, <1>9, LineLost
  <2>3. t.lost \cup t.gone = (ser.lost \cup ser.gone) \cup {i}
    BY <1>6, <1>10
  <2> QED BY <1>6, <1>10, <2>1, <2>2, <2>3 DEF SlOrder
<1>11. CASE ~a.rbf
  <2>1. ser' = [a EXCEPT !.lost = @ \cup {i}]
    BY <1>4, <1>11
  <2>2. SlTyped(ser')
    BY <1>6, <2>1 DEF SlTyped
  <2>3. /\ ser'.head = a.head /\ ser'.tail = a.tail /\ ser'.buff = a.buff /\ ser'.up = a.up
        /\ ser'.mp = a.mp /\ ser'.lost = a.lost \cup {i} /\ ser'.gone = a.gone /\ ser'.n = a.n
        /\ ser'.rbf = a.rbf /\ ser'.rts = a.rts /\ ser'.rdq = a.rdq /\ ser'.pc = a.pc
        /\ ser'.ignored = a.ignored
    BY <1>6, <2>1 DEF SlTyped
  <2>4. SlIn!Held(ser') = SlIn!Held(a)
    BY <2>3, SlRingSame
  <2>5. SlOrder(ser')
    BY <1>10, <2>2, <2>3
  <2>6. SlGoes(ser')
    BY <1>1, <1>6, <1>7, <2>3, <2>4 DEF SlGoes
  <2> QED BY <2>2, <2>5, <2>6 DEF SlInv
<1>12. CASE a.rbf /\ SlIn!Held(a) >= SlBufSize - 1
  <2>1. ser' = [a EXCEPT !.rbf = FALSE, !.lost = @ \cup {i}]
    BY <1>4, <1>12 DEF SlIn!SlRint
  <2>2. SlTyped(ser')
    BY <1>6, <2>1 DEF SlTyped
  <2>3. /\ ser'.head = a.head /\ ser'.tail = a.tail /\ ser'.buff = a.buff /\ ser'.up = a.up
        /\ ser'.mp = a.mp /\ ser'.lost = a.lost \cup {i} /\ ser'.gone = a.gone /\ ser'.n = a.n
        /\ ser'.rdq = a.rdq /\ ser'.pc = a.pc
    BY <1>6, <2>1 DEF SlTyped
  <2>4. SlIn!Held(ser') = SlIn!Held(a)
    BY <2>3, SlRingSame
  <2>5. SlOrder(ser')
    BY <1>10, <2>2, <2>3
  <2>6. SlIn!Held(ser') > 0
    BY <1>2, <1>8, <1>12, <2>4
  <2>7. SlGoes(ser')
    BY <1>1, <1>6, <2>3, <2>6 DEF SlGoes
  <2> QED BY <2>2, <2>5, <2>7 DEF SlInv
<1>13. CASE a.rbf /\ ~(SlIn!Held(a) >= SlBufSize - 1)
  <2>1. PICK c, r : /\ r \in BOOLEAN /\ c = [a EXCEPT !.rts = r]
                    /\ ser' = [c EXCEPT !.buff[c.head] = i, !.head = (@ + 1) % SlBufSize]
    <3>0. a.rts \in BOOLEAN
      BY <1>6 DEF SlTyped
    <3>1. a = [a EXCEPT !.rts = a.rts]
      BY <1>4, <1>1 DEF SlTyped
    <3>2. CASE SlIn!Held(a) > SlBufSize - SlLowWater
      <4>1. ser' = [[a EXCEPT !.rts = FALSE] EXCEPT !.buff[a.head] = i, !.head = (@ + 1) % SlBufSize]
        BY <1>4, <1>13, <3>2 DEF SlIn!SlRint
      <4>2. PICK c : c = [a EXCEPT !.rts = FALSE]
        OBVIOUS
      <4>3. c.head = a.head
        BY <1>6, <4>2 DEF SlTyped
      <4> QED BY <4>1, <4>2, <4>3
    <3>3. CASE ~(SlIn!Held(a) > SlBufSize - SlLowWater)
      <4>1. ser' = [a EXCEPT !.buff[a.head] = i, !.head = (@ + 1) % SlBufSize]
        BY <1>4, <1>13, <3>3 DEF SlIn!SlRint
      <4> QED BY <3>0, <3>1, <4>1
    <3> QED BY <3>2, <3>3
  <2>2. SlTyped(c) /\ c.n = a.n /\ c.head = a.head /\ c.tail = a.tail /\ c.buff = a.buff
        /\ c.up = a.up /\ c.mp = a.mp /\ c.lost = a.lost /\ c.gone = a.gone
        /\ c.rbf = a.rbf /\ c.rdq = a.rdq /\ c.pc = a.pc /\ c.ignored = a.ignored
    BY <1>6, <2>1 DEF SlTyped
  <2>3. SlIn!Held(c) = SlIn!Held(ser) /\ SlIn!RingSeq(c) = SlIn!RingSeq(ser)
    BY <1>6, <2>2, SlRingSame
  <2>4. c.head \in 0 .. SlBufSize - 1 /\ c.buff \in [0 .. SlBufSize - 1 -> Nat]
    BY <2>2 DEF SlTyped
  <2>5. (c.head + 1) % SlBufSize \in 0 .. SlBufSize - 1
    BY <1>2, <2>4
  <2>6. [c.buff EXCEPT ![c.head] = i] \in [0 .. SlBufSize - 1 -> Nat]
    BY <1>5, <2>4
  <2>7. ser'.buff = [c.buff EXCEPT ![c.head] = i] /\ ser'.head = (c.head + 1) % SlBufSize
    BY <2>1, <2>2 DEF SlTyped
  <2>8. /\ DOMAIN ser' = DOMAIN c
        /\ ser'.tail = c.tail /\ ser'.up = c.up /\ ser'.mp = c.mp /\ ser'.lost = c.lost
        /\ ser'.gone = c.gone /\ ser'.n = c.n /\ ser'.rbf = c.rbf /\ ser'.rts = c.rts
        /\ ser'.rdq = c.rdq /\ ser'.pc = c.pc /\ ser'.ignored = c.ignored /\ ser'.opens = c.opens
    BY <2>1, <2>2 DEF SlTyped
  <2>9. SlTyped(ser')
    BY <2>2, <2>5, <2>6, <2>7, <2>8 DEF SlTyped
  <2>10. SlIn!Held(c) < SlBufSize - 1
    BY <1>2, <1>7, <1>8, <1>13, <2>3
  <2>11. Longer(SlIn!RingSeq(ser'), SlIn!RingSeq(c), i) /\ SlIn!Held(ser') = SlIn!Held(c) + 1
    BY <1>5, <2>2, <2>7, <2>8, <2>9, <2>10, SlRingPut
  <2>12. SlOrder(ser')
    <3>1. PICK q : q = SlIn!RingSeq(ser')
      OBVIOUS
    <3>2. Longer(q, SlIn!RingSeq(ser), ser.n + 1)
      BY <1>3, <2>3, <2>11, <3>1
    <3>3. InLine(ser.up, ser.mp, q, ser.n + 1, ser.lost \cup ser.gone)
      BY <1>9, <3>2, LineArrives
    <3> QED BY <1>3, <1>6, <2>2, <2>8, <3>1, <3>3 DEF SlOrder
  <2>13. SlIn!Held(ser') > 0
    BY <1>2, <1>7, <1>8, <2>3, <2>11
  <2>14. SlGoes(ser')
    BY <1>1, <1>6, <2>2, <2>8, <2>13 DEF SlGoes
  <2> QED BY <2>9, <2>12, <2>14 DEF SlInv
<1> QED BY <1>11, <1>12, <1>13

LEMMA SlQuietStep ==
  ASSUME SlAssumption, SlInv(ser),
         SlIn!Open \/ SlIn!Close \/ SlIn!PollBegin \/ SlIn!PollEnable \/ SlIn!PollRts
  PROVE  SlInv(ser')
<1>1. SlTyped(ser) /\ SlOrder(ser) /\ SlGoes(ser)
  BY DEF SlInv
<1>2. SlBufSize \in Nat /\ SlHighWater \in Nat /\ SlHighWater < SlBufSize
  BY DEF SlAssumption
<1>3. /\ DOMAIN ser' = DOMAIN ser
      /\ ser'.head = ser.head /\ ser'.tail = ser.tail /\ ser'.buff = ser.buff
      /\ ser'.up = ser.up /\ ser'.mp = ser.mp /\ ser'.n = ser.n /\ ser'.lost = ser.lost
      /\ ser'.gone = ser.gone
      /\ ser'.rdq \in BOOLEAN /\ ser'.rbf \in BOOLEAN /\ ser'.rts \in BOOLEAN
      /\ ser'.ignored \in BOOLEAN /\ ser'.opens \in Nat
      /\ ser'.pc \in {"idle", "loop", "enable", "rts"}
  <2>1. CASE SlIn!Open
    BY <1>1, <2>1 DEF SlIn!Open, SlTyped
  <2>2. CASE SlIn!Close
    BY <1>1, <2>2 DEF SlIn!Close, SlTyped
  <2>3. CASE SlIn!PollBegin
    BY <1>1, <2>3 DEF SlIn!PollBegin, SlTyped
  <2>4. CASE SlIn!PollEnable
    BY <1>1, <2>4 DEF SlIn!PollEnable, SlTyped
  <2>5. CASE SlIn!PollRts
    <3>1. PICK r \in BOOLEAN : r = (ser.rts \/ SlIn!Held(ser) < SlBufSize - SlHighWater)
      OBVIOUS
    <3>2. ser' = [ser EXCEPT !.rts = r, !.pc = "loop"]
      BY <1>1, <2>5, <3>1 DEF SlIn!PollRts, SlTyped
    <3> QED BY <1>1, <3>2 DEF SlTyped
  <2> QED BY <2>1, <2>2, <2>3, <2>4, <2>5
<1>5. SlTyped(ser')
  BY <1>1, <1>3 DEF SlTyped
<1>6. SlOrder(ser')
  BY <1>1, <1>3, SlOrderSame
<1>7. SlIn!Held(ser') = SlIn!Held(ser)
  BY <1>3, SlRingSame
<1>8. SlIn!Held(ser) \in Nat
  <2>1. SlIn!Held(ser) \in 0 .. SlBufSize - 1
    BY <1>1, SlHeld
  <2> QED BY <1>2, <2>1
<1>9. SlGoes(ser')
  <2>0. PICK h \in Nat : h = SlIn!Held(ser) /\ h = SlIn!Held(ser')
    BY <1>7, <1>8
  <2>1. CASE SlIn!Open
    <3>1. ser'.rbf /\ ser'.rts /\ ser'.pc = ser.pc /\ ser'.rdq
      BY <1>1, <2>1 DEF SlIn!Open, SlTyped
    <3> QED BY <3>1 DEF SlGoes
  <2>2. CASE SlIn!Close
    <3>1. ~ser'.rdq /\ ser'.pc = "idle"
      BY <1>1, <2>2 DEF SlIn!Close, SlTyped
    <3> QED BY <3>1 DEF SlGoes
  <2>3. CASE SlIn!PollBegin
    <3>1. ser'.rdq = ser.rdq /\ ser'.rbf = ser.rbf /\ ser'.rts = ser.rts /\ ser'.ignored = ser.ignored
          /\ ser.rdq /\ ser.pc = "idle" /\ ser'.pc = "loop"
      BY <1>1, <2>3 DEF SlIn!PollBegin, SlTyped
    <3> QED BY <1>1, <2>0, <3>1 DEF SlGoes
  <2>4. CASE SlIn!PollEnable
    <3>1. ser'.rdq = ser.rdq /\ ser'.rbf /\ ser.pc = "enable" /\ ser'.pc = "rts"
      BY <1>1, <2>4 DEF SlIn!PollEnable, SlTyped
    <3> QED BY <1>1, <3>1 DEF SlGoes
  <2>5. CASE SlIn!PollRts
    <3>1. PICK r \in BOOLEAN : r = (ser.rts \/ h < SlBufSize - SlHighWater)
      OBVIOUS
    <3>2. ser' = [ser EXCEPT !.rts = r, !.pc = "loop"] /\ ser.pc = "rts"
      BY <1>1, <2>0, <2>5, <3>1 DEF SlIn!PollRts, SlTyped
    <3>3. ser'.rdq = ser.rdq /\ ser'.rbf = ser.rbf /\ ser'.rts = r /\ ser'.pc = "loop"
      BY <1>1, <3>2 DEF SlTyped
    <3>4. ~r => h > 0
      <4>1. ~r => ~(h < SlBufSize - SlHighWater)
        BY ONLY <3>1, Zenon
      <4>2. ~(h < SlBufSize - SlHighWater) => h > 0
        BY <1>2
      <4> QED BY <4>1, <4>2
    <3> QED BY <1>1, <2>0, <3>2, <3>3, <3>4 DEF SlGoes
  <2> QED BY <2>1, <2>2, <2>3, <2>4, <2>5
<1> QED BY <1>5, <1>6, <1>9 DEF SlInv

\* The loop takes characters out.
LEMMA JoinedSeq ==
  ASSUME NEW s, s \in Seq(Nat), NEW t, t \in Seq(Nat)
  PROVE  \E v : v = s \o t /\ v \in Seq(Nat)
<1>1. PICK v : v = s \o t
  OBVIOUS
<1>2. Both(v, s, t)
  BY ONLY s \in Seq(Nat), t \in Seq(Nat), <1>1, Joined
<1> QED BY <1>1, <1>2 DEF Both

SlKeeps(s, t) == /\ t.rdq = s.rdq /\ t.rbf = s.rbf /\ t.rts = s.rts /\ t.n = s.n
                 /\ t.head = s.head /\ t.buff = s.buff /\ t.lost = s.lost

LEMMA SlPollEndStep ==
  ASSUME SlAssumption, SlInv(ser), SlIn!PollEnd
  PROVE  SlInv(ser')
<1>1. SlTyped(ser) /\ SlOrder(ser) /\ SlGoes(ser)
  BY DEF SlInv
<1>2. SlGlob \in Nat
  BY DEF SlAssumption
<1>3. ser.up \in Seq(Nat) /\ ser.mp \in Seq(Nat)
  BY <1>1 DEF SlTyped
<1>4. PICK v : v = ser.up \o ser.mp /\ v \in Seq(Nat)
  BY <1>3, JoinedSeq
<1>5. /\ ser' = [ser EXCEPT !.up = v, !.mp = <<>>, !.pc = "idle"] /\ ser.pc = "loop"
  BY <1>1, <1>4 DEF SlIn!PollEnd, SlIn!SendUp, SlTyped
<1>6. /\ DOMAIN ser' = DOMAIN ser /\ SlKeeps(ser, ser') /\ ser'.tail = ser.tail
      /\ ser'.up = v /\ ser'.mp = <<>> /\ ser'.gone = ser.gone /\ ser'.pc = "idle"
      /\ ser'.ignored = ser.ignored /\ ser'.opens = ser.opens
  BY <1>1, <1>5 DEF SlTyped, SlKeeps
<1>7. SlTyped(ser')
  <2>1. <<>> \in Seq(Nat) /\ Len(<<>>) <= SlGlob
    BY <1>2
  <2> QED BY <1>1, <1>4, <1>6, <2>1 DEF SlTyped, SlKeeps
<1>8. SlIn!RingSeq(ser') = SlIn!RingSeq(ser) /\ SlIn!Held(ser') = SlIn!Held(ser)
  BY <1>6, SlRingSame DEF SlKeeps
<1>9. SlOrder(ser')
  <2>1. PICK q : q = SlIn!RingSeq(ser)
    OBVIOUS
  <2>2. InLine(v, <<>>, q, ser.n, ser.lost \cup ser.gone)
    BY <1>1, <1>4, <2>1, LineUp DEF SlOrder
  <2> QED BY <1>6, <1>8, <2>1, <2>2 DEF SlOrder, SlKeeps
<1>10. SlGoes(ser')
  BY <1>1, <1>5, <1>6, <1>8 DEF SlGoes, SlKeeps
<1> QED BY <1>7, <1>9, <1>10 DEF SlInv

LEMMA SlPollBreakStep ==
  ASSUME SlAssumption, SlInv(ser), SlIn!PollBreak
  PROVE  SlInv(ser')
<1>1. SlTyped(ser) /\ SlOrder(ser) /\ SlGoes(ser)
  BY DEF SlInv
<1>2. SlGlob \in Nat /\ SlBufSize \in Nat \ {0}
  BY DEF SlAssumption
<1>3. ser.up \in Seq(Nat) /\ ser.mp \in Seq(Nat)
  BY <1>1 DEF SlTyped
<1>4. PICK x : x = ser.buff[ser.tail]
  OBVIOUS
<1>5. PICK k : k = (ser.tail + 1) % SlBufSize
  OBVIOUS
<1>6. PICK a : a = [ser EXCEPT !.tail = k, !.gone = @ \cup {x}]
  OBVIOUS
<1>7. /\ ser.pc = "loop" /\ ser.tail # ser.head
      /\ \/ ser' = [a EXCEPT !.ignored = TRUE]
         \/ ser' = [[a EXCEPT !.up = @ \o a.mp, !.mp = <<>>] EXCEPT !.pc = "enable"]
         \/ ser' = [a EXCEPT !.mp = <<>>, !.gone = @ \cup SlIn!Range(ser.mp), !.pc = "enable"]
  BY <1>4, <1>5, <1>6 DEF SlIn!PollBreak, SlIn!SendUp
<1>8. /\ DOMAIN a = DOMAIN ser /\ SlKeeps(ser, a) /\ a.tail = k /\ a.gone = ser.gone \cup {x}
      /\ a.up = ser.up /\ a.mp = ser.mp /\ a.pc = "loop" /\ a.ignored = ser.ignored
      /\ a.opens = ser.opens
  BY <1>1, <1>6, <1>7 DEF SlTyped, SlKeeps
<1>9. k \in 0 .. SlBufSize - 1
  <2>1. ser.tail \in 0 .. SlBufSize - 1
    BY <1>1 DEF SlTyped
  <2> QED BY <1>2, <1>5, <2>1
<1>10. SlTyped(a)
  BY <1>1, <1>8, <1>9 DEF SlTyped, SlKeeps
<1>11. PICK q : q = SlIn!RingSeq(a)
  OBVIOUS
<1>12. Shorter(q, SlIn!RingSeq(ser)) /\ Head(SlIn!RingSeq(ser)) = x
  BY <1>1, <1>4, <1>5, <1>7, <1>8, <1>10, <1>11, SlRingGet DEF SlKeeps
<1>13. PICK drop : drop = (ser.lost \cup ser.gone) \cup {x} /\ drop = a.lost \cup a.gone
  BY <1>8 DEF SlKeeps
<1>14. InLine(a.up, a.mp, q, a.n, drop)
  <2>1. InLine(ser.up, ser.mp, SlIn!RingSeq(ser), ser.n, ser.lost \cup ser.gone)
    BY <1>1 DEF SlOrder
  <2>2. InLine(ser.up, ser.mp, q, ser.n, (ser.lost \cup ser.gone) \cup {x})
    BY <1>12, <2>1, LineSkip
  <2> QED BY <1>8, <1>13, <2>2 DEF SlKeeps
<1>15. ser.rdq
  BY <1>1, <1>7 DEF SlGoes, SlTyped
<1>16. CASE ser' = [a EXCEPT !.ignored = TRUE]
  <2>1. /\ DOMAIN ser' = DOMAIN a /\ SlKeeps(a, ser') /\ ser'.tail = a.tail /\ ser'.gone = a.gone
        /\ ser'.up = a.up /\ ser'.mp = a.mp /\ ser'.pc = a.pc /\ ser'.ignored /\ ser'.ignored = TRUE
        /\ ser'.opens = a.opens
    BY <1>10, <1>16 DEF SlTyped, SlKeeps
  <2>2. SlTyped(ser')
    BY <1>10, <2>1 DEF SlTyped, SlKeeps
  <2>3. SlIn!RingSeq(ser') = q
    BY <1>11, <2>1, SlRingSame DEF SlKeeps
  <2>4. SlOrder(ser')
    BY <1>13, <1>14, <2>1, <2>3 DEF SlOrder, SlKeeps
  <2>5. SlGoes(ser')
    BY <1>8, <1>15, <2>1 DEF SlGoes, SlKeeps
  <2> QED BY <2>2, <2>4, <2>5 DEF SlInv
<1>17. CASE ser' = [[a EXCEPT !.up = @ \o a.mp, !.mp = <<>>] EXCEPT !.pc = "enable"]
  <2>1. PICK v : v = a.up \o a.mp /\ v \in Seq(Nat)
    BY <1>3, <1>8, JoinedSeq
  <2>2. ser' = [a EXCEPT !.up = v, !.mp = <<>>, !.pc = "enable"]
    BY <1>10, <1>17, <2>1 DEF SlTyped
  <2>3. /\ DOMAIN ser' = DOMAIN a /\ SlKeeps(a, ser') /\ ser'.tail = a.tail /\ ser'.gone = a.gone
        /\ ser'.up = v /\ ser'.mp = <<>> /\ ser'.pc = "enable" /\ ser'.ignored = a.ignored
        /\ ser'.opens = a.opens
    BY <1>10, <2>2 DEF SlTyped, SlKeeps
  <2>4. SlTyped(ser')
    <3>1. <<>> \in Seq(Nat) /\ Len(<<>>) <= SlGlob
      BY <1>2
    <3> QED BY <1>10, <2>1, <2>3, <3>1 DEF SlTyped, SlKeeps
  <2>5. SlIn!RingSeq(ser') = q
    BY <1>11, <2>3, SlRingSame DEF SlKeeps
  <2>6. InLine(v, <<>>, q, a.n, drop)
    BY <1>14, <2>1, LineUp
  <2>7. SlOrder(ser')
    BY <1>13, <2>3, <2>5, <2>6 DEF SlOrder, SlKeeps
  <2>8. SlGoes(ser')
    BY <1>8, <1>15, <2>3 DEF SlGoes, SlKeeps
  <2> QED BY <2>4, <2>7, <2>8 DEF SlInv
<1>18. CASE ser' = [a EXCEPT !.mp = <<>>, !.gone = @ \cup SlIn!Range(ser.mp), !.pc = "enable"]
  <2>1. PICK d : d = SlIn!Range(ser.mp)
    OBVIOUS
  <2>2. /\ DOMAIN ser' = DOMAIN a /\ SlKeeps(a, ser') /\ ser'.tail = a.tail
        /\ ser'.gone = a.gone \cup d
        /\ ser'.up = a.up /\ ser'.mp = <<>> /\ ser'.pc = "enable" /\ ser'.ignored = a.ignored
        /\ ser'.opens = a.opens
    BY <1>10, <1>18, <2>1 DEF SlTyped, SlKeeps
  <2>3. SlTyped(ser')
    <3>1. <<>> \in Seq(Nat) /\ Len(<<>>) <= SlGlob
      BY <1>2
    <3> QED BY <1>10, <2>2, <3>1 DEF SlTyped, SlKeeps
  <2>4. SlIn!RingSeq(ser') = q
    BY <1>11, <2>2, SlRingSame DEF SlKeeps
  <2>5. \A f : f \in d <=> Has(a.mp, f)
    BY <1>8, <2>1 DEF SlIn!Range, Has
  <2>6. InLine(a.up, <<>>, q, a.n, drop \cup d)
    BY <1>14, <2>5, LineFlush
  <2>7. drop \cup d = ser'.lost \cup ser'.gone
    BY <1>13, <2>2 DEF SlKeeps
  <2>8. SlOrder(ser')
    BY <2>2, <2>4, <2>6, <2>7 DEF SlOrder, SlKeeps
  <2>9. SlGoes(ser')
    BY <1>8, <1>15, <2>2 DEF SlGoes, SlKeeps
  <2> QED BY <2>3, <2>8, <2>9 DEF SlInv
<1> QED BY <1>7, <1>16, <1>17, <1>18

LEMMA SlPollCharStep ==
  ASSUME SlAssumption, SlInv(ser), SlIn!PollChar
  PROVE  SlInv(ser')
<1>1. SlTyped(ser) /\ SlOrder(ser) /\ SlGoes(ser)
  BY DEF SlInv
<1>2. SlGlob \in Nat /\ SlGlob >= 1 /\ SlBufSize \in Nat \ {0}
  BY DEF SlAssumption
<1>3. ser.up \in Seq(Nat) /\ ser.mp \in Seq(Nat) /\ Len(ser.mp) <= SlGlob
  BY <1>1 DEF SlTyped
<1>4. PICK x : x = ser.buff[ser.tail]
  OBVIOUS
<1>5. PICK k : k = (ser.tail + 1) % SlBufSize
  OBVIOUS
<1>6. k \in 0 .. SlBufSize - 1 /\ x \in Nat
  <2>1. ser.tail \in 0 .. SlBufSize - 1 /\ ser.buff \in [0 .. SlBufSize - 1 -> Nat]
    BY <1>1 DEF SlTyped
  <2> QED BY <1>2, <1>4, <1>5, <2>1
<1>7. ser.pc = "loop" /\ ser.tail # ser.head
  BY DEF SlIn!PollChar
<1>8. PICK q : q = SlIn!RingSeq(ser)
  OBVIOUS
<1>9. InLine(ser.up, ser.mp, q, ser.n, ser.lost \cup ser.gone)
  BY <1>1, <1>8 DEF SlOrder
\* The block is full and goes up first, or it is not.
<1>10. PICK u, m : /\ u \in Seq(Nat) /\ m \in Seq(Nat) /\ Len(m) < SlGlob
                   /\ InLine(u, m, q, ser.n, ser.lost \cup ser.gone)
                   /\ ser' = [ser EXCEPT !.up = u, !.tail = k, !.mp = Append(m, x), !.pc = "enable"]
  <2>1. CASE Len(ser.mp) >= SlGlob
    <3>1. PICK v : v = ser.up \o ser.mp /\ v \in Seq(Nat)
      BY <1>3, JoinedSeq
    <3>2. PICK a : a = [ser EXCEPT !.up = v, !.mp = <<>>]
      OBVIOUS
    <3>3. ser' = [a EXCEPT !.tail = (@ + 1) % SlBufSize, !.mp = Append(@, ser.buff[ser.tail]),
                           !.pc = "enable"]
      BY <1>3, <2>1, <3>1, <3>2 DEF SlIn!PollChar, SlIn!SendUp
    <3>4. a.mp = <<>> /\ a.tail = ser.tail
      BY <1>1, <3>2 DEF SlTyped
    <3>5. ser' = [a EXCEPT !.tail = k, !.mp = Append(<<>>, x), !.pc = "enable"]
      BY <1>4, <1>5, <3>3, <3>4
    <3>6. ser' = [ser EXCEPT !.up = v, !.tail = k, !.mp = Append(<<>>, x), !.pc = "enable"]
      BY <1>1, <3>2, <3>5 DEF SlTyped
    <3>7. InLine(v, <<>>, q, ser.n, ser.lost \cup ser.gone)
      BY <1>9, <3>1, LineUp
    <3>8. <<>> \in Seq(Nat) /\ Len(<<>>) < SlGlob
      BY <1>2
    <3> QED BY <3>1, <3>6, <3>7, <3>8
  <2>2. CASE ~(Len(ser.mp) >= SlGlob)
    <3>1. ser' = [ser EXCEPT !.tail = k, !.mp = Append(ser.mp, x), !.pc = "enable"]
      BY <1>4, <1>5, <2>2 DEF SlIn!PollChar
    <3>2. ser' = [ser EXCEPT !.up = ser.up, !.tail = k, !.mp = Append(ser.mp, x), !.pc = "enable"]
      BY <1>1, <3>1 DEF SlTyped
    <3>3. Len(ser.mp) < SlGlob
      BY <1>2, <1>3, <2>2
    <3> QED BY <1>3, <1>9, <3>2, <3>3
  <2> QED BY <2>1, <2>2
<1>11. PICK b : b = Append(m, x)
  OBVIOUS
<1>12. Longer(b, m, x)
  BY <1>6, <1>10, <1>11, AppendOf
<1>13. b \in Seq(Nat) /\ Len(b) <= SlGlob
  BY <1>2, <1>6, <1>10, <1>11
<1>14. /\ DOMAIN ser' = DOMAIN ser /\ SlKeeps(ser, ser') /\ ser'.tail = k /\ ser'.gone = ser.gone
       /\ ser'.up = u /\ ser'.mp = b /\ ser'.pc = "enable" /\ ser'.ignored = ser.ignored
       /\ ser'.opens = ser.opens
  BY <1>1, <1>10, <1>11 DEF SlTyped, SlKeeps
<1>15. SlTyped(ser')
  BY <1>1, <1>6, <1>10, <1>13, <1>14 DEF SlTyped, SlKeeps
<1>16. PICK r : r = SlIn!RingSeq(ser')
  OBVIOUS
<1>17. Shorter(r, q) /\ Head(q) = x
  BY <1>1, <1>4, <1>5, <1>7, <1>8, <1>14, <1>15, <1>16, SlRingGet DEF SlKeeps
<1>18. InLine(u, b, r, ser.n, ser.lost \cup ser.gone)
  BY <1>10, <1>12, <1>17, LineTake
<1>19. SlOrder(ser')
  BY <1>14, <1>16, <1>18 DEF SlOrder, SlKeeps
<1>20. SlGoes(ser')
  <2>1. ser.rdq
    BY <1>1, <1>7 DEF SlGoes, SlTyped
  <2> QED BY <1>14, <2>1 DEF SlGoes, SlKeeps
<1> QED BY <1>15, <1>19, <1>20 DEF SlInv

LEMMA SlStep ==
  ASSUME SlAssumption, SlInv(ser), [SlIn!Next]_ser
  PROVE  SlInv(ser')
<1>1. CASE UNCHANGED ser
  BY <1>1
<1>2. CASE SlIn!Done
  BY <1>2 DEF SlIn!Done
<1> QED BY <1>1, <1>2, SlArriveStep, SlQuietStep, SlPollEndStep, SlPollBreakStep, SlPollCharStep
    DEF SlIn!Next

LEMMA SlGood ==
  ASSUME SlAssumption, SlInv(ser)
  PROVE  SlIn!TypeOK /\ SlIn!InputInOrder /\ SlIn!InputNotStalled
<1>1. SlTyped(ser) /\ SlOrder(ser) /\ SlGoes(ser)
  BY DEF SlInv
<1>2. SlIn!TypeOK
  BY <1>1 DEF SlTyped, SlIn!TypeOK
<1>3. SlIn!InputNotStalled
  BY <1>1 DEF SlGoes, SlIn!InputNotStalled
<1>4. SlIn!InputInOrder
  <2>1. PICK q : q = SlIn!RingSeq(ser)
    OBVIOUS
  <2>2. PICK u, m : u = ser.up /\ m = ser.mp
    OBVIOUS
  <2>3. InLine(u, m, q, ser.n, ser.lost \cup ser.gone)
    BY <1>1, <2>1, <2>2 DEF SlOrder
  <2>4. u \in Seq(Nat) /\ m \in Seq(Nat) /\ q \in Seq(Nat)
    BY <2>3 DEF InLine
  <2>5. /\ Among(u, Nat) /\ Among(m, Nat) /\ Among(q, Nat)
        /\ Ahead(u, m, Nat) /\ Ahead(u, q, Nat) /\ Ahead(m, q, Nat)
        /\ \A f : Has(u, f) \/ Has(m, f) \/ Has(q, f) <=> f \in (1 .. ser.n) \ (ser.lost \cup ser.gone)
    BY <2>3 DEF InLine
  <2>6. PICK v : v = u \o m
    OBVIOUS
  <2>7. PICK w : w = v \o q
    OBVIOUS
  <2>8. Both(v, u, m)
    BY ONLY <2>4, <2>6, Joined
  <2>9. v \in Seq(Nat)
    BY <2>8 DEF Both
  <2>10. Among(v, Nat)
    BY ONLY <2>4, <2>5, <2>6, JoinedAmong
  <2>11. Ahead(v, q, Nat)
    BY ONLY <2>4, <2>5, <2>6, JoinedAhead
  <2>12. Both(w, v, q)
    BY ONLY <2>4, <2>7, <2>9, Joined
  <2>13. w \in Seq(Nat)
    BY <2>12 DEF Both
  <2>14. Among(w, Nat)
    BY ONLY <2>4, <2>5, <2>7, <2>9, <2>10, <2>11, JoinedAmong
  <2>15. ASSUME NEW e
         PROVE  Has(w, e) <=> Has(u, e) \/ Has(m, e) \/ Has(q, e)
    <3>1. Has(w, e) <=> Has(v, e) \/ Has(q, e)
      BY ONLY <2>4, <2>7, <2>9, JoinedHas
    <3>2. Has(v, e) <=> Has(u, e) \/ Has(m, e)
      BY ONLY <2>4, <2>6, JoinedHas
    <3> QED BY <3>1, <3>2
  <2>16. \A j, k \in DOMAIN w : j < k => w[j] < w[k]
    <3>1. \A j \in DOMAIN w : w[j] \in Nat
      BY <2>13
    <3> QED BY <2>14, <3>1 DEF Among
  <2>17. SlIn!Range(w) = (1 .. ser.n) \ (ser.lost \cup ser.gone)
    <3>1. \A f : f \in SlIn!Range(w) <=> Has(w, f)
      BY DEF SlIn!Range, Has
    <3> QED BY <2>5, <2>15, <3>1
  <2>18. w = ser.up \o ser.mp \o SlIn!RingSeq(ser)
    BY <2>1, <2>2, <2>6, <2>7
  <2> QED BY <2>16, <2>17, <2>18 DEF SlIn!InputInOrder
<1> QED BY <1>2, <1>3, <1>4

-----------------------------------------------------------------------------
(* The parallel port.                                                      *)

ParFlags == {"OUTPUT", "OUTSLP", "FLUSHING", "OUTPEND", "OUTSTOP", "OUTERR"}

ParStates == {"outslp", "sync", "flush", "shut", "open", "write", "fsync", "close"}

ParTyped(p) ==
  /\ DOMAIN p = {"flags", "outq", "cur", "id", "timers", "ready", "owed", "port", "user", "acc",
                 "opens", "late", "reset"}
  /\ p.flags \subseteq ParFlags
  /\ p.outq \in Seq(Nat) /\ \A i \in 1 .. Len(p.outq) : p.outq[i] \in 1 .. ParBytes
  /\ p.port \in Seq(Nat) /\ p.cur \in Nat
  /\ \A t \in p.timers : t[2] \in {"parstart", "partimeout"}
  /\ p.ready \in BOOLEAN /\ p.reset \in BOOLEAN
  /\ p.owed \in Nat /\ p.acc \in 0 .. ParBytes /\ p.late \in Nat
  /\ p.user \in [ParUsers -> ParStates]

ParSleeps(p, u) == p.user[u] \in {"outslp", "sync", "flush"}

ParPending(p) == "OUTPEND" \in p.flags
ParStopped(p) == "OUTPEND" \in p.flags /\ "OUTSTOP" \in p.flags

\* As long as no open and no interrupted close has cut in: a pending byte has the one timeout
\* there is, and nobody sleeps without one.
ParClean(p) ==
  /\ ParPending(p) => \E f \in {"parstart", "partimeout"} :
                        p.timers = {<<p.id, f>>} /\ (f = "parstart" <=> "OUTSTOP" \in p.flags)
  /\ ~ParPending(p) => p.timers = {} /\ p.outq = <<>>
  /\ \A u \in ParUsers : ParSleeps(p, u) =>
       ParPending(p) /\ ("OUTSLP" \in p.flags \/ "FLUSHING" \in p.flags)

\* As long as nothing has timed out either: the printer owes the one acknowledgement, and the bytes
\* are strobed, current and queued in the order of their numbers.
ParOwed(p) == p.owed = IF ParPending(p) /\ ~ParStopped(p) THEN 1 ELSE 0

ParLine(p) ==
  LET w == IF ParStopped(p) THEN 1 ELSE 0
  IN  /\ p.acc = Len(p.port) + w + Len(p.outq)
      /\ \A i \in 1 .. Len(p.port) : p.port[i] = i
      /\ ParStopped(p) => p.cur = Len(p.port) + 1
      /\ \A j \in 1 .. Len(p.outq) : p.outq[j] = Len(p.port) + w + j

ParInv(p) ==
  /\ ParTyped(p)
  /\ ~p.reset => ParClean(p)
  /\ p.late = 0 /\ ~p.reset => ParOwed(p) /\ ParLine(p)

LEMMA ParInitial ==
  ASSUME ParAssumption, Par!Init
  PROVE  ParInv(par)
<1>1. par.user \in [ParUsers -> ParStates]
  BY DEF Par!Init, ParStates
<1>2. ParTyped(par)
  BY <1>1 DEF Par!Init, ParTyped, ParAssumption
<1>3. ~ParPending(par) /\ ~ParStopped(par)
  BY DEF Par!Init, ParPending, ParStopped
<1>4. \A u \in ParUsers : ~ParSleeps(par, u)
  BY DEF Par!Init, ParSleeps
<1>5. ParClean(par)
  BY <1>3, <1>4 DEF Par!Init, ParClean
<1>6. ParOwed(par)
  BY <1>3 DEF Par!Init, ParOwed
<1>7. ParLine(par)
  BY <1>3 DEF Par!Init, ParLine
<1> QED BY <1>2, <1>5, <1>6, <1>7 DEF ParInv

\* The fields that are the same.
ParKeeps(p, q) == /\ DOMAIN q = DOMAIN p /\ q.ready = p.ready /\ q.acc = p.acc
                  /\ q.late = p.late /\ q.reset = p.reset

ParStarted(p, q, ch) ==
  /\ ParKeeps(p, q) /\ q.outq = p.outq /\ q.user = p.user /\ q.cur = ch
  /\ "OUTPEND" \in q.flags
  /\ \A x : x # "OUTPEND" /\ x # "OUTSTOP" => (x \in q.flags <=> x \in p.flags)
  /\ \E f \in {"parstart", "partimeout"} :
       q.timers = p.timers \cup {<<q.id, f>>} /\ (f = "parstart" <=> "OUTSTOP" \in q.flags)
  /\ "OUTSTOP" \in q.flags => q.port = p.port /\ q.owed = p.owed
  /\ "OUTSTOP" \notin q.flags => q.port = Append(p.port, ch) /\ q.owed = p.owed + 1

LEMMA ParStartDoes ==
  ASSUME NEW p, ParTyped(p), NEW ch, NEW q, q = Par!ParStart(p, ch)
  PROVE  ParStarted(p, q, ch)
<1>1. PICK a : a = [p EXCEPT !.cur = ch, !.flags = @ \cup {"OUTPEND"}]
  OBVIOUS
<1>2. /\ DOMAIN a = DOMAIN p /\ a.cur = ch /\ a.flags = p.flags \cup {"OUTPEND"}
      /\ ParKeeps(p, a) /\ a.outq = p.outq /\ a.user = p.user /\ a.timers = p.timers
      /\ a.port = p.port /\ a.owed = p.owed
  BY <1>1 DEF ParTyped, ParKeeps
<1>3. DOMAIN p = {"flags", "outq", "cur", "id", "timers", "ready", "owed", "port", "user", "acc",
                  "opens", "late", "reset"}
  BY DEF ParTyped
<1>4. CASE ~p.ready
  <2>1. PICK b : b = [a EXCEPT !.flags = @ \cup {"OUTSTOP"}]
    OBVIOUS
  <2>2. PICK n : n = Par!NewId(b)
    OBVIOUS
  <2>3. q = [b EXCEPT !.timers = @ \cup {<<n, "parstart">>}, !.id = n]
    BY <1>1, <1>4, <2>1, <2>2 DEF Par!ParStart, Par!Timeout
  <2>4. /\ ParKeeps(p, b) /\ b.outq = p.outq /\ b.user = p.user /\ b.cur = ch
        /\ b.flags = p.flags \cup {"OUTPEND", "OUTSTOP"} /\ b.timers = p.timers
        /\ b.port = p.port /\ b.owed = p.owed
    BY <1>2, <1>3, <2>1 DEF ParKeeps
  <2>5. /\ ParKeeps(p, q) /\ q.outq = p.outq /\ q.user = p.user /\ q.cur = ch
        /\ q.flags = p.flags \cup {"OUTPEND", "OUTSTOP"} /\ q.timers = p.timers \cup {<<q.id, "parstart">>}
        /\ q.port = p.port /\ q.owed = p.owed
    BY <1>3, <2>3, <2>4 DEF ParKeeps
  <2> QED BY <2>5 DEF ParStarted
<1>5. CASE p.ready
  <2>1. PICK b : b = [a EXCEPT !.flags = @ \ {"OUTSTOP"}, !.port = Append(@, ch), !.owed = @ + 1]
    OBVIOUS
  <2>2. PICK n : n = Par!NewId(b)
    OBVIOUS
  <2>3. q = [b EXCEPT !.timers = @ \cup {<<n, "partimeout">>}, !.id = n]
    BY <1>1, <1>5, <2>1, <2>2 DEF Par!ParStart, Par!Timeout
  <2>4. /\ ParKeeps(p, b) /\ b.outq = p.outq /\ b.user = p.user /\ b.cur = ch
        /\ b.flags = (p.flags \cup {"OUTPEND"}) \ {"OUTSTOP"} /\ b.timers = p.timers
        /\ b.port = Append(p.port, ch) /\ b.owed = p.owed + 1
    BY <1>2, <1>3, <2>1 DEF ParKeeps
  <2>5. /\ ParKeeps(p, q) /\ q.outq = p.outq /\ q.user = p.user /\ q.cur = ch
        /\ q.flags = (p.flags \cup {"OUTPEND"}) \ {"OUTSTOP"}
        /\ q.timers = p.timers \cup {<<q.id, "partimeout">>}
        /\ q.port = Append(p.port, ch) /\ q.owed = p.owed + 1
    BY <1>3, <2>3, <2>4 DEF ParKeeps
  <2> QED BY <2>5 DEF ParStarted
<1> QED BY <1>4, <1>5

ParWoken(p, q) ==
  /\ ParKeeps(p, q) /\ q.outq = p.outq /\ q.cur = p.cur /\ q.id = p.id /\ q.timers = p.timers
  /\ q.port = p.port /\ q.owed = p.owed
  /\ q.user \in [ParUsers -> ParStates]
  /\ q.flags \subseteq ParFlags
  /\ \A x : x # "OUTSLP" /\ x # "FLUSHING" => (x \in q.flags <=> x \in p.flags)
  /\ "OUTSLP" \in p.flags \/ "FLUSHING" \in p.flags => \A u \in ParUsers : ~ParSleeps(q, u)
  /\ ~("OUTSLP" \in p.flags \/ "FLUSHING" \in p.flags) => q.user = p.user

LEMMA ParWakeUpDoes ==
  ASSUME NEW p, ParTyped(p), NEW q, q = Par!WakeUp(p)
  PROVE  ParWoken(p, q)
<1>1. p.user \in [ParUsers -> ParStates] /\ p.flags \subseteq ParFlags
  BY DEF ParTyped
<1>2. CASE p.flags \cap {"FLUSHING", "OUTSLP"} = {}
  <2>1. q = p
    BY <1>2 DEF Par!WakeUp
  <2> QED BY <1>1, <1>2, <2>1 DEF ParWoken, ParKeeps
<1>3. CASE p.flags \cap {"FLUSHING", "OUTSLP"} # {}
  <2>1. PICK us : us = [u \in ParUsers |-> CASE p.user[u] = "outslp" -> "write"
                                             [] p.user[u] = "sync"   -> "fsync"
                                             [] p.user[u] = "flush"  -> "close"
                                             [] OTHER                -> p.user[u]]
    OBVIOUS
  <2>2. q = [p EXCEPT !.flags = @ \ {"FLUSHING", "OUTSLP"}, !.user = us]
    BY <1>3, <2>1 DEF Par!WakeUp, ParTyped
  <2>3. ASSUME NEW u \in ParUsers
        PROVE  us[u] \in ParStates /\ us[u] \notin {"outslp", "sync", "flush"}
    <3>1. p.user[u] \in ParStates
      BY <1>1
    <3> QED BY <2>1, <3>1 DEF ParStates
  <2>4. us \in [ParUsers -> ParStates]
    BY <2>1, <2>3
  <2>5. /\ ParKeeps(p, q) /\ q.outq = p.outq /\ q.cur = p.cur /\ q.id = p.id /\ q.timers = p.timers
        /\ q.port = p.port /\ q.owed = p.owed /\ q.user = us /\ q.flags = p.flags \ {"FLUSHING", "OUTSLP"}
    BY <2>2 DEF ParTyped, ParKeeps
  <2> QED BY <1>1, <1>3, <2>3, <2>4, <2>5 DEF ParWoken, ParSleeps
<1> QED BY <1>2, <1>3

\* Flags, ready and users may differ; what the invariant says of the rest stays.
ParSame(p, q) ==
  /\ DOMAIN q = DOMAIN p /\ q.outq = p.outq /\ q.cur = p.cur /\ q.id = p.id
  /\ q.timers = p.timers /\ q.port = p.port /\ q.owed = p.owed /\ q.acc = p.acc
  /\ q.late = p.late /\ q.reset = p.reset

LEMMA ParFlagsInv ==
  ASSUME NEW p, ParInv(p), NEW q, ParSame(p, q),
         q.ready \in BOOLEAN, q.flags \subseteq ParFlags, q.user \in [ParUsers -> ParStates],
         ParPending(q) <=> ParPending(p), ParStopped(q) <=> ParStopped(p),
         ~p.reset => \A u \in ParUsers : ParSleeps(q, u) =>
                       ParPending(q) /\ ("OUTSLP" \in q.flags \/ "FLUSHING" \in q.flags)
  PROVE  ParInv(q)
<1>1. ParTyped(q)
  BY DEF ParInv, ParTyped, ParSame
<1>2. ~q.reset => ParClean(q)
  <2>1. SUFFICES ASSUME ~q.reset PROVE ParClean(q)
    OBVIOUS
  <2>2. ParClean(p)
    BY <2>1 DEF ParInv, ParSame
  <2>3. ParPending(q) => ("OUTSTOP" \in q.flags <=> "OUTSTOP" \in p.flags)
    BY DEF ParPending, ParStopped
  <2>4. \A u \in ParUsers : ParSleeps(q, u) =>
          ParPending(q) /\ ("OUTSLP" \in q.flags \/ "FLUSHING" \in q.flags)
    BY <2>1 DEF ParSame
  <2> QED BY <2>2, <2>3, <2>4 DEF ParClean, ParSame
<1>3. q.late = 0 /\ ~q.reset => ParOwed(q) /\ ParLine(q)
  BY DEF ParInv, ParSame, ParOwed, ParLine
<1> QED BY <1>1, <1>2, <1>3 DEF ParInv

\* One user does something else, and does not sleep.
LEMMA ParUserInv ==
  ASSUME NEW p, ParInv(p), NEW u \in ParUsers, NEW x \in ParStates,
         x \notin {"outslp", "sync", "flush"}, NEW q, q = [p EXCEPT !.user[u] = x]
  PROVE  ParInv(q)
<1>1. ParTyped(p)
  BY DEF ParInv
<1>2. ParSame(p, q) /\ q.ready = p.ready /\ q.flags = p.flags /\ q.user = [p.user EXCEPT ![u] = x]
  BY <1>1 DEF ParTyped, ParSame
<1>3. p.user \in [ParUsers -> ParStates] /\ p.flags \subseteq ParFlags /\ p.ready \in BOOLEAN
  BY <1>1 DEF ParTyped
<1>4. q.user \in [ParUsers -> ParStates]
  BY <1>2, <1>3
<1>5. \A v \in ParUsers : ParSleeps(q, v) => ParSleeps(p, v)
  BY <1>2, <1>3 DEF ParSleeps
<1>6. ~p.reset => \A v \in ParUsers : ParSleeps(q, v) =>
                    ParPending(q) /\ ("OUTSLP" \in q.flags \/ "FLUSHING" \in q.flags)
  BY <1>2, <1>5 DEF ParInv, ParClean, ParPending
<1>7. (ParPending(q) <=> ParPending(p)) /\ (ParStopped(q) <=> ParStopped(p))
  BY <1>2 DEF ParPending, ParStopped
<1> QED BY <1>2, <1>3, <1>4, <1>6, <1>7, ParFlagsInv

LEMMA ParStartTyped ==
  ASSUME NEW p, ParTyped(p), NEW ch \in Nat, NEW q, ParStarted(p, q, ch)
  PROVE  ParTyped(q)
<1>1. q.flags \subseteq ParFlags
  BY DEF ParStarted, ParTyped, ParFlags
<1>2. q.port \in Seq(Nat) /\ q.owed \in Nat
  <2>1. p.port \in Seq(Nat) /\ p.owed \in Nat
    BY DEF ParTyped
  <2>2. Append(p.port, ch) \in Seq(Nat) /\ p.owed + 1 \in Nat
    BY <2>1
  <2> QED BY <2>1, <2>2 DEF ParStarted
<1>3. \A t \in q.timers : t[2] \in {"parstart", "partimeout"}
  <2>1. PICK f \in {"parstart", "partimeout"} : q.timers = p.timers \cup {<<q.id, f>>}
    BY DEF ParStarted
  <2>2. \A t \in p.timers : t[2] \in {"parstart", "partimeout"}
    BY DEF ParTyped
  <2>3. <<q.id, f>>[2] = f
    OBVIOUS
  <2> QED BY <2>1, <2>2, <2>3
<1> QED BY <1>1, <1>2, <1>3 DEF ParStarted, ParKeeps, ParTyped

LEMMA ParStartClean ==
  ASSUME NEW p, NEW ch, NEW q, ParStarted(p, q, ch), p.timers = {},
         \A u \in ParUsers : ParSleeps(p, u) => "OUTSLP" \in p.flags \/ "FLUSHING" \in p.flags
  PROVE  ParClean(q)
<1>1. ParPending(q)
  BY DEF ParStarted, ParPending
<1>2. \E f \in {"parstart", "partimeout"} :
        q.timers = {<<q.id, f>>} /\ (f = "parstart" <=> "OUTSTOP" \in q.flags)
  BY DEF ParStarted
<1>3. \A u \in ParUsers : ParSleeps(q, u) => "OUTSLP" \in q.flags \/ "FLUSHING" \in q.flags
  BY DEF ParStarted, ParSleeps
<1> QED BY <1>1, <1>2, <1>3 DEF ParClean

LEMMA ParStartLine ==
  ASSUME NEW p, ParTyped(p), NEW ch, NEW q, ParStarted(p, q, ch), p.owed = 0,
         ch = Len(p.port) + 1, p.acc = Len(p.port) + 1 + Len(p.outq),
         \A i \in 1 .. Len(p.port) : p.port[i] = i,
         \A j \in 1 .. Len(p.outq) : p.outq[j] = Len(p.port) + 1 + j
  PROVE  ParOwed(q) /\ ParLine(q)
<1>1. p.port \in Seq(Nat) /\ p.outq \in Seq(Nat) /\ Len(p.port) \in Nat /\ Len(p.outq) \in Nat
  BY DEF ParTyped
<1>2. q.acc = p.acc /\ q.outq = p.outq /\ q.cur = ch /\ ParPending(q)
  BY DEF ParStarted, ParKeeps, ParPending
<1>3. CASE "OUTSTOP" \in q.flags
  <2>1. q.port = p.port /\ q.owed = 0 /\ ParStopped(q)
    BY <1>2, <1>3 DEF ParStarted, ParStopped, ParPending
  <2> QED BY <1>1, <1>2, <2>1 DEF ParOwed, ParLine
<1>4. CASE "OUTSTOP" \notin q.flags
  <2>1. q.port = Append(p.port, ch) /\ q.owed = 1 /\ ~ParStopped(q)
    BY <1>4 DEF ParStarted, ParStopped
  <2>2. PICK r : r = Append(p.port, ch)
    OBVIOUS
  <2>3. ch \in Nat
    BY <1>1
  <2>4. Len(r) = Len(p.port) + 1 /\ \A i \in 1 .. Len(p.port) : r[i] = p.port[i]
    BY <1>1, <2>2, <2>3
  <2>5. r[Len(p.port) + 1] = ch
    BY <1>1, <2>2, <2>3
  <2>6. \A i \in 1 .. Len(r) : r[i] = i
    <3> SUFFICES ASSUME NEW i \in 1 .. Len(r) PROVE r[i] = i
      OBVIOUS
    <3>1. Len(p.port) \in Nat
      BY <1>1
    <3>2. CASE i = Len(p.port) + 1
      BY <2>5, <3>2
    <3>3. CASE i \in 1 .. Len(p.port)
      BY <1>1, <2>4, <3>3
    <3> QED BY ONLY <2>4, <3>1, <3>2, <3>3, i \in 1 .. Len(r)
  <2>7. q.acc = Len(q.port) + 0 + Len(q.outq)
    BY <1>1, <1>2, <2>1, <2>2, <2>4
  <2>8. \A j \in 1 .. Len(q.outq) : q.outq[j] = Len(q.port) + 0 + j
    BY <1>1, <1>2, <2>1, <2>2, <2>4
  <2>9. ParLine(q)
    BY <2>1, <2>2, <2>6, <2>7, <2>8 DEF ParLine
  <2> QED BY <1>2, <2>1, <2>9 DEF ParOwed
<1> QED BY <1>3, <1>4

LEMMA ParOpenStep ==
  ASSUME ParAssumption, ParInv(par), NEW u \in ParUsers, Par!ParOpen(u)
  PROVE  ParInv(par')
<1>1. ParTyped(par)
  BY DEF ParInv
<1>2. PICK r : r = (par.reset \/ "OUTPEND" \in par.flags) /\ r \in BOOLEAN
  OBVIOUS
<1>3. par' = [par EXCEPT !.flags = {"OUTPUT"}, !.user[u] = "open", !.opens = @ + 1, !.reset = r]
  BY <1>1, <1>2 DEF Par!ParOpen, ParTyped
<1>4. /\ DOMAIN par' = DOMAIN par /\ par'.outq = par.outq /\ par'.cur = par.cur /\ par'.id = par.id
      /\ par'.timers = par.timers /\ par'.port = par.port /\ par'.owed = par.owed
      /\ par'.acc = par.acc /\ par'.late = par.late /\ par'.reset = r /\ par'.ready = par.ready
      /\ par'.flags = {"OUTPUT"} /\ par'.user = [par.user EXCEPT ![u] = "open"]
  BY <1>1, <1>3 DEF ParTyped
<1>5. par'.user \in [ParUsers -> ParStates]
  BY <1>1, <1>4 DEF ParTyped, ParStates
<1>6. ParTyped(par')
  BY <1>1, <1>2, <1>4, <1>5 DEF ParTyped, ParFlags
<1>7. CASE r
  BY <1>4, <1>6, <1>7 DEF ParInv
<1>8. CASE ~r
  <2>1. ~par.reset /\ "OUTPEND" \notin par.flags
    BY <1>2, <1>8
  <2>2. par.reset = FALSE /\ r = FALSE
    BY <1>1, <1>2, <1>8, <2>1 DEF ParTyped
  <2>3. ParSame(par, par')
    BY <1>4, <2>2 DEF ParSame
  <2>4. ~ParPending(par) /\ ~ParPending(par') /\ ~ParStopped(par) /\ ~ParStopped(par')
    BY <1>4, <2>1 DEF ParPending, ParStopped
  <2>5. \A v \in ParUsers : ~ParSleeps(par, v)
    BY <2>1, <2>4 DEF ParInv, ParClean
  <2>6. \A v \in ParUsers : ~ParSleeps(par', v)
    BY <1>1, <1>4, <2>5 DEF ParSleeps, ParTyped
  <2> QED BY <1>4, <1>6, <2>3, <2>4, <2>6, ParFlagsInv DEF ParTyped
<1> QED BY <1>7, <1>8

\* Some of the flags and a user change.
ParFlagsMay(p, F, x) ==
  /\ F \subseteq ParFlags /\ x \in ParStates
  /\ "OUTPEND" \in F <=> "OUTPEND" \in p.flags
  /\ "OUTPEND" \in F => ("OUTSTOP" \in F <=> "OUTSTOP" \in p.flags)
  /\ "OUTPEND" \in F => ("OUTSLP" \in p.flags => "OUTSLP" \in F)
  /\ "OUTPEND" \in F => ("FLUSHING" \in p.flags => "FLUSHING" \in F)
  /\ ~p.reset /\ x \in {"outslp", "sync", "flush"} =>
       "OUTPEND" \in F /\ ("OUTSLP" \in F \/ "FLUSHING" \in F)

LEMMA ParFlagsStep ==
  ASSUME NEW p, ParInv(p), NEW u \in ParUsers, NEW F, NEW x, ParFlagsMay(p, F, x),
         NEW q, q = [p EXCEPT !.flags = F, !.user[u] = x]
  PROVE  ParInv(q)
<1>1. ParTyped(p)
  BY DEF ParInv
<1>0. ParFlagsMay(p, F, x)
  OBVIOUS
<1>2. /\ ParSame(p, q) /\ q.ready = p.ready /\ q.flags = F
      /\ q.user = [p.user EXCEPT ![u] = x]
  BY <1>1 DEF ParTyped, ParSame
<1>3. p.user \in [ParUsers -> ParStates] /\ p.ready \in BOOLEAN
  BY <1>1 DEF ParTyped
<1>4. q.user \in [ParUsers -> ParStates]
  BY <1>0, <1>2, <1>3 DEF ParFlagsMay
<1>5. (ParPending(q) <=> ParPending(p)) /\ (ParStopped(q) <=> ParStopped(p))
  BY <1>0, <1>2 DEF ParPending, ParStopped, ParFlagsMay
<1>6. ASSUME ~p.reset, NEW v \in ParUsers, ParSleeps(q, v)
      PROVE  ParPending(q) /\ ("OUTSLP" \in q.flags \/ "FLUSHING" \in q.flags)
  <2>1. CASE v = u
    BY <1>0, <1>2, <1>3, <1>6, <2>1 DEF ParSleeps, ParPending, ParFlagsMay
  <2>2. CASE v # u
    <3>1. ParSleeps(p, v)
      BY <1>2, <1>3, <1>6, <2>2 DEF ParSleeps
    <3>2. ParPending(p) /\ ("OUTSLP" \in p.flags \/ "FLUSHING" \in p.flags)
      BY <1>6, <3>1 DEF ParInv, ParClean
    <3> QED BY <1>0, <1>2, <1>5, <3>2 DEF ParPending, ParFlagsMay
  <2> QED BY <2>1, <2>2
<1>7. F \subseteq ParFlags
  BY <1>0 DEF ParFlagsMay
<1> QED BY <1>2, <1>3, <1>4, <1>5, <1>6, <1>7, ParFlagsInv

LEMMA ParCloseStep ==
  ASSUME ParAssumption, ParInv(par), NEW u \in ParUsers,
         Par!ParWriteSync(u) \/ Par!ParClose(u) \/ Par!CloseOther(u)
  PROVE  ParInv(par')
<1>1. ParTyped(par)
  BY DEF ParInv
<1>2. par.flags \subseteq ParFlags
  BY <1>1 DEF ParTyped
<1>3. CASE Par!ParWriteSync(u)
  <2>1. CASE "OUTERR" \in par.flags
    <3>1. PICK F : F = par.flags \ {"OUTERR"}
      OBVIOUS
    <3>2. par' = [par EXCEPT !.flags = F, !.user[u] = "open"]
      BY <1>3, <2>1, <3>1 DEF Par!ParWriteSync
    <3>3. ParFlagsMay(par, F, "open")
      BY <1>2, <2>1, <3>1 DEF ParFlagsMay, ParFlags, ParStates
    <3> QED BY <3>2, <3>3, ParFlagsStep
  <2>2. CASE "OUTERR" \notin par.flags /\ "OUTPEND" \in par.flags
    <3>1. PICK F : F = par.flags \cup {"FLUSHING"}
      OBVIOUS
    <3>2. par' = [par EXCEPT !.flags = F, !.user[u] = "sync"]
      BY <1>3, <2>2, <3>1 DEF Par!ParWriteSync
    <3>3. ParFlagsMay(par, F, "sync")
      BY <1>2, <2>2, <3>1 DEF ParFlagsMay, ParFlags, ParStates
    <3> QED BY <3>2, <3>3, ParFlagsStep
  <2>3. CASE "OUTERR" \notin par.flags /\ "OUTPEND" \notin par.flags
    <3>1. par' = [par EXCEPT !.user[u] = "open"]
      BY <1>3, <2>3 DEF Par!ParWriteSync
    <3>2. "open" \in ParStates /\ "open" \notin {"outslp", "sync", "flush"}
      BY DEF ParStates
    <3> QED BY <3>1, <3>2, ParUserInv
  <2> QED BY <2>1, <2>2, <2>3
<1>4. CASE Par!ParClose(u)
  <2>1. CASE "OUTPEND" \in par.flags
    <3>1. PICK F : F = par.flags \cup {"FLUSHING"}
      OBVIOUS
    <3>2. par' = [par EXCEPT !.flags = F, !.user[u] = "flush"]
      BY <1>4, <2>1, <3>1 DEF Par!ParClose
    <3>3. ParFlagsMay(par, F, "flush")
      BY <1>2, <2>1, <3>1 DEF ParFlagsMay, ParFlags, ParStates
    <3> QED BY <3>2, <3>3, ParFlagsStep
  <2>2. CASE "OUTPEND" \notin par.flags
    <3>1. PICK F : F = {}
      OBVIOUS
    <3>2. par' = [par EXCEPT !.flags = F, !.user[u] = "shut"]
      BY <1>4, <2>2, <3>1 DEF Par!ParClose
    <3>3. ParFlagsMay(par, F, "shut")
      BY <1>2, <2>2, <3>1 DEF ParFlagsMay, ParFlags, ParStates
    <3> QED BY <3>2, <3>3, ParFlagsStep
  <2> QED BY <2>1, <2>2
<1>5. CASE Par!CloseOther(u)
  <2>1. par' = [par EXCEPT !.user[u] = "shut"]
    BY <1>5 DEF Par!CloseOther
  <2>2. "shut" \in ParStates /\ "shut" \notin {"outslp", "sync", "flush"}
    BY DEF ParStates
  <2> QED BY <2>1, <2>2, ParUserInv
<1> QED BY <1>3, <1>4, <1>5

LEMMA ParSignalStep ==
  ASSUME ParAssumption, ParInv(par), NEW u \in ParUsers, Par!Signal(u)
  PROVE  ParInv(par')
<1>1. ParTyped(par)
  BY DEF ParInv
<1>2. CASE par.user[u] = "flush"
  <2>1. PICK a : a = [par EXCEPT !.timers = {t \in @ : t[1] # par.id}]
    OBVIOUS
  <2>2. par' = [a EXCEPT !.flags = @ \ {"OUTPEND"}, !.outq = <<>>, !.user[u] = "close", !.reset = TRUE]
    BY <1>2, <2>1 DEF Par!Signal, Par!Untimeout
  <2>3. /\ DOMAIN a = DOMAIN par /\ a.timers \subseteq par.timers /\ a.flags = par.flags
        /\ a.user = par.user /\ a.port = par.port /\ a.cur = par.cur /\ a.ready = par.ready
        /\ a.owed = par.owed /\ a.acc = par.acc /\ a.late = par.late
    BY <1>1, <2>1 DEF ParTyped
  <2>4. /\ DOMAIN par' = DOMAIN a /\ par'.timers = a.timers /\ par'.flags = a.flags \ {"OUTPEND"}
        /\ par'.user = [a.user EXCEPT ![u] = "close"] /\ par'.port = a.port /\ par'.cur = a.cur
        /\ par'.ready = a.ready /\ par'.owed = a.owed /\ par'.acc = a.acc /\ par'.late = a.late
        /\ par'.outq = <<>> /\ par'.reset = TRUE
    BY <1>1, <2>2, <2>3 DEF ParTyped
  <2>5. par'.user \in [ParUsers -> ParStates]
    BY <1>1, <2>3, <2>4 DEF ParTyped, ParStates
  <2>6. <<>> \in Seq(Nat) /\ \A i \in 1 .. Len(<<>>) : <<>>[i] \in 1 .. ParBytes
    OBVIOUS
  <2>7. ParTyped(par')
    BY <1>1, <2>3, <2>4, <2>5, <2>6 DEF ParTyped
  <2> QED BY <2>4, <2>7 DEF ParInv
<1>3. CASE par.user[u] # "flush"
  <2>1. par' = [par EXCEPT !.user[u] = "open"]
    BY <1>3 DEF Par!Signal
  <2>2. "open" \in ParStates /\ "open" \notin {"outslp", "sync", "flush"}
    BY DEF ParStates
  <2> QED BY <2>1, <2>2, ParUserInv
<1> QED BY <1>2, <1>3

LEMMA ParLinesStep ==
  ASSUME ParInv(par), Par!LinesChange
  PROVE  ParInv(par')
<1>1. ParTyped(par)
  BY DEF ParInv
<1>2. /\ ParSame(par, par') /\ par'.ready \in BOOLEAN /\ par'.flags = par.flags
      /\ par'.user = par.user
  BY <1>1 DEF ParTyped, ParSame, Par!LinesChange
<1>3. (ParPending(par') <=> ParPending(par)) /\ (ParStopped(par') <=> ParStopped(par))
  BY <1>2 DEF ParPending, ParStopped
<1>4. ~par.reset => \A u \in ParUsers : ParSleeps(par', u) =>
                     ParPending(par') /\ ("OUTSLP" \in par'.flags \/ "FLUSHING" \in par'.flags)
  BY <1>2, <1>3 DEF ParInv, ParClean, ParSleeps
<1>5. par'.flags \subseteq ParFlags /\ par'.user \in [ParUsers -> ParStates]
  BY <1>1, <1>2 DEF ParTyped
<1> QED BY <1>2, <1>3, <1>4, <1>5, ParFlagsInv

LEMMA ParNil ==
  ASSUME NEW s, s \in Seq(Nat), s # <<>>
  PROVE  Len(s) \in Nat \ {0} /\ Head(s) = s[1] /\ 1 \in 1 .. Len(s) /\ Tail(s) \in Seq(Nat)
         /\ Len(Tail(s)) = Len(s) - 1 /\ \A j \in 1 .. Len(s) - 1 : Tail(s)[j] = s[j + 1]
  OBVIOUS

\* A byte is put behind the others.
ParBehind(s, o, n) ==
  /\ s \in Seq(Nat) /\ Len(s) = Len(o) + 1 /\ s[Len(o) + 1] = n
  /\ Len(o) \in Nat
  /\ \A i \in 1 .. Len(o) : s[i] = o[i]
  /\ \A i \in 1 .. Len(s) : s[i] \in 1 .. ParBytes

LEMMA ParQueued ==
  ASSUME NEW o, o \in Seq(Nat), \A i \in 1 .. Len(o) : o[i] \in 1 .. ParBytes,
         NEW n, n \in 1 .. ParBytes, NEW s, s = Append(o, n)
  PROVE  ParBehind(s, o, n)
<1>1. Len(o) \in Nat /\ n \in Nat
  OBVIOUS
<1>2. s \in Seq(Nat) /\ Len(s) = Len(o) + 1 /\ s[Len(o) + 1] = n
      /\ \A i \in 1 .. Len(o) : s[i] = o[i]
  BY <1>1
<1>3. \A i \in 1 .. Len(s) : s[i] \in 1 .. ParBytes
  BY <1>1, <1>2
<1> QED BY <1>1, <1>2, <1>3 DEF ParBehind

LEMMA ParPutByte ==
  ASSUME ParAssumption, ParInv(par), par.acc < ParBytes, NEW b,
         b = Par!PutByte([par EXCEPT !.acc = @ + 1], par.acc + 1)
  PROVE  ParInv(b)
<1>1. ParTyped(par)
  BY DEF ParInv
<1>2. PICK n : n = par.acc + 1
  OBVIOUS
<1>3. par.acc \in 0 .. ParBytes /\ ParBytes \in Nat
  BY <1>1 DEF ParTyped, ParAssumption
<1>4. n \in 1 .. ParBytes /\ n \in 0 .. ParBytes /\ n \in Nat
  BY <1>2, <1>3
<1>5. PICK a : a = [par EXCEPT !.acc = n]
  OBVIOUS
<1>6. b = Par!PutByte(a, n)
  BY <1>1, <1>2, <1>5 DEF ParTyped
<1>7. /\ DOMAIN a = DOMAIN par /\ a.acc = n /\ a.flags = par.flags /\ a.outq = par.outq
      /\ a.cur = par.cur /\ a.id = par.id /\ a.timers = par.timers /\ a.ready = par.ready
      /\ a.owed = par.owed /\ a.port = par.port /\ a.user = par.user /\ a.late = par.late
      /\ a.reset = par.reset
  BY <1>1, <1>5 DEF ParTyped
<1>8. ParTyped(a)
  BY <1>1, <1>4, <1>7 DEF ParTyped
<1>9. CASE "OUTPEND" \in par.flags
  <2>1. PICK s : s = Append(par.outq, n)
    OBVIOUS
  <2>2. b = [a EXCEPT !.outq = s]
    BY <1>6, <1>7, <1>9, <2>1 DEF Par!PutByte
  <2>3. /\ DOMAIN b = DOMAIN par /\ b.acc = n /\ b.flags = par.flags /\ b.outq = s
        /\ b.cur = par.cur /\ b.id = par.id /\ b.timers = par.timers /\ b.ready = par.ready
        /\ b.owed = par.owed /\ b.port = par.port /\ b.user = par.user /\ b.late = par.late
        /\ b.reset = par.reset
    BY <1>1, <1>7, <2>2 DEF ParTyped
  <2>4. /\ s \in Seq(Nat) /\ Len(s) = Len(par.outq) + 1 /\ s[Len(par.outq) + 1] = n
        /\ Len(par.outq) \in Nat
        /\ \A i \in 1 .. Len(par.outq) : s[i] = par.outq[i]
        /\ \A i \in 1 .. Len(s) : s[i] \in 1 .. ParBytes
    <3>1. par.outq \in Seq(Nat) /\ \A i \in 1 .. Len(par.outq) : par.outq[i] \in 1 .. ParBytes
      BY <1>1 DEF ParTyped
    <3>2. ParBehind(s, par.outq, n)
      BY ONLY <1>4, <2>1, <3>1, ParQueued
    <3> QED BY <3>2 DEF ParBehind
  <2>5. ParTyped(b)
    BY <1>1, <1>4, <2>3, <2>4 DEF ParTyped
  <2>6. /\ ParPending(b) /\ ParPending(par) /\ (ParStopped(b) <=> ParStopped(par))
        /\ \A u \in ParUsers : ParSleeps(b, u) <=> ParSleeps(par, u)
    BY <1>9, <2>3 DEF ParPending, ParStopped, ParSleeps
  <2>7. ~b.reset => ParClean(b)
    <3>1. SUFFICES ASSUME ~b.reset PROVE ParClean(b)
      OBVIOUS
    <3>2. ParClean(par)
      BY <2>3, <3>1 DEF ParInv
    <3> QED BY <2>3, <2>6, <3>2 DEF ParClean
  <2>8. b.late = 0 /\ ~b.reset => ParOwed(b) /\ ParLine(b)
    <3>1. SUFFICES ASSUME b.late = 0, ~b.reset PROVE ParOwed(b) /\ ParLine(b)
      OBVIOUS
    <3>2. ParOwed(par) /\ ParLine(par)
      BY <2>3, <3>1 DEF ParInv
    <3>3. ParOwed(b)
      BY <2>3, <2>6, <3>2 DEF ParOwed
    <3>4. PICK w \in {0, 1} : w = IF ParStopped(par) THEN 1 ELSE 0
      OBVIOUS
    <3>5. PICK l \in Nat : l = Len(par.port)
      BY <1>1, SMTT(30) DEF ParTyped
    <3>6. /\ par.acc = l + w + Len(par.outq)
          /\ \A i \in 1 .. l : par.port[i] = i
          /\ ParStopped(par) => par.cur = l + 1
          /\ \A j \in 1 .. Len(par.outq) : par.outq[j] = l + w + j
      BY <3>2, <3>4, <3>5 DEF ParLine
    <3>7. n = l + w + Len(s) /\ \A j \in 1 .. Len(s) : s[j] = l + w + j
      <4>1. PICK m \in Nat : m = Len(par.outq)
        BY <2>4
      <4>2. par.acc = l + w + m /\ Len(s) = m + 1 /\ n = l + w + (m + 1)
        <5>1. par.acc = l + w + m
          BY <3>6, <4>1
        <5>2. Len(s) = m + 1
          BY <2>4, <4>1
        <5>3. n = par.acc + 1
          BY <1>2
        <5> QED BY <5>1, <5>2, <5>3
      <4>3. ASSUME NEW j \in 1 .. m + 1
            PROVE  s[j] = l + w + j
        <5>1. CASE j = m + 1
          BY <2>4, <4>1, <4>2, <5>1
        <5>2. CASE j \in 1 .. m
          <6>1. s[j] = par.outq[j] /\ par.outq[j] = l + w + j
            BY <2>4, <3>6, <4>1, <5>2
          <6> QED BY <6>1
        <5> QED BY <5>1, <5>2
      <4> QED BY <4>2, <4>3
    <3>8. ParLine(b)
      BY <2>3, <2>6, <3>4, <3>5, <3>6, <3>7, ZenonT(30) DEF ParLine
    <3> QED BY <3>3, <3>8
  <2> QED BY <2>5, <2>7, <2>8 DEF ParInv
<1>10. CASE "OUTPEND" \notin par.flags
  <2>1. b = Par!ParStart(a, n)
    BY <1>6, <1>7, <1>10 DEF Par!PutByte
  <2>2. ParStarted(a, b, n)
    BY <1>8, <2>1, ParStartDoes
  <2>3. ParTyped(b)
    BY <1>4, <1>8, <2>2, ParStartTyped
  <2>4. b.reset = par.reset /\ b.late = par.late
    BY <1>7, <2>2 DEF ParStarted, ParKeeps
  <2>5. ~ParPending(par) /\ ~ParStopped(par)
    BY <1>10 DEF ParPending, ParStopped
  <2>6. ~b.reset => ParClean(b)
    <3>1. SUFFICES ASSUME ~b.reset PROVE ParClean(b)
      OBVIOUS
    <3>2. ParClean(par)
      BY <2>4, <3>1 DEF ParInv
    <3>3. a.timers = {} /\ \A u \in ParUsers : ~ParSleeps(a, u)
      BY <1>7, <2>5, <3>2 DEF ParClean, ParSleeps
    <3> QED BY <2>2, <3>3, ParStartClean
  <2>7. b.late = 0 /\ ~b.reset => ParOwed(b) /\ ParLine(b)
    <3>1. SUFFICES ASSUME b.late = 0, ~b.reset PROVE ParOwed(b) /\ ParLine(b)
      OBVIOUS
    <3>2. ParClean(par) /\ ParOwed(par) /\ ParLine(par)
      BY <2>4, <3>1 DEF ParInv
    <3>3. par.outq = <<>> /\ par.owed = 0
      BY <2>5, <3>2 DEF ParClean, ParOwed
    <3>40. Len(par.port) \in Nat
      BY <1>1 DEF ParTyped
    <3>4. PICK l \in Nat : l = Len(par.port)
      BY <3>40
    <3>5. par.acc = l /\ \A i \in 1 .. l : par.port[i] = i
      BY <2>5, <3>2, <3>3, <3>4 DEF ParLine
    <3>6. Len(a.outq) = 0 /\ a.owed = 0 /\ Len(a.port) = l
      BY <1>7, <3>3, <3>4
    <3>7. n = Len(a.port) + 1 /\ a.acc = Len(a.port) + 1 + Len(a.outq)
      BY <1>2, <1>7, <3>5, <3>6
    <3>8. /\ \A i \in 1 .. Len(a.port) : a.port[i] = i
          /\ \A j \in 1 .. Len(a.outq) : a.outq[j] = Len(a.port) + 1 + j
      BY <1>7, <3>5, <3>6
    <3> QED BY <1>8, <2>2, <3>6, <3>7, <3>8, ParStartLine
  <2> QED BY <2>3, <2>6, <2>7 DEF ParInv
<1> QED BY <1>9, <1>10

LEMMA ParWriteStep ==
  ASSUME ParAssumption, ParInv(par), NEW u \in ParUsers, Par!ParWrite(u)
  PROVE  ParInv(par')
<1>1. ParTyped(par)
  BY DEF ParInv
<1>2. par.flags \subseteq ParFlags
  BY <1>1 DEF ParTyped
<1>3. CASE "OUTERR" \in par.flags
  <2>1. PICK F : F = par.flags \ {"OUTERR"}
    OBVIOUS
  <2>2. par' = [par EXCEPT !.flags = F, !.user[u] = "open"]
    BY <1>3, <2>1 DEF Par!ParWrite
  <2>3. ParFlagsMay(par, F, "open")
    BY <1>2, <2>1 DEF ParFlagsMay, ParFlags, ParStates
  <2> QED BY <2>2, <2>3, ParFlagsStep
<1>4. CASE "OUTERR" \notin par.flags /\ Len(par.outq) > ParHiWat
  <2>1. PICK F : F = par.flags \cup {"OUTSLP"}
    OBVIOUS
  <2>2. par' = [par EXCEPT !.flags = F, !.user[u] = "outslp"]
    BY <1>4, <2>1 DEF Par!ParWrite
  <2>3. ~par.reset => "OUTPEND" \in par.flags
    <3>1. par.outq # <<>>
      BY <1>4 DEF ParAssumption
    <3> QED BY <3>1 DEF ParInv, ParClean, ParPending
  <2>4. ParFlagsMay(par, F, "outslp")
    BY <1>2, <2>1, <2>3 DEF ParFlagsMay, ParFlags, ParStates
  <2> QED BY <2>2, <2>4, ParFlagsStep
<1>5. CASE "OUTERR" \notin par.flags /\ ~(Len(par.outq) > ParHiWat)
  <2>1. PICK b : b = Par!PutByte([par EXCEPT !.acc = @ + 1], par.acc + 1)
    OBVIOUS
  <2>2. PICK next \in {"write", "fsync", "open"} : par' = [b EXCEPT !.user[u] = next]
    BY <1>5, <2>1 DEF Par!ParWrite
  <2>3. par.acc < ParBytes
    BY DEF Par!ParWrite
  <2>4. ParInv(b)
    BY <2>1, <2>3, ParPutByte
  <2>5. next \in ParStates /\ next \notin {"outslp", "sync", "flush"}
    BY DEF ParStates
  <2> QED BY <2>2, <2>4, <2>5, ParUserInv
<1> QED BY <1>3, <1>4, <1>5

LEMMA ParAcknowledgeStep ==
  ASSUME ParAssumption, ParInv(par), Par!Acknowledge
  PROVE  ParInv(par')
<1>1. ParTyped(par)
  BY DEF ParInv
<1>2. PICK a : a = [par EXCEPT !.owed = @ - 1]
  OBVIOUS
<1>3. par.owed > 0 /\ par' = Par!ParIntr(a)
  BY <1>2 DEF Par!Acknowledge
<1>4. /\ DOMAIN a = DOMAIN par /\ a.acc = par.acc /\ a.flags = par.flags /\ a.outq = par.outq
      /\ a.cur = par.cur /\ a.id = par.id /\ a.timers = par.timers /\ a.ready = par.ready
      /\ a.owed = par.owed - 1 /\ a.port = par.port /\ a.user = par.user /\ a.late = par.late
      /\ a.reset = par.reset
  BY <1>1, <1>2 DEF ParTyped
<1>5. a.owed \in Nat
  BY <1>1, <1>3, <1>4 DEF ParTyped
<1>6. ParTyped(a)
  BY <1>1, <1>4, <1>5 DEF ParTyped
\* Without a timeout, an acknowledgement is that of the byte pending.
<1>7. par.late = 0 /\ ~par.reset => ParPending(par) /\ ~ParStopped(par) /\ a.owed = 0
  BY <1>1, <1>3, <1>4 DEF ParInv, ParOwed, ParTyped
<1>8. CASE "OUTPEND" \notin par.flags
  <2>1. par' = a
    BY <1>3, <1>4, <1>8 DEF Par!ParIntr
  <2>2. (ParPending(a) <=> ParPending(par)) /\ ~ParPending(par)
        /\ \A u \in ParUsers : ParSleeps(a, u) <=> ParSleeps(par, u)
    BY <1>4, <1>8 DEF ParPending, ParSleeps
  <2>3. ~a.reset => ParClean(a)
    <3>1. SUFFICES ASSUME ~a.reset PROVE ParClean(a)
      OBVIOUS
    <3>2. ParClean(par)
      BY <1>4, <3>1 DEF ParInv
    <3> QED BY <1>4, <2>2, <3>2 DEF ParClean
  <2>4. a.late = 0 /\ ~a.reset => FALSE
    BY <1>4, <1>7, <2>2
  <2> QED BY <1>6, <2>1, <2>3, <2>4 DEF ParInv
<1>9. CASE "OUTPEND" \in par.flags
  <2>1. PICK c : c = [a EXCEPT !.timers = {t \in @ : t[1] # a.id}]
    OBVIOUS
  <2>2. c = Par!Untimeout(a)
    BY <2>1 DEF Par!Untimeout
  <2>3. /\ DOMAIN c = DOMAIN par /\ c.acc = par.acc /\ c.flags = par.flags /\ c.outq = par.outq
        /\ c.cur = par.cur /\ c.id = par.id /\ c.timers = {t \in par.timers : t[1] # par.id}
        /\ c.ready = par.ready /\ c.owed = a.owed /\ c.port = par.port /\ c.user = par.user
        /\ c.late = par.late /\ c.reset = par.reset
    BY <1>1, <1>4, <2>1 DEF ParTyped
  <2>4. ParTyped(c)
    BY <1>6, <1>4, <2>3 DEF ParTyped
  <2>5. ParPending(par)
    BY <1>9 DEF ParPending
  <2>6. ~par.reset => c.timers = {}
    <3>1. SUFFICES ASSUME ~par.reset PROVE c.timers = {}
      OBVIOUS
    <3>2. PICK f : par.timers = {<<par.id, f>>}
      BY <2>5, <3>1 DEF ParInv, ParClean
    <3>3. <<par.id, f>>[1] = par.id
      OBVIOUS
    <3> QED BY <2>3, <3>2, <3>3
  <2>7. ~par.reset => \A u \in ParUsers : ParSleeps(c, u) => "OUTSLP" \in c.flags \/ "FLUSHING" \in c.flags
    BY <2>3 DEF ParInv, ParClean, ParSleeps
  <2>8. CASE par.outq # <<>>
    <3>1. PICK ch, s : ch = Head(par.outq) /\ s = Tail(par.outq)
      OBVIOUS
    <3>2. PICK d : d = [c EXCEPT !.outq = s]
      OBVIOUS
    <3>3. par' = Par!ParStart(d, ch)
      <4>1. par' = Par!ParStart([c EXCEPT !.outq = Tail(@)], Head(c.outq))
        BY <1>3, <1>4, <1>9, <2>2, <2>3, <2>8 DEF Par!ParIntr
      <4> QED BY <2>3, <2>4, <3>1, <3>2, <4>1 DEF ParTyped
    <3>4. /\ DOMAIN d = DOMAIN par /\ d.acc = par.acc /\ d.flags = par.flags /\ d.outq = s
          /\ d.cur = par.cur /\ d.id = par.id /\ d.timers = c.timers
          /\ d.ready = par.ready /\ d.owed = a.owed /\ d.port = par.port /\ d.user = par.user
          /\ d.late = par.late /\ d.reset = par.reset
      BY <2>3, <2>4, <3>2 DEF ParTyped
    <3>5. par.outq \in Seq(Nat) /\ \A i \in 1 .. Len(par.outq) : par.outq[i] \in 1 .. ParBytes
      BY <1>1 DEF ParTyped
    <3>6. /\ Len(par.outq) \in Nat \ {0} /\ ch = par.outq[1] /\ 1 \in 1 .. Len(par.outq)
          /\ s \in Seq(Nat) /\ Len(s) = Len(par.outq) - 1
          /\ \A j \in 1 .. Len(par.outq) - 1 : s[j] = par.outq[j + 1]
      BY <2>8, <3>1, <3>5, ParNil
    <3>7. ch \in Nat /\ \A i \in 1 .. Len(s) : s[i] \in 1 .. ParBytes
      <4>1. ch \in 1 .. ParBytes
        BY <3>5, <3>6
      <4>2. ASSUME NEW i \in 1 .. Len(par.outq) - 1
            PROVE  s[i] \in 1 .. ParBytes
        <5>1. i + 1 \in 1 .. Len(par.outq) /\ s[i] = par.outq[i + 1]
          BY <3>6
        <5> QED BY <3>5, <5>1
      <4> QED BY <3>6, <4>1, <4>2
    <3>8. ParTyped(d)
      BY <2>4, <2>3, <3>4, <3>6, <3>7 DEF ParTyped
    <3>9. ParStarted(d, par', ch)
      BY <3>3, <3>8, ParStartDoes
    <3>10. ParTyped(par')
      BY <3>7, <3>8, <3>9, ParStartTyped
    <3>11. par'.reset = par.reset /\ par'.late = par.late
      BY <3>4, <3>9 DEF ParStarted, ParKeeps
    <3>12. ~par.reset => ParClean(par')
      <4>1. SUFFICES ASSUME ~par.reset PROVE ParClean(par')
        OBVIOUS
      <4>2. d.timers = {}
        BY <2>6, <3>4, <4>1
      <4>3. \A u \in ParUsers : ParSleeps(d, u) => "OUTSLP" \in d.flags \/ "FLUSHING" \in d.flags
        BY <2>3, <2>7, <3>4, <4>1 DEF ParSleeps
      <4> QED BY <3>9, <4>2, <4>3, ParStartClean
    <3>13. par.late = 0 /\ ~par.reset => ParOwed(par') /\ ParLine(par')
      <4>1. SUFFICES ASSUME par.late = 0, ~par.reset PROVE ParOwed(par') /\ ParLine(par')
        OBVIOUS
      <4>2. ~ParStopped(par) /\ d.owed = 0
        BY <1>7, <3>4, <4>1
      <4>3. PICK l \in Nat : l = Len(par.port)
        BY <1>1 DEF ParTyped
      <4>4. /\ par.acc = l + 0 + Len(par.outq)
            /\ \A i \in 1 .. l : par.port[i] = i
            /\ \A j \in 1 .. Len(par.outq) : par.outq[j] = l + 0 + j
        BY <4>1, <4>2, <4>3 DEF ParInv, ParLine
      <4>5. ch = l + 1 /\ par.acc = l + 1 + Len(s)
        BY <3>6, <4>4
      <4>6. \A j \in 1 .. Len(s) : s[j] = l + 1 + j
        BY <3>6, <4>4
      <4>7. /\ ch = Len(d.port) + 1 /\ d.acc = Len(d.port) + 1 + Len(d.outq)
            /\ \A i \in 1 .. Len(d.port) : d.port[i] = i
            /\ \A j \in 1 .. Len(d.outq) : d.outq[j] = Len(d.port) + 1 + j
        BY <3>4, <4>3, <4>4, <4>5, <4>6
      <4> QED BY <3>8, <3>9, <4>2, <4>7, ParStartLine
    <3> QED BY <3>10, <3>11, <3>12, <3>13 DEF ParInv
  <2>9. CASE par.outq = <<>>
    <3>1. PICK d : d = [c EXCEPT !.flags = @ \ {"OUTPEND"}]
      OBVIOUS
    <3>2. par' = Par!WakeUp(d)
      BY <1>3, <1>4, <1>9, <2>2, <2>3, <2>9, <3>1 DEF Par!ParIntr
    <3>3. /\ DOMAIN d = DOMAIN par /\ d.acc = par.acc /\ d.flags = par.flags \ {"OUTPEND"}
          /\ d.outq = <<>> /\ d.cur = par.cur /\ d.id = par.id /\ d.timers = c.timers
          /\ d.ready = par.ready /\ d.owed = a.owed /\ d.port = par.port /\ d.user = par.user
          /\ d.late = par.late /\ d.reset = par.reset
      BY <2>3, <2>4, <2>9, <3>1 DEF ParTyped
    <3>4. ParTyped(d)
      BY <2>3, <2>4, <2>9, <3>3 DEF ParTyped
    <3>5. ParWoken(d, par')
      BY <3>2, <3>4, ParWakeUpDoes
    <3>6. ParTyped(par')
      BY <3>4, <3>5 DEF ParTyped, ParWoken, ParKeeps
    <3>7. par'.reset = par.reset /\ par'.late = par.late /\ par'.timers = c.timers /\ par'.outq = <<>>
          /\ par'.port = par.port /\ par'.acc = par.acc /\ par'.owed = a.owed
      BY <3>3, <3>5 DEF ParWoken, ParKeeps
    <3>8. ~ParPending(par') /\ ~ParStopped(par')
      BY <3>3, <3>5 DEF ParWoken, ParPending, ParStopped
    <3>9. ~par.reset => \A u \in ParUsers : ~ParSleeps(par', u)
      <4>1. SUFFICES ASSUME ~par.reset, NEW u \in ParUsers, ParSleeps(par', u) PROVE FALSE
        OBVIOUS
      <4>2. ~("OUTSLP" \in d.flags \/ "FLUSHING" \in d.flags) /\ par'.user = par.user
        BY <3>3, <3>5, <4>1 DEF ParWoken
      <4>3. ParSleeps(c, u)
        BY <2>3, <4>1, <4>2 DEF ParSleeps
      <4> QED BY <2>3, <2>7, <3>3, <4>1, <4>2, <4>3
    <3>10. ~par.reset => ParClean(par')
      BY <2>6, <3>7, <3>8, <3>9 DEF ParClean
    <3>11. par.late = 0 /\ ~par.reset => ParOwed(par') /\ ParLine(par')
      <4>1. SUFFICES ASSUME par.late = 0, ~par.reset PROVE ParOwed(par') /\ ParLine(par')
        OBVIOUS
      <4>2. ParLine(par) /\ ~ParStopped(par) /\ a.owed = 0
        BY <1>7, <4>1 DEF ParInv
      <4> QED BY <2>9, <3>7, <3>8, <4>2 DEF ParLine, ParOwed
    <3> QED BY <3>6, <3>7, <3>10, <3>11 DEF ParInv
  <2> QED BY <2>8, <2>9
<1> QED BY <1>8, <1>9

LEMMA ParTimerStep ==
  ASSUME ParAssumption, ParInv(par), Par!TimerFires
  PROVE  ParInv(par')
<1>1. ParTyped(par)
  BY DEF ParInv
<1>2. PICK t \in par.timers :
        LET p == [par EXCEPT !.timers = @ \ {t}]
        IN  IF t[2] = "parstart" THEN par' = Par!ParStart(p, p.cur)
            ELSE /\ par.late < ParTimeouts
                 /\ LET q == [p EXCEPT !.late = @ + 1]
                    IN  par' = Par!ParStart(IF q.ready
                                        THEN Par!WakeUp([q EXCEPT !.flags = @ \cup {"OUTERR"}])
                                        ELSE q, q.cur)
  BY DEF Par!TimerFires
<1>3. PICK p : p = [par EXCEPT !.timers = @ \ {t}]
  OBVIOUS
<1>4. /\ DOMAIN p = DOMAIN par /\ p.acc = par.acc /\ p.flags = par.flags /\ p.outq = par.outq
      /\ p.cur = par.cur /\ p.id = par.id /\ p.timers = par.timers \ {t} /\ p.ready = par.ready
      /\ p.owed = par.owed /\ p.port = par.port /\ p.user = par.user /\ p.late = par.late
      /\ p.reset = par.reset
  BY <1>1, <1>3 DEF ParTyped
<1>5. ParTyped(p)
  BY <1>1, <1>4 DEF ParTyped
<1>6. par.cur \in Nat
  BY <1>1 DEF ParTyped
\* The timeout that fires is the one there is.
<1>7. ~par.reset => p.timers = {} /\ (t[2] = "parstart" => ParStopped(par))
  <2>1. SUFFICES ASSUME ~par.reset PROVE p.timers = {} /\ (t[2] = "parstart" => ParStopped(par))
    OBVIOUS
  <2>2. ParClean(par) /\ ParPending(par)
    BY <2>1 DEF ParInv, ParClean
  <2>3. PICK f : par.timers = {<<par.id, f>>} /\ (f = "parstart" <=> "OUTSTOP" \in par.flags)
    BY <2>2 DEF ParClean
  <2>4. <<par.id, f>>[2] = f
    OBVIOUS
  <2>5. t = <<par.id, f>>
    BY <2>3
  <2> QED BY <1>4, <2>2, <2>3, <2>4, <2>5 DEF ParPending, ParStopped
<1>8. ~par.reset => \A u \in ParUsers : ParSleeps(par, u) => "OUTSLP" \in par.flags \/ "FLUSHING" \in par.flags
  BY DEF ParInv, ParClean
<1>9. CASE t[2] = "parstart"
  <2>1. par' = Par!ParStart(p, par.cur)
    BY <1>2, <1>3, <1>4, <1>9
  <2>2. ParStarted(p, par', par.cur)
    BY <1>5, <2>1, ParStartDoes
  <2>3. ParTyped(par')
    BY <1>5, <1>6, <2>2, ParStartTyped
  <2>4. par'.reset = par.reset /\ par'.late = par.late
    BY <1>4, <2>2 DEF ParStarted, ParKeeps
  <2>5. ~par.reset => ParClean(par')
    <3>1. SUFFICES ASSUME ~par.reset PROVE ParClean(par')
      OBVIOUS
    <3>2. p.timers = {}
      BY <1>7, <3>1
    <3>3. \A u \in ParUsers : ParSleeps(p, u) => "OUTSLP" \in p.flags \/ "FLUSHING" \in p.flags
      BY <1>4, <1>8, <3>1 DEF ParSleeps
    <3> QED BY <2>2, <3>2, <3>3, ParStartClean
  <2>6. par.late = 0 /\ ~par.reset => ParOwed(par') /\ ParLine(par')
    <3>1. SUFFICES ASSUME par.late = 0, ~par.reset PROVE ParOwed(par') /\ ParLine(par')
      OBVIOUS
    <3>2. ParStopped(par) /\ ParOwed(par) /\ ParLine(par)
      BY <1>7, <1>9, <3>1 DEF ParInv
    <3>3. p.owed = 0
      BY <1>4, <3>2 DEF ParOwed
    <3>4. /\ par.cur = Len(p.port) + 1 /\ p.acc = Len(p.port) + 1 + Len(p.outq)
          /\ \A i \in 1 .. Len(p.port) : p.port[i] = i
          /\ \A j \in 1 .. Len(p.outq) : p.outq[j] = Len(p.port) + 1 + j
      BY <1>4, <3>2 DEF ParLine
    <3> QED BY <1>5, <2>2, <3>3, <3>4, ParStartLine
  <2> QED BY <2>3, <2>4, <2>5, <2>6 DEF ParInv
<1>10. CASE t[2] # "parstart"
  <2>1. PICK q : q = [p EXCEPT !.late = @ + 1]
    OBVIOUS
  <2>2. /\ DOMAIN q = DOMAIN par /\ q.acc = par.acc /\ q.flags = par.flags /\ q.outq = par.outq
        /\ q.cur = par.cur /\ q.id = par.id /\ q.timers = p.timers /\ q.ready = par.ready
        /\ q.owed = par.owed /\ q.port = par.port /\ q.user = par.user /\ q.late = par.late + 1
        /\ q.reset = par.reset
    BY <1>4, <1>5, <2>1 DEF ParTyped
  <2>3. q.late \in Nat /\ q.late # 0
    BY <1>1, <2>2 DEF ParTyped
  <2>4. ParTyped(q)
    BY <1>4, <1>5, <2>2, <2>3 DEF ParTyped
  <2>5. PICK r : /\ par' = Par!ParStart(r, par.cur) /\ ParTyped(r)
                 /\ r.timers = q.timers /\ r.late = q.late /\ r.reset = q.reset
                 /\ ~par.reset => \A u \in ParUsers : ParSleeps(r, u) => "OUTSLP" \in r.flags \/ "FLUSHING" \in r.flags
    <3>1. CASE q.ready
      <4>1. PICK s : s = [q EXCEPT !.flags = @ \cup {"OUTERR"}]
        OBVIOUS
      <4>2. PICK r : r = Par!WakeUp(s)
        OBVIOUS
      <4>3. par' = Par!ParStart(r, par.cur)
        BY <1>2, <1>3, <1>10, <2>1, <2>2, <3>1, <4>1, <4>2
      <4>4. /\ DOMAIN s = DOMAIN q /\ s.acc = q.acc /\ s.flags = q.flags \cup {"OUTERR"} /\ s.outq = q.outq
            /\ s.cur = q.cur /\ s.id = q.id /\ s.timers = q.timers /\ s.ready = q.ready
            /\ s.owed = q.owed /\ s.port = q.port /\ s.user = q.user /\ s.late = q.late
            /\ s.reset = q.reset
        BY <2>4, <4>1 DEF ParTyped
      <4>5. ParTyped(s)
        BY <2>4, <4>4 DEF ParTyped, ParFlags
      <4>6. ParWoken(s, r)
        BY <4>2, <4>5, ParWakeUpDoes
      <4>7. ParTyped(r)
        BY <4>5, <4>6 DEF ParTyped, ParWoken, ParKeeps
      <4>8. r.timers = q.timers /\ r.late = q.late /\ r.reset = q.reset
        BY <4>4, <4>6 DEF ParWoken, ParKeeps
      <4>9. ASSUME ~par.reset, NEW u \in ParUsers, ParSleeps(r, u)
            PROVE  "OUTSLP" \in r.flags \/ "FLUSHING" \in r.flags
        <5>1. ~("OUTSLP" \in s.flags \/ "FLUSHING" \in s.flags) /\ r.user = par.user
          BY <2>2, <4>4, <4>6, <4>9 DEF ParWoken
        <5>2. ParSleeps(par, u)
          BY <4>9, <5>1 DEF ParSleeps
        <5> QED BY <1>8, <2>2, <4>4, <4>9, <5>1, <5>2
      <4> QED BY <4>3, <4>7, <4>8, <4>9
    <3>2. CASE ~q.ready
      <4>1. par' = Par!ParStart(q, par.cur)
        BY <1>2, <1>3, <1>10, <2>1, <2>2, <3>2
      <4>2. ~par.reset => \A u \in ParUsers : ParSleeps(q, u) => "OUTSLP" \in q.flags \/ "FLUSHING" \in q.flags
        BY <1>8, <2>2 DEF ParSleeps
      <4> QED BY <2>4, <4>1, <4>2
    <3> QED BY <3>1, <3>2
  <2>6. ParStarted(r, par', par.cur)
    BY <2>5, ParStartDoes
  <2>7. ParTyped(par')
    BY <1>6, <2>5, <2>6, ParStartTyped
  <2>8. par'.reset = par.reset /\ par'.late # 0
    BY <2>2, <2>3, <2>5, <2>6 DEF ParStarted, ParKeeps
  <2>9. ~par.reset => ParClean(par')
    <3>1. SUFFICES ASSUME ~par.reset PROVE ParClean(par')
      OBVIOUS
    <3>2. r.timers = {}
      BY <1>7, <2>2, <2>5, <3>1
    <3> QED BY <2>5, <2>6, <3>1, <3>2, ParStartClean
  <2> QED BY <2>7, <2>8, <2>9 DEF ParInv
<1> QED BY <1>9, <1>10

LEMMA ParStep ==
  ASSUME ParAssumption, ParInv(par), [Par!Next]_par
  PROVE  ParInv(par')
<1>1. CASE UNCHANGED par
  BY <1>1
<1>2. CASE \E u \in ParUsers : \/ Par!ParOpen(u) \/ Par!ParWrite(u) \/ Par!ParWriteSync(u)
                               \/ Par!ParClose(u) \/ Par!CloseOther(u) \/ Par!Signal(u)
  BY <1>2, ParOpenStep, ParWriteStep, ParCloseStep, ParSignalStep
<1>3. CASE Par!Acknowledge \/ Par!TimerFires \/ Par!LinesChange
  BY <1>3, ParAcknowledgeStep, ParTimerStep, ParLinesStep
<1> QED BY <1>1, <1>2, <1>3 DEF Par!Next

LEMMA ParGood ==
  ASSUME ParAssumption, ParInv(par)
  PROVE  Par!TypeOK /\ Par!BytesInOrder /\ Par!SleepersWillWake
<1>1. ParTyped(par)
  BY DEF ParInv
<1>2. Par!TypeOK
  <2>1. ParStates = Par!Sleeping \cup {"shut", "open", "write", "fsync", "close"}
    BY DEF ParStates, Par!Sleeping
  <2> QED BY <1>1, <2>1 DEF ParTyped, ParFlags, Par!TypeOK
<1>3. Par!SleepersWillWake
  <2>1. SUFFICES ASSUME ~par.reset, NEW v \in ParUsers, ParSleeps(par, v)
                 PROVE  /\ "OUTPEND" \in par.flags
                        /\ \E t \in par.timers : t[1] = par.id
                        /\ \A u \in ParUsers : par.user[u] \in Par!Sleeping =>
                             par.flags \cap {"OUTSLP", "FLUSHING"} # {}
    BY DEF Par!SleepersWillWake, Par!Sleeping, ParSleeps
  <2>2. ParClean(par) /\ ParPending(par)
    BY <2>1 DEF ParInv, ParClean
  <2>3. PICK f : par.timers = {<<par.id, f>>}
    BY <2>2 DEF ParClean
  <2>4. <<par.id, f>>[1] = par.id
    OBVIOUS
  <2>5. \E t \in par.timers : t[1] = par.id
    BY <2>3, <2>4
  <2>6. \A u \in ParUsers : par.user[u] \in Par!Sleeping => par.flags \cap {"OUTSLP", "FLUSHING"} # {}
    BY <2>2 DEF ParClean, ParSleeps, Par!Sleeping
  <2> QED BY <2>2, <2>5, <2>6 DEF ParPending
<1>4. Par!BytesInOrder
  <2>1. SUFFICES ASSUME par.late = 0, ~par.reset
                 PROVE  par.port \o (IF "OUTSTOP" \in par.flags /\ "OUTPEND" \in par.flags
                                     THEN <<par.cur>> ELSE <<>>) \o par.outq
                          = [i \in 1 .. par.acc |-> i]
    BY DEF Par!BytesInOrder
  <2>2. ParLine(par)
    BY <2>1 DEF ParInv
  <2>3. PICK a, b : a = par.port /\ b = par.outq
    OBVIOUS
  <2>4. a \in Seq(Nat) /\ b \in Seq(Nat) /\ par.cur \in Nat /\ Len(a) \in Nat /\ Len(b) \in Nat
    BY <1>1, <2>3 DEF ParTyped
  <2>5. PICK c : c = IF "OUTSTOP" \in par.flags /\ "OUTPEND" \in par.flags THEN <<par.cur>> ELSE <<>>
    OBVIOUS
  <2>6. /\ c \in Seq(Nat) /\ Len(c) \in {0, 1} /\ par.acc = Len(a) + Len(c) + Len(b)
        /\ \A i \in 1 .. Len(a) : a[i] = i
        /\ \A i \in 1 .. Len(c) : c[i] = Len(a) + i
        /\ \A j \in 1 .. Len(b) : b[j] = Len(a) + Len(c) + j
    <3>1. CASE ParStopped(par)
      <4>1. c = <<par.cur>>
        BY <2>5, <3>1 DEF ParStopped
      <4>2. c \in Seq(Nat) /\ Len(c) = 1 /\ c[1] = par.cur
        BY <2>4, <4>1
      <4> QED BY <2>2, <2>3, <2>4, <3>1, <4>2 DEF ParLine
    <3>2. CASE ~ParStopped(par)
      <4>1. c = <<>>
        BY <2>5, <3>2 DEF ParStopped
      <4>2. c \in Seq(Nat) /\ Len(c) = 0
        BY <4>1
      <4> QED BY <2>2, <2>3, <2>4, <3>2, <4>2 DEF ParLine
    <3> QED BY <3>1, <3>2
  <2>7. PICK d : d = a \o c
    OBVIOUS
  <2>8. Both(d, a, c)
    BY ONLY <2>4, <2>6, <2>7, Joined
  <2>9. d \in Seq(Nat) /\ Len(d) = Len(a) + Len(c)
    BY ONLY <2>4, <2>6, <2>7
  <2>10. \A i \in 1 .. Len(d) : d[i] = i
    <3>1. DOMAIN a = 1 .. Len(a) /\ DOMAIN c = 1 .. Len(c) /\ DOMAIN d = 1 .. Len(d)
      BY <2>4, <2>6, <2>9
    <3> QED BY <2>6, <2>8, <3>1, ZenonT(30) DEF Both
  <2>11. PICK e : e = d \o b
    OBVIOUS
  <2>12. Both(e, d, b)
    BY ONLY <2>4, <2>9, <2>11, Joined
  <2>13. e \in Seq(Nat) /\ Len(e) = Len(d) + Len(b)
    <3>1. d \in Seq(Nat)
      BY <2>9
    <3>2. e \in Seq(Nat)
      BY <2>12 DEF Both
    <3>3. Len(e) = Len(d) + Len(b)
      BY ONLY <2>4, <2>11, <3>1
    <3> QED BY <3>2, <3>3
  <2>14. DOMAIN e = 1 .. par.acc /\ \A i \in 1 .. par.acc : e[i] = i
    <3>1. DOMAIN d = 1 .. Len(d) /\ DOMAIN b = 1 .. Len(b) /\ DOMAIN e = 1 .. par.acc
      BY <2>4, <2>6, <2>9, <2>13
    <3>2. ASSUME NEW i \in 1 .. par.acc
          PROVE  e[i] = i
      <4>1. CASE i \in DOMAIN d /\ e[i] = d[i]
        BY <2>10, <3>1, <4>1
      <4>2. CASE \E j \in DOMAIN b : i = Len(d) + j /\ e[i] = b[j]
        <5>1. PICK j \in DOMAIN b : i = Len(d) + j /\ e[i] = b[j]
          BY <4>2
        <5>2. b[j] = Len(a) + Len(c) + j
          BY <2>6, <3>1, <5>1
        <5> QED BY <2>4, <2>6, <2>9, <3>1, <5>1, <5>2
      <4> QED BY <2>12, <3>1, <4>1, <4>2 DEF Both
    <3> QED BY <3>1, <3>2
  <2>15. e = [i \in 1 .. par.acc |-> i]
    <3>1. e \in [1 .. par.acc -> Nat]
      <4>1. e \in [1 .. Len(e) -> Nat]
        BY <2>13
      <4>2. Len(e) = par.acc
        BY <2>4, <2>6, <2>9, <2>13
      <4> QED BY <4>1, <4>2
    <3> QED BY <2>14, <3>1
  <2> QED BY <2>3, <2>5, <2>7, <2>11, <2>15
<1> QED BY <1>2, <1>3, <1>4

-----------------------------------------------------------------------------
(* The A2065, its receive side: what the LANCE has stored.                 *)

\* The descriptors from the driver's index on, the first RxCount of them.
RxView(s) == [k \in 1 .. RxCount |-> s.ring[RingSlot(s.rx_buffer_index, k, RxCount)]]

Ended(d) == d.enp \/ d.err

\* What the LANCE has stored: a buffer of a frame, its last one with ENP.
RxBuffer(fr, d) ==
  /\ d.own = FALSE
  /\ d.f \in 1 .. Len(fr) /\ d.b \in 1 .. fr[d.f].size
  /\ d.enp => d.b = fr[d.f].size /\ (d.err \/ ~fr[d.f].bad)

RxBuffers(fr, g, c) == \A k \in 1 .. c : RxBuffer(fr, g[k])

\* The frames are in order, none of them twice.
RxSorted(g, c) ==
  \A i, k \in 1 .. c : i < k => g[i].f <= g[k].f /\ (Ended(g[i]) => g[i].f < g[k].f)

\* What follows a buffer is the next one of the same frame, or, behind the last or one
\* with which the frame was given up, the first one of another.
RxFollows(g, c) ==
  \A k \in 1 .. c : k < c =>
    /\ Ended(g[k]) => g[k + 1].b = 1
    /\ ~Ended(g[k]) => g[k + 1].f = g[k].f /\ g[k + 1].b = g[k].b + 1

\* And so for what the LANCE stores next.
RxOpen(fr, g, c, f, left) ==
  /\ left = 0 => c = 0 \/ Ended(g[c])
  /\ left > 0 =>
       /\ c < RxCount /\ f \in 1 .. Len(fr) /\ left \in 1 .. fr[f].size
       /\ \A k \in 1 .. c : g[k].f <= f /\ (Ended(g[k]) => g[k].f < f)
       /\ c = 0 \/ Ended(g[c]) => left = fr[f].size
       /\ c # 0 /\ ~Ended(g[c]) => g[c].f = f /\ g[c].b = fr[f].size - left

RxChain(fr, g, c, f, left) ==
  RxBuffers(fr, g, c) /\ RxSorted(g, c) /\ RxFollows(g, c) /\ RxOpen(fr, g, c, f, left)

RxFrame == [size : Nat \ {0}, bad : BOOLEAN, sap : Nat]

\* A frame more changes nothing about those there are.
LEMMA RxMore ==
  ASSUME NEW fr, NEW fs, Len(fr) \in Nat, Len(fs) = Len(fr) + 1,
         \A i \in 1 .. Len(fr) : fs[i] = fr[i],
         NEW g, NEW c \in Nat, NEW f, NEW left, RxChain(fr, g, c, f, left), left = 0 \/ left \in Nat
  PROVE  RxChain(fs, g, c, f, left)
<1>0. \A i \in 1 .. Len(fr) : i \in 1 .. Len(fs)
  OBVIOUS
<1>1. RxBuffers(fs, g, c)
  <2> SUFFICES ASSUME NEW k \in 1 .. c PROVE RxBuffer(fs, g[k])
    BY DEF RxBuffers
  <2>1. RxBuffer(fr, g[k])
    BY DEF RxChain, RxBuffers
  <2>2. g[k].f \in 1 .. Len(fr) /\ fs[g[k].f] = fr[g[k].f] /\ g[k].f \in 1 .. Len(fs)
    BY <1>0, <2>1 DEF RxBuffer
  <2> QED BY <2>1, <2>2 DEF RxBuffer
<1>2. RxOpen(fs, g, c, f, left)
  <2>1. RxOpen(fr, g, c, f, left)
    BY DEF RxChain
  <2>2. CASE left > 0
    <3>1. f \in 1 .. Len(fr) /\ fs[f] = fr[f] /\ f \in 1 .. Len(fs)
      BY <1>0, <2>1, <2>2 DEF RxOpen
    <3> QED BY <2>1, <3>1 DEF RxOpen
  <2>3. CASE ~(left > 0)
    BY <2>1, <2>3 DEF RxOpen
  <2> QED BY <2>2, <2>3
<1> QED BY <1>1, <1>2 DEF RxChain

\* The LANCE begins a frame.
LEMMA RxBegun ==
  ASSUME NEW fr, NEW fs, Len(fr) \in Nat, Len(fs) = Len(fr) + 1,
         \A i \in 1 .. Len(fr) : fs[i] = fr[i],
         NEW g, NEW c \in Nat, NEW f, RxChain(fr, g, c, f, 0), RxCount \in Nat, c < RxCount,
         NEW n \in Nat \ {0}, fs[Len(fs)].size = n
  PROVE  RxChain(fs, g, c, Len(fs), n)
<1>1. RxChain(fs, g, c, f, 0)
  BY RxMore
<1>2. \A k \in 1 .. c : g[k].f \in 1 .. Len(fr)
  BY DEF RxChain, RxBuffers, RxBuffer
<1>3. \A k \in 1 .. c : g[k].f <= Len(fs) /\ g[k].f < Len(fs)
  BY <1>2
<1>4. c = 0 \/ Ended(g[c])
  BY DEF RxChain, RxOpen
<1>5. Len(fs) \in 1 .. Len(fs) /\ n \in 1 .. fs[Len(fs)].size
  OBVIOUS
<1>6. RxOpen(fs, g, c, Len(fs), n)
  BY <1>3, <1>4, <1>5 DEF RxOpen
<1> QED BY <1>1, <1>6 DEF RxChain

\* It stores a buffer.
LEMMA RxPut ==
  ASSUME NEW fr, NEW g, NEW c \in Nat, NEW f, NEW left, RxChain(fr, g, c, f, left),
         left \in Nat \ {0}, Len(fr) \in Nat, fr[f].size \in Nat, RxCount \in Nat,
         NEW h, \A k \in 1 .. c : h[k] = g[k], NEW e, e = c + 1,
         h[e].own = FALSE, h[e].f = f, h[e].b = fr[f].size - left + 1,
         h[e].enp => left = 1 /\ (h[e].err \/ ~fr[f].bad),
         NEW more, more \in Nat,
         more = 0 => Ended(h[e]),
         more # 0 => more = left - 1 /\ ~Ended(h[e]) /\ e < RxCount
  PROVE  RxChain(fr, h, e, f, more)
<1>1. /\ c < RxCount /\ f \in 1 .. Len(fr) /\ left \in 1 .. fr[f].size
      /\ \A k \in 1 .. c : g[k].f <= f /\ (Ended(g[k]) => g[k].f < f)
      /\ c = 0 \/ Ended(g[c]) => left = fr[f].size
      /\ c # 0 /\ ~Ended(g[c]) => g[c].f = f /\ g[c].b = fr[f].size - left
  BY DEF RxChain, RxOpen
<1>2. \A k \in 1 .. e : k \in 1 .. c \/ k = e
  OBVIOUS
<1>3. RxBuffers(fr, h, e)
  <2>1. RxBuffer(fr, h[e])
    <3>1. h[e].f \in 1 .. Len(fr) /\ h[e].b \in 1 .. fr[f].size
      BY <1>1
    <3>2. h[e].enp => h[e].b = fr[f].size
      BY <1>1
    <3> QED BY <3>1, <3>2 DEF RxBuffer
  <2>2. \A k \in 1 .. c : RxBuffer(fr, h[k])
    BY DEF RxChain, RxBuffers
  <2> QED BY <1>2, <2>1, <2>2 DEF RxBuffers
<1>4. RxSorted(h, e)
  <2> SUFFICES ASSUME NEW i \in 1 .. e, NEW k \in 1 .. e, i < k
               PROVE  h[i].f <= h[k].f /\ (Ended(h[i]) => h[i].f < h[k].f)
    BY DEF RxSorted
  <2>1. i \in 1 .. c
    OBVIOUS
  <2>2. CASE k = e
    BY <1>1, <2>1, <2>2
  <2>3. CASE k \in 1 .. c
    BY <2>1, <2>3 DEF RxChain, RxSorted
  <2> QED BY <1>2, <2>2, <2>3
<1>5. RxFollows(h, e)
  <2> SUFFICES ASSUME NEW k \in 1 .. e, k < e
               PROVE  /\ Ended(h[k]) => h[k + 1].b = 1
                      /\ ~Ended(h[k]) => h[k + 1].f = h[k].f /\ h[k + 1].b = h[k].b + 1
    BY DEF RxFollows
  <2>1. k \in 1 .. c /\ h[k] = g[k]
    OBVIOUS
  <2>2. CASE k = c
    <3>1. k + 1 = e /\ c # 0
      BY <2>1, <2>2
    <3>2. CASE Ended(g[c])
      BY <1>1, <2>1, <2>2, <3>1, <3>2
    <3>3. CASE ~Ended(g[c])
      BY <1>1, <2>1, <2>2, <3>1, <3>3
    <3> QED BY <3>2, <3>3
  <2>3. CASE k # c
    <3>1. k < c /\ k + 1 \in 1 .. c /\ h[k + 1] = g[k + 1]
      BY <2>1, <2>3
    <3> QED BY <2>1, <3>1 DEF RxChain, RxFollows
  <2> QED BY <2>2, <2>3
<1>6. RxOpen(fr, h, e, f, more)
  <2>1. CASE more = 0
    BY <2>1 DEF RxOpen
  <2>2. CASE more # 0
    <3>1. more = left - 1 /\ ~Ended(h[e]) /\ e < RxCount /\ e # 0
      BY <2>2
    <3>2. more \in 1 .. fr[f].size /\ h[e].b = fr[f].size - more
      BY <1>1, <2>2, <3>1
    <3>3. \A k \in 1 .. e : h[k].f <= f /\ (Ended(h[k]) => h[k].f < f)
      BY <1>1, <1>2, <3>1
    <3> QED BY <1>1, <3>1, <3>2, <3>3 DEF RxOpen
  <2> QED BY <2>1, <2>2
<1> QED BY <1>3, <1>4, <1>5, <1>6 DEF RxChain

\* The driver takes the first one.
LEMMA RxGet ==
  ASSUME NEW fr, NEW g, NEW c \in Nat \ {0}, NEW f, NEW left, RxChain(fr, g, c, f, left),
         RxCount \in Nat, left \in Nat,
         NEW h, NEW e, e = c - 1, \A k \in 1 .. e : h[k] = g[k + 1],
         e = 0 => Ended(g[1])
  PROVE  RxChain(fr, h, e, f, left)
<1>1. e \in Nat /\ \A k \in 1 .. e : k + 1 \in 1 .. c /\ k \in Nat
  OBVIOUS
<1>2. RxBuffers(fr, h, e)
  BY <1>1 DEF RxChain, RxBuffers
<1>3. RxSorted(h, e)
  <2> SUFFICES ASSUME NEW i \in 1 .. e, NEW k \in 1 .. e, i < k
               PROVE  h[i].f <= h[k].f /\ (Ended(h[i]) => h[i].f < h[k].f)
    BY DEF RxSorted
  <2>1. i + 1 \in 1 .. c /\ k + 1 \in 1 .. c /\ i + 1 < k + 1
    BY <1>1
  <2> QED BY <2>1 DEF RxChain, RxSorted
<1>4. RxFollows(h, e)
  <2> SUFFICES ASSUME NEW k \in 1 .. e, k < e
               PROVE  /\ Ended(h[k]) => h[k + 1].b = 1
                      /\ ~Ended(h[k]) => h[k + 1].f = h[k].f /\ h[k + 1].b = h[k].b + 1
    BY DEF RxFollows
  <2>1. k + 1 \in 1 .. c /\ k + 1 < c /\ k + 1 \in 1 .. e
    BY <1>1
  <2>2. h[k] = g[k + 1] /\ h[k + 1] = g[(k + 1) + 1]
    BY <2>1
  <2> QED BY <2>1, <2>2 DEF RxChain, RxFollows
<1>5. RxOpen(fr, h, e, f, left)
  <2>1. CASE e = 0
    BY <2>1 DEF RxChain, RxOpen
  <2>2. CASE e # 0
    <3>1. h[e] = g[c] /\ e \in 1 .. e /\ c # 0 /\ e < c
      BY <1>1, <2>2
    <3>2. CASE left = 0
      BY <3>1, <3>2 DEF RxChain, RxOpen
    <3>3. CASE left > 0
      <4>1. /\ c < RxCount /\ f \in 1 .. Len(fr) /\ left \in 1 .. fr[f].size
            /\ \A k \in 1 .. c : g[k].f <= f /\ (Ended(g[k]) => g[k].f < f)
            /\ c = 0 \/ Ended(g[c]) => left = fr[f].size
            /\ c # 0 /\ ~Ended(g[c]) => g[c].f = f /\ g[c].b = fr[f].size - left
        BY <3>3 DEF RxChain, RxOpen
      <4>2. \A k \in 1 .. e : h[k].f <= f /\ (Ended(h[k]) => h[k].f < f)
        BY <1>1, <4>1
      <4>3. e < RxCount
        BY <4>1
      <4> QED BY <2>2, <3>1, <3>3, <4>1, <4>2, <4>3 DEF RxOpen
    <3> QED BY <3>2, <3>3
  <2> QED BY <2>1, <2>2
<1> QED BY <1>2, <1>3, <1>4, <1>5 DEF RxChain

-----------------------------------------------------------------------------
(* The inductive invariant, and its steps.                                 *)

RxTyped(s) ==
  /\ DOMAIN s = {"ring", "at", "cur", "rint", "rx_buffer_index", "in", "err", "j", "rb",
                 "rxbuff", "front", "up", "again", "frames", "unheard"}
  /\ s.at \in 0 .. RxCount - 1 /\ s.rx_buffer_index \in 0 .. RxCount - 1
  /\ s.j \in 0 .. RxCount - 1
  /\ DOMAIN s.cur = {"f", "left"} /\ s.cur.left \in Nat
  /\ s.rint \in BOOLEAN /\ s.err \in BOOLEAN /\ s.rb \in BOOLEAN /\ s.unheard \in BOOLEAN
  /\ s.in \in {"no", "loop", "copy", "end", "caught"}
  /\ s.rxbuff \in Seq(Nat)
  /\ DOMAIN s.up = RxStreams
  /\ s.frames \in Seq(RxFrame) /\ Len(s.frames) <= RxFrames
  /\ DOMAIN s.ring = 0 .. RxCount - 1

\* The driver's descriptors, c of them, and behind them the LANCE's.
RxRing(s, c) ==
  /\ s.at = RingSlot(s.rx_buffer_index, c + 1, RxCount)
  /\ \A k \in c + 1 .. RxCount : RxView(s)[k] = Rx!Owned

\* What is copied: up to the e-th descriptor; in rxbuff are the buffers before the first.
RxCopy(s, g, c) ==
  /\ s.in # "copy" /\ c > 0 => g[1].b = 1
  /\ s.in = "copy" =>
       /\ \E e \in 1 .. c : /\ g[e].enp /\ \A m \in 1 .. e : m < e => ~g[m].enp
                            /\ s.j = RingSlot(s.rx_buffer_index, e + 1, RxCount)
       /\ s.rb => /\ \A k \in DOMAIN s.rxbuff : s.rxbuff[k] = g[1].f
                  /\ g[1].b = Len(s.rxbuff) + 1

\* A frame that has gone up.
RxPacket(fr, p) ==
  /\ p \in Seq(Nat) /\ Len(p) > 0 /\ p[1] \in 1 .. Len(fr)
  /\ \A k \in 1 .. Len(p) : p[k] = p[1]
  /\ Len(p) = fr[p[1]].size /\ ~fr[p[1]].bad

\* What a stream has got, all of it older than what is in the ring.
RxGot(fr, u, g, c, f, left) ==
  /\ u \in Seq(Seq(Nat))
  /\ \A n \in 1 .. Len(u) :
       /\ RxPacket(fr, u[n])
       /\ \A k \in 1 .. c : u[n][1] < g[k].f
       /\ left > 0 => u[n][1] < f
  /\ \A n, m \in 1 .. Len(u) : n < m => u[n][1] < u[m][1]

RxUp(s, g, c) ==
  \A x \in RxStreams : RxGot(s.frames, s.up[x], g, c, s.cur.f, s.cur.left)

\* An ENP, or a ring that is full, has an interrupt to come.
RxQuiet(s, g, c) ==
  /\ s.in \in {"no", "end"} /\ ~s.rint /\ ~s.unheard =>
       c < RxCount /\ \A k \in 1 .. c : ~g[k].enp
  /\ s.in \in {"loop", "copy", "end"} => ~s.unheard

RxAt(s, c) ==
  /\ RxRing(s, c)
  /\ RxChain(s.frames, RxView(s), c, s.cur.f, s.cur.left)
  /\ RxCopy(s, RxView(s), c) /\ RxUp(s, RxView(s), c) /\ RxQuiet(s, RxView(s), c)

RxInv(s) == RxTyped(s) /\ \E c \in 0 .. RxCount : RxAt(s, c)

\* Only a search that never ends gives rxbuff away without a frame in it.
RxSpin(s) ==
  /\ s.again \subseteq RxStreams
  /\ s.again # {} => s.in = "caught"
  /\ s.in = "caught" => Rx!Caught(s)

RxKept(s) == RxInv(s) /\ RxSpin(s)

LEMMA RxConst == RxAssumption => /\ RxCount \in Nat \ {0} /\ RxCount >= 2 /\ RxFrames \in Nat
                                 /\ RxStreams \subseteq Nat /\ RxRaw \subseteq RxStreams
                                 /\ \A n \in RxSizes : n \in Nat \ {0}
  BY DEF RxAssumption

LEMMA RxInitial ==
  ASSUME RxAssumption, Rx!Init
  PROVE  RxKept(rx)
<1>0. RxCount \in Nat \ {0} /\ RxCount >= 2 /\ RxFrames \in Nat
  BY RxConst
<1>1. /\ DOMAIN rx = {"ring", "at", "cur", "rint", "rx_buffer_index", "in", "err", "j", "rb",
                      "rxbuff", "front", "up", "again", "frames", "unheard"}
      /\ rx.ring = [i \in Rx!Slots |-> Rx!Owned] /\ rx.at = 0 /\ rx.rx_buffer_index = 0
      /\ rx.cur = [f |-> 0, left |-> 0] /\ rx.rint = FALSE /\ rx.in = "no" /\ rx.err = FALSE
      /\ rx.j = 0 /\ rx.rb = FALSE /\ rx.rxbuff = <<>> /\ rx.up = [s \in RxStreams |-> <<>>]
      /\ rx.frames = <<>> /\ rx.unheard = FALSE /\ rx.again = {}
  BY DEF Rx!Init
<1>2. RxTyped(rx)
  <2>1. rx.frames \in Seq(RxFrame) /\ Len(rx.frames) = 0 /\ rx.rxbuff \in Seq(Nat)
    BY <1>1
  <2>2. DOMAIN rx.cur = {"f", "left"} /\ rx.cur.left = 0 /\ DOMAIN rx.up = RxStreams
    BY <1>1
  <2>3. DOMAIN rx.ring = 0 .. RxCount - 1
    BY <1>1 DEF Rx!Slots
  <2>4. 0 \in 0 .. RxCount - 1
    BY <1>0
  <2>5. rx.rint \in BOOLEAN /\ rx.err \in BOOLEAN /\ rx.rb \in BOOLEAN /\ rx.unheard \in BOOLEAN
    BY <1>1
  <2> QED BY <1>0, <1>1, <2>1, <2>2, <2>3, <2>4, <2>5 DEF RxTyped
<1>3. RxRing(rx, 0)
  <2>1. \A k \in 1 .. RxCount + 1 : RingSlot(0, k, RxCount) \in 0 .. RxCount - 1
    BY <1>0, RingWalk
  <2>2. \A k \in 1 .. RxCount : RingSlot(0, k, RxCount) \in Rx!Slots
    BY <1>0, <2>1 DEF Rx!Slots
  <2>3. \A k \in 1 .. RxCount : RxView(rx)[k] = Rx!Owned
    BY <1>1, <2>2 DEF RxView
  <2>4. RingSlot(0, 1, RxCount) = 0
    BY <1>0, RingWalk
  <2> QED BY <1>1, <2>3, <2>4 DEF RxRing
<1>4. RxChain(rx.frames, RxView(rx), 0, rx.cur.f, rx.cur.left)
  BY <1>1 DEF RxChain, RxBuffers, RxSorted, RxFollows, RxOpen
<1>5. RxCopy(rx, RxView(rx), 0) /\ RxQuiet(rx, RxView(rx), 0)
  BY <1>0, <1>1 DEF RxCopy, RxQuiet
<1>6. RxUp(rx, RxView(rx), 0)
  <2> SUFFICES ASSUME NEW x \in RxStreams
               PROVE  RxGot(rx.frames, rx.up[x], RxView(rx), 0, rx.cur.f, rx.cur.left)
    BY DEF RxUp
  <2>1. rx.up[x] = <<>>
    BY <1>1
  <2> QED BY <2>1 DEF RxGot
<1>7. RxSpin(rx)
  BY <1>1 DEF RxSpin
<1> QED BY <1>0, <1>2, <1>3, <1>4, <1>5, <1>6, <1>7 DEF RxInv, RxAt, RxKept

LEMMA RxViewAt ==
  ASSUME RxAssumption, NEW s, RxTyped(s), NEW k \in 0 .. RxCount
  PROVE  /\ RingSlot(s.rx_buffer_index, k + 1, RxCount) \in 0 .. RxCount - 1
         /\ (s.rx_buffer_index + k) % RxCount = RingSlot(s.rx_buffer_index, k + 1, RxCount)
         /\ k < RxCount => /\ k + 1 \in 1 .. RxCount
                           /\ Rx!D(s, k) = RxView(s)[k + 1]
                           /\ RxView(s)[k + 1] = s.ring[RingSlot(s.rx_buffer_index, k + 1, RxCount)]
<1>0. RxCount \in Nat \ {0} /\ k \in Nat
  BY RxConst
<1>1. s.rx_buffer_index \in 0 .. RxCount - 1
  BY DEF RxTyped
<1>2. PICK t \in 0 .. RxCount - 1 : t = s.rx_buffer_index
  BY <1>1
<1>3. (t + k) % RxCount = RingSlot(t, k + 1, RxCount)
  BY <1>0, RingMod
<1>4. k + 1 \in 1 .. RxCount + 1
  BY <1>0
<1>5. RingSlot(t, k + 1, RxCount) \in 0 .. RxCount - 1
  BY <1>0, <1>4, RingWalk
<1>6. k < RxCount => k + 1 \in 1 .. RxCount
  BY <1>0
<1> QED BY <1>2, <1>3, <1>5, <1>6 DEF RxView, Rx!D

\* Whose the descriptor is where the LANCE is.
LEMMA RxWhose ==
  ASSUME RxAssumption, NEW s, RxTyped(s), NEW c \in 0 .. RxCount, RxAt(s, c)
  PROVE  /\ c < RxCount => s.ring[s.at] = Rx!Owned
         /\ c = RxCount => s.ring[s.at].own = FALSE
<1>0. RxCount \in Nat \ {0} /\ c \in Nat
  BY RxConst
<1>1. s.at = RingSlot(s.rx_buffer_index, c + 1, RxCount) /\ \A k \in c + 1 .. RxCount : RxView(s)[k] = Rx!Owned
  BY DEF RxAt, RxRing
<1>2. CASE c < RxCount
  <2>1. c + 1 \in c + 1 .. RxCount
    BY <1>0, <1>2
  <2> QED BY <1>1, <1>2, <2>1, RxViewAt
<1>3. CASE c = RxCount
  <2>1. s.rx_buffer_index \in 0 .. RxCount - 1
    BY DEF RxTyped
  <2>2. s.at = s.rx_buffer_index /\ RingSlot(s.rx_buffer_index, 1, RxCount) = s.rx_buffer_index
    BY <1>0, <1>1, <1>3, <2>1, RingWalk
  <2>3. RxView(s)[1] = s.ring[s.at] /\ 1 \in 1 .. c
    BY <1>0, <1>3, <2>2 DEF RxView
  <2>4. RxBuffer(s.frames, RxView(s)[1])
    BY <2>3 DEF RxAt, RxChain, RxBuffers
  <2> QED BY <1>3, <2>3, <2>4 DEF RxBuffer
<1> QED BY <1>0, <1>2, <1>3

\* The LANCE's descriptor is given to the driver.
LEMMA RxRingPut ==
  ASSUME RxAssumption, NEW s, RxTyped(s), NEW t, RxTyped(t), NEW c \in 0 .. RxCount, RxAt(s, c),
         c < RxCount, NEW d, t.ring = [s.ring EXCEPT ![s.at] = d],
         t.rx_buffer_index = s.rx_buffer_index, t.at = (s.at + 1) % RxCount
  PROVE  /\ \A k \in 1 .. c : RxView(t)[k] = RxView(s)[k]
         /\ RxView(t)[c + 1] = d
         /\ RxRing(t, c + 1)
         /\ (s.ring[t.at].own => c + 1 < RxCount) /\ (c + 1 < RxCount => s.ring[t.at].own)
<1>0. RxCount \in Nat \ {0} /\ RxCount >= 2 /\ c \in Nat
  BY RxConst
<1>1. PICK i \in 0 .. RxCount - 1 : i = s.rx_buffer_index
  BY DEF RxTyped
<1>2. s.at = RingSlot(i, c + 1, RxCount) /\ \A k \in c + 1 .. RxCount : RxView(s)[k] = Rx!Owned
  BY <1>1 DEF RxAt, RxRing
<1>3. /\ \A k \in 1 .. RxCount + 1 : RingSlot(i, k, RxCount) \in 0 .. RxCount - 1
      /\ \A m, k \in 1 .. RxCount : RingSlot(i, m, RxCount) = RingSlot(i, k, RxCount) => m = k
      /\ RingSlot(i, 1, RxCount) = i /\ RingSlot(i, RxCount + 1, RxCount) = i
  BY <1>0, RingWalk
<1>4. c + 1 \in 1 .. RxCount
  BY <1>0
<1>5. \A k \in 1 .. RxCount : /\ RxView(s)[k] = s.ring[RingSlot(i, k, RxCount)]
                              /\ RxView(t)[k] = t.ring[RingSlot(i, k, RxCount)]
  BY <1>1 DEF RxView
<1>6. DOMAIN s.ring = 0 .. RxCount - 1
  BY DEF RxTyped
<1>7. \A k \in 1 .. RxCount : k # c + 1 => RxView(t)[k] = RxView(s)[k]
  <2> SUFFICES ASSUME NEW k \in 1 .. RxCount, k # c + 1 PROVE RxView(t)[k] = RxView(s)[k]
    OBVIOUS
  <2>1. RingSlot(i, k, RxCount) # s.at /\ RingSlot(i, k, RxCount) \in 0 .. RxCount - 1
    <3>1. RingSlot(i, k, RxCount) # s.at
      BY <1>2, <1>3, <1>4
    <3>2. k \in 1 .. RxCount + 1
      BY <1>0
    <3> QED BY <1>3, <3>1, <3>2
  <2>2. t.ring[RingSlot(i, k, RxCount)] = s.ring[RingSlot(i, k, RxCount)]
    BY <1>6, <2>1
  <2> QED BY <1>5, <2>2
<1>8. RxView(t)[c + 1] = d
  <2>1. s.at \in 0 .. RxCount - 1
    BY DEF RxTyped
  <2>2. t.ring[s.at] = d
    BY <1>6, <2>1
  <2> QED BY <1>2, <1>4, <1>5, <2>2
<1>9. t.at = RingSlot(i, (c + 1) + 1, RxCount)
  <2>1. (RingSlot(i, c + 1, RxCount) + 1) % RxCount = RingSlot(i, (c + 1) + 1, RxCount)
    BY <1>0, <1>4, RingStep
  <2> QED BY <1>2, <2>1
<1>10. /\ \A k \in (c + 1) + 1 .. RxCount : k \in c + 1 .. RxCount /\ k \in 1 .. RxCount /\ k # c + 1
       /\ \A k \in 1 .. c : k \in 1 .. RxCount /\ k # c + 1
  BY <1>0
<1>11. RxRing(t, c + 1)
  <2>1. \A k \in (c + 1) + 1 .. RxCount : RxView(t)[k] = Rx!Owned
    BY <1>2, <1>7, <1>10
  <2> QED BY <1>1, <1>9, <2>1 DEF RxRing
<1>12. c + 1 < RxCount => s.ring[t.at].own
  <2> SUFFICES ASSUME c + 1 < RxCount PROVE s.ring[t.at].own
    OBVIOUS
  <2>1. (c + 1) + 1 \in c + 1 .. RxCount /\ (c + 1) + 1 \in 1 .. RxCount
    BY <1>0
  <2>2. s.ring[t.at] = Rx!Owned
    BY <1>2, <1>5, <1>9, <2>1
  <2> QED BY <2>2 DEF Rx!Owned
<1>13. c + 1 = RxCount => s.ring[t.at].own = FALSE
  <2> SUFFICES ASSUME c + 1 = RxCount PROVE s.ring[t.at].own = FALSE
    OBVIOUS
  <2>1. t.at = i /\ 1 \in 1 .. RxCount /\ 1 \in 1 .. c
    BY <1>0, <1>3, <1>9
  <2>2. s.ring[t.at] = RxView(s)[1]
    BY <1>3, <1>5, <2>1
  <2>3. RxBuffer(s.frames, RxView(s)[1])
    BY <2>1 DEF RxAt, RxChain, RxBuffers
  <2> QED BY <2>2, <2>3 DEF RxBuffer
<1> QED BY <1>0, <1>7, <1>8, <1>10, <1>11, <1>12, <1>13

\* The driver's first descriptor is given back.
LEMMA RxRingGet ==
  ASSUME RxAssumption, NEW s, RxTyped(s), NEW t, RxTyped(t), NEW c \in 1 .. RxCount, RxAt(s, c),
         t.ring = [s.ring EXCEPT ![s.rx_buffer_index] = Rx!Owned],
         t.rx_buffer_index = (s.rx_buffer_index + 1) % RxCount, t.at = s.at
  PROVE  /\ \A k \in 1 .. c - 1 : RxView(t)[k] = RxView(s)[k + 1]
         /\ RxRing(t, c - 1)
         /\ \A k \in 1 .. RxCount : RingSlot(t.rx_buffer_index, k, RxCount)
                                      = RingSlot(s.rx_buffer_index, k + 1, RxCount)
         /\ RxView(s)[1] = s.ring[s.rx_buffer_index]
<1>0. RxCount \in Nat \ {0} /\ RxCount >= 2 /\ c \in Nat
  BY RxConst
<1>1. PICK i \in 0 .. RxCount - 1 : i = s.rx_buffer_index
  BY DEF RxTyped
<1>2. s.at = RingSlot(i, c + 1, RxCount) /\ \A k \in c + 1 .. RxCount : RxView(s)[k] = Rx!Owned
  BY <1>1 DEF RxAt, RxRing
<1>3. /\ \A k \in 1 .. RxCount + 1 : RingSlot(i, k, RxCount) \in 0 .. RxCount - 1
      /\ \A m, k \in 1 .. RxCount : RingSlot(i, m, RxCount) = RingSlot(i, k, RxCount) => m = k
      /\ RingSlot(i, 1, RxCount) = i /\ RingSlot(i, RxCount + 1, RxCount) = i
  BY <1>0, RingWalk
<1>4. PICK u : u = (i + 1) % RxCount /\ u = t.rx_buffer_index
  BY <1>1
<1>5. \A k \in 1 .. RxCount : RingSlot(u, k, RxCount) = RingSlot(i, k + 1, RxCount)
  BY <1>0, <1>4, RingStep
<1>6. \A k \in 1 .. RxCount : /\ RxView(s)[k] = s.ring[RingSlot(i, k, RxCount)]
                              /\ RxView(t)[k] = t.ring[RingSlot(i, k + 1, RxCount)]
  BY <1>1, <1>4, <1>5 DEF RxView
<1>7. DOMAIN s.ring = 0 .. RxCount - 1
  BY DEF RxTyped
<1>8. ASSUME NEW k \in 1 .. RxCount, k < RxCount
      PROVE  RxView(t)[k] = RxView(s)[k + 1] /\ k + 1 \in 1 .. RxCount
  <2>1. k + 1 \in 1 .. RxCount /\ k + 1 # 1 /\ k + 1 \in 1 .. RxCount + 1 /\ 1 \in 1 .. RxCount
    BY <1>0, <1>8
  <2>2. RingSlot(i, k + 1, RxCount) # i /\ RingSlot(i, k + 1, RxCount) \in 0 .. RxCount - 1
    BY <1>3, <2>1
  <2>3. t.ring[RingSlot(i, k + 1, RxCount)] = s.ring[RingSlot(i, k + 1, RxCount)]
    BY <1>1, <1>7, <2>2
  <2> QED BY <1>6, <2>1, <2>3
<1>9. RxView(t)[RxCount] = Rx!Owned
  <2>1. RxCount \in 1 .. RxCount
    BY <1>0
  <2>2. RxView(t)[RxCount] = t.ring[i]
    BY <1>3, <1>6, <2>1
  <2> QED BY <1>1, <1>7, <2>2
<1>10. /\ \A k \in 1 .. c - 1 : k \in 1 .. RxCount /\ k < RxCount
       /\ \A k \in (c - 1) + 1 .. RxCount :
            k = RxCount \/ (k \in 1 .. RxCount /\ k < RxCount /\ k + 1 \in c + 1 .. RxCount)
       /\ (c - 1) + 1 \in 1 .. RxCount /\ ((c - 1) + 1) + 1 = c + 1
  BY <1>0
<1>11. RxRing(t, c - 1)
  <2>1. \A k \in (c - 1) + 1 .. RxCount : RxView(t)[k] = Rx!Owned
    BY <1>2, <1>8, <1>9, <1>10
  <2>2. t.at = RingSlot(u, (c - 1) + 1, RxCount)
    BY <1>2, <1>5, <1>10
  <2> QED BY <1>4, <2>1, <2>2 DEF RxRing
<1>12. RxView(s)[1] = s.ring[s.rx_buffer_index]
  BY <1>0, <1>1, <1>3, <1>6
<1>13. \A k \in 1 .. RxCount : RingSlot(t.rx_buffer_index, k, RxCount)
                                 = RingSlot(s.rx_buffer_index, k + 1, RxCount)
  BY <1>1, <1>4, <1>5
<1> QED BY <1>8, <1>10, <1>11, <1>12, <1>13

LEMMA RxGotMore ==
  ASSUME NEW fr, NEW fs, Len(fr) \in Nat, Len(fs) = Len(fr) + 1,
         \A i \in 1 .. Len(fr) : fs[i] = fr[i],
         NEW u, NEW g, NEW c, NEW f, NEW left, RxGot(fr, u, g, c, f, left), NEW m
  PROVE  RxGot(fs, u, g, c, f, left) /\ RxGot(fs, u, g, c, Len(fs), m)
<1>1. \A n \in 1 .. Len(u) : RxPacket(fs, u[n]) /\ u[n][1] < Len(fs)
  <2> SUFFICES ASSUME NEW n \in 1 .. Len(u) PROVE RxPacket(fs, u[n]) /\ u[n][1] < Len(fs)
    OBVIOUS
  <2>1. RxPacket(fr, u[n])
    BY DEF RxGot
  <2>2. /\ u[n][1] \in 1 .. Len(fr) /\ u[n][1] \in 1 .. Len(fs) /\ fs[u[n][1]] = fr[u[n][1]]
        /\ u[n][1] < Len(fs)
    BY <2>1 DEF RxPacket
  <2> QED BY <2>1, <2>2 DEF RxPacket
<1> QED BY <1>1 DEF RxGot

LEMMA RxGotPut ==
  ASSUME NEW fr, NEW u, NEW g, NEW c \in Nat, NEW f, NEW left, RxGot(fr, u, g, c, f, left),
         left \in Nat \ {0}, NEW h, \A k \in 1 .. c : h[k] = g[k], h[c + 1].f = f, NEW more
  PROVE  RxGot(fr, u, h, c + 1, f, more)
<1>1. \A k \in 1 .. c + 1 : k \in 1 .. c \/ k = c + 1
  OBVIOUS
<1>2. left > 0
  OBVIOUS
<1>3. ASSUME NEW n \in 1 .. Len(u)
      PROVE  (\A k \in 1 .. c + 1 : u[n][1] < h[k].f) /\ u[n][1] < f
  BY <1>1, <1>2 DEF RxGot
<1> QED BY <1>3 DEF RxGot

LEMMA RxGotGet ==
  ASSUME NEW fr, NEW u, NEW g, NEW c \in Nat \ {0}, NEW f, NEW left,
         RxGot(fr, u, g, c, f, left), NEW h, \A k \in 1 .. c - 1 : h[k] = g[k + 1]
  PROVE  RxGot(fr, u, h, c - 1, f, left)
<1>1. \A k \in 1 .. c - 1 : k + 1 \in 1 .. c
  OBVIOUS
<1> QED BY <1>1 DEF RxGot

LEMMA RxGotUp ==
  ASSUME NEW fr, NEW u, NEW g, NEW c \in Nat \ {0}, NEW f, NEW left,
         RxChain(fr, g, c, f, left), left \in Nat, Len(fr) \in Nat,
         RxGot(fr, u, g, c, f, left), NEW h, \A k \in 1 .. c - 1 : h[k] = g[k + 1],
         NEW p, RxPacket(fr, p), p[1] = g[1].f, Ended(g[1]), NEW v, v = Append(u, p)
  PROVE  RxGot(fr, v, h, c - 1, f, left)
<1>0. u \in Seq(Seq(Nat)) /\ p \in Seq(Nat)
  BY DEF RxGot, RxPacket
<1>1. /\ v \in Seq(Seq(Nat)) /\ Len(v) = Len(u) + 1 /\ Len(u) \in Nat /\ v[Len(u) + 1] = p
      /\ \A i \in 1 .. Len(u) : v[i] = u[i]
  BY <1>0, Appended
<1>2. \A n \in 1 .. Len(v) : n \in 1 .. Len(u) \/ n = Len(u) + 1
  BY <1>1
<1>3. RxGot(fr, u, h, c - 1, f, left)
  BY RxGotGet
<1>4. \A k \in 1 .. c - 1 : p[1] < h[k].f
  <2> SUFFICES ASSUME NEW k \in 1 .. c - 1 PROVE p[1] < h[k].f
    OBVIOUS
  <2>1. 1 \in 1 .. c /\ k + 1 \in 1 .. c /\ 1 < k + 1
    OBVIOUS
  <2> QED BY <2>1 DEF RxChain, RxSorted
<1>5. left > 0 => p[1] < f
  <2>1. 1 \in 1 .. c
    OBVIOUS
  <2> QED BY <2>1 DEF RxChain, RxOpen
<1>6. \A n \in 1 .. Len(u) : u[n][1] < p[1]
  <2>1. 1 \in 1 .. c
    OBVIOUS
  <2> QED BY <2>1 DEF RxGot
<1>7. \A n \in 1 .. Len(v) : /\ RxPacket(fr, v[n])
                             /\ \A k \in 1 .. c - 1 : v[n][1] < h[k].f
                             /\ left > 0 => v[n][1] < f
  BY <1>1, <1>2, <1>3, <1>4, <1>5 DEF RxGot
<1>8. \A n, m \in 1 .. Len(v) : n < m => v[n][1] < v[m][1]
  <2> SUFFICES ASSUME NEW n \in 1 .. Len(v), NEW m \in 1 .. Len(v), n < m
               PROVE  v[n][1] < v[m][1]
    OBVIOUS
  <2>1. n \in 1 .. Len(u)
    BY <1>1
  <2>2. CASE m = Len(u) + 1
    BY <1>1, <1>6, <2>1, <2>2
  <2>3. CASE m \in 1 .. Len(u)
    BY <1>1, <2>1, <2>3 DEF RxGot
  <2> QED BY <1>2, <2>2, <2>3
<1> QED BY <1>1, <1>7, <1>8 DEF RxGot

LEMMA RxViewSame ==
  ASSUME NEW s, NEW t, t.ring = s.ring, t.rx_buffer_index = s.rx_buffer_index
  PROVE  RxView(t) = RxView(s)
  BY DEF RxView

LEMMA RxArrive ==
  ASSUME RxAssumption, RxInv(rx), Rx!Arrive
  PROVE  RxInv(rx')
<1>0. RxCount \in Nat \ {0} /\ RxFrames \in Nat /\ \A n \in RxSizes : n \in Nat \ {0}
  BY RxConst
<1>1. RxTyped(rx)
  BY DEF RxInv
<1>2. PICK c \in 0 .. RxCount : RxAt(rx, c)
  BY DEF RxInv
<1>3. PICK n \in RxSizes, bad \in BOOLEAN, sap \in (RxStreams \ RxRaw) \cup {0} :
        LET f == Append(rx.frames, [size |-> n, bad |-> bad, sap |-> sap])
        IN  rx' = IF rx.ring[rx.at].own
                  THEN [rx EXCEPT !.frames = f, !.cur = [f |-> Len(f), left |-> n]]
                  ELSE [rx EXCEPT !.frames = f]
  BY DEF Rx!Arrive
<1>4. PICK x : x = [size |-> n, bad |-> bad, sap |-> sap]
  OBVIOUS
<1>5. PICK fs : fs = Append(rx.frames, x)
  OBVIOUS
<1>6. rx' = IF rx.ring[rx.at].own THEN [rx EXCEPT !.frames = fs, !.cur = [f |-> Len(fs), left |-> n]]
            ELSE [rx EXCEPT !.frames = fs]
  BY <1>3, <1>4, <1>5
<1>7. x \in RxFrame /\ n \in Nat \ {0} /\ x.size = n
  <2>1. n \in Nat \ {0} /\ sap \in Nat
    BY <1>0, RxConst
  <2> QED BY <1>4, <2>1 DEF RxFrame
<1>8. rx.cur.left = 0 /\ Len(rx.frames) < RxFrames
  BY DEF Rx!Arrive
<1>9. rx.frames \in Seq(RxFrame)
  BY <1>1 DEF RxTyped
<1>10. /\ fs \in Seq(RxFrame) /\ Len(fs) = Len(rx.frames) + 1 /\ Len(rx.frames) \in Nat
       /\ fs[Len(rx.frames) + 1] = x /\ \A i \in 1 .. Len(rx.frames) : fs[i] = rx.frames[i]
  BY <1>5, <1>7, <1>9, Appended
<1>11. Len(fs) \in Nat /\ Len(fs) <= RxFrames /\ fs[Len(fs)].size = n
  BY <1>0, <1>7, <1>8, <1>10
<1>12. /\ rx'.ring = rx.ring /\ rx'.at = rx.at /\ rx'.rx_buffer_index = rx.rx_buffer_index
       /\ rx'.rint = rx.rint /\ rx'.in = rx.in /\ rx'.err = rx.err /\ rx'.j = rx.j /\ rx'.rb = rx.rb
       /\ rx'.rxbuff = rx.rxbuff /\ rx'.up = rx.up /\ rx'.unheard = rx.unheard
       /\ rx'.frames = fs
       /\ DOMAIN rx' = DOMAIN rx
  BY <1>1, <1>6 DEF RxTyped
<1>13. \/ rx.ring[rx.at].own /\ rx'.cur = [f |-> Len(fs), left |-> n]
       \/ ~rx.ring[rx.at].own /\ rx'.cur = rx.cur
  BY <1>1, <1>6 DEF RxTyped
<1>14. RxTyped(rx')
  <2>1. DOMAIN rx'.cur = {"f", "left"} /\ rx'.cur.left \in Nat
    BY <1>1, <1>7, <1>13 DEF RxTyped
  <2> QED BY <1>1, <1>10, <1>11, <1>12, <2>1 DEF RxTyped
<1>15. RxView(rx') = RxView(rx)
  BY <1>12, RxViewSame
<1>16. PICK g : g = RxView(rx)
  OBVIOUS
<1>17. /\ RxRing(rx, c) /\ RxChain(rx.frames, g, c, rx.cur.f, 0)
       /\ RxCopy(rx, g, c) /\ RxUp(rx, g, c) /\ RxQuiet(rx, g, c)
  BY <1>2, <1>8, <1>16 DEF RxAt
<1>18. RxRing(rx', c) /\ RxCopy(rx', g, c) /\ RxQuiet(rx', g, c)
  <2>1. RxRing(rx', c)
    BY <1>12, <1>15, <1>16, <1>17 DEF RxRing
  <2>2. RxCopy(rx', g, c)
    BY <1>12, <1>17 DEF RxCopy
  <2>3. RxQuiet(rx', g, c)
    BY <1>12, <1>17 DEF RxQuiet
  <2> QED BY <2>1, <2>2, <2>3
<1>19. c \in Nat
  BY <1>0
<1>20. RxChain(fs, g, c, rx'.cur.f, rx'.cur.left)
  <2>1. CASE rx.ring[rx.at].own
    <3>1. c < RxCount
      <4>1. c = RxCount => rx.ring[rx.at].own = FALSE
        BY <1>1, <1>2, RxWhose
      <4> QED BY <1>0, <2>1, <4>1
    <3>2. rx'.cur.f = Len(fs) /\ rx'.cur.left = n
      BY <1>13, <2>1
    <3>3. RxChain(fs, g, c, Len(fs), n)
      BY <1>0, <1>7, <1>10, <1>11, <1>17, <1>19, <3>1, RxBegun
    <3> QED BY <3>2, <3>3
  <2>2. CASE ~rx.ring[rx.at].own
    <3>1. RxChain(fs, g, c, rx.cur.f, 0)
      BY <1>10, <1>17, <1>19, RxMore
    <3> QED BY <1>8, <1>13, <2>2, <3>1
  <2> QED BY <2>1, <2>2
<1>21. RxUp(rx', g, c)
  <2> SUFFICES ASSUME NEW y \in RxStreams
               PROVE  RxGot(fs, rx.up[y], g, c, rx'.cur.f, rx'.cur.left)
    BY <1>12 DEF RxUp
  <2>1. RxGot(rx.frames, rx.up[y], g, c, rx.cur.f, rx.cur.left)
    BY <1>17 DEF RxUp
  <2>2. /\ RxGot(fs, rx.up[y], g, c, rx.cur.f, rx.cur.left)
        /\ RxGot(fs, rx.up[y], g, c, Len(fs), n)
    <3>1. PICK fr, u, f, left : fr = rx.frames /\ u = rx.up[y] /\ f = rx.cur.f /\ left = rx.cur.left
      OBVIOUS
    <3>2. /\ Len(fr) \in Nat /\ Len(fs) = Len(fr) + 1 /\ \A i \in 1 .. Len(fr) : fs[i] = fr[i]
          /\ RxGot(fr, u, g, c, f, left)
      BY <1>10, <2>1, <3>1
    <3>3. RxGot(fs, u, g, c, f, left) /\ RxGot(fs, u, g, c, Len(fs), n)
      BY ONLY <3>2, RxGotMore
    <3> QED BY <3>1, <3>3
  <2>3. (rx'.cur.f = Len(fs) /\ rx'.cur.left = n) \/ rx'.cur = rx.cur
    BY <1>13
  <2> QED BY <2>2, <2>3
<1>22. RxAt(rx', c)
  BY <1>12, <1>15, <1>16, <1>18, <1>20, <1>21 DEF RxAt
<1> QED BY <1>14, <1>22 DEF RxInv

LEMMA RxStore ==
  ASSUME RxAssumption, RxInv(rx), Rx!Store
  PROVE  RxInv(rx')
<1>0. RxCount \in Nat \ {0} /\ RxCount >= 2 /\ RxFrames \in Nat
  BY RxConst
<1>1. RxTyped(rx)
  BY DEF RxInv
<1>2. PICK c \in 0 .. RxCount : RxAt(rx, c)
  BY DEF RxInv
<1>3. PICK fr, f, left, g : fr = rx.frames /\ f = rx.cur.f /\ left = rx.cur.left /\ g = RxView(rx)
  OBVIOUS
<1>4. left \in Nat \ {0} /\ left > 0 /\ Len(fr) \in Nat
  <2>1. left > 0
    BY <1>3 DEF Rx!Store
  <2>2. left \in Nat /\ fr \in Seq(RxFrame)
    BY <1>1, <1>3 DEF RxTyped
  <2> QED BY <2>1, <2>2
<1>5. /\ RxRing(rx, c) /\ RxChain(fr, g, c, f, left)
      /\ RxCopy(rx, g, c) /\ RxUp(rx, g, c) /\ RxQuiet(rx, g, c)
  BY <1>2, <1>3 DEF RxAt
<1>6. c < RxCount /\ f \in 1 .. Len(fr) /\ left \in 1 .. fr[f].size /\ c \in Nat
  BY <1>0, <1>4, <1>5 DEF RxChain, RxOpen
<1>7. fr[f].size \in Nat \ {0} /\ fr[f].bad \in BOOLEAN
  <2>1. fr \in Seq(RxFrame)
    BY <1>1, <1>3 DEF RxTyped
  <2>2. fr[f] \in RxFrame
    BY <1>6, <2>1
  <2> QED BY <2>2 DEF RxFrame
<1>8. PICK last \in BOOLEAN : last <=> left = 1
  OBVIOUS
<1>9. PICK a : a = (rx.at + 1) % RxCount
  OBVIOUS
<1>10. PICK out \in BOOLEAN : out <=> ~last /\ ~rx.ring[a].own
  OBVIOUS
<1>11. PICK d : d = [own |-> FALSE, enp |-> last, err |-> out \/ (last /\ fr[f].bad),
                     f |-> f, b |-> fr[f].size - left + 1]
  OBVIOUS
<1>12. PICK more : more = IF out THEN 0 ELSE left - 1
  OBVIOUS
<1>13. rx' = [rx EXCEPT !.ring[rx.at] = d, !.at = a, !.cur.left = more, !.rint = @ \/ last \/ out]
  <2>1. last = (rx.cur.left = 1)
    BY <1>3, <1>8
  <2>2. out = (~(rx.cur.left = 1) /\ ~rx.ring[Rx!Up1(rx.at)].own)
    BY <1>9, <1>10, <2>1 DEF Rx!Up1
  <2>3. rx' = [rx EXCEPT
           !.ring[rx.at] = [own |-> FALSE, enp |-> rx.cur.left = 1,
                            err |-> (~(rx.cur.left = 1) /\ ~rx.ring[Rx!Up1(rx.at)].own)
                                      \/ ((rx.cur.left = 1) /\ rx.frames[rx.cur.f].bad),
                            f |-> rx.cur.f, b |-> rx.frames[rx.cur.f].size - rx.cur.left + 1],
           !.at = Rx!Up1(@),
           !.cur.left = IF (~(rx.cur.left = 1) /\ ~rx.ring[Rx!Up1(rx.at)].own) THEN 0 ELSE @ - 1,
           !.rint = @ \/ (rx.cur.left = 1) \/ (~(rx.cur.left = 1) /\ ~rx.ring[Rx!Up1(rx.at)].own)]
    BY DEF Rx!Store
  <2>4. rx' = [rx EXCEPT
           !.ring[rx.at] = [own |-> FALSE, enp |-> last,
                            err |-> out \/ (last /\ fr[f].bad),
                            f |-> f, b |-> fr[f].size - left + 1],
           !.at = Rx!Up1(@),
           !.cur.left = IF out THEN 0 ELSE @ - 1,
           !.rint = @ \/ last \/ out]
    BY ONLY <1>3, <2>1, <2>2, <2>3, Zenon
  <2>5. rx' = [rx EXCEPT !.ring[rx.at] = d, !.at = Rx!Up1(@),
                         !.cur.left = IF out THEN 0 ELSE @ - 1, !.rint = @ \/ last \/ out]
    BY ONLY <1>11, <2>4, Zenon
  <2> QED BY <1>1, <1>3, <1>9, <1>12, <2>5 DEF Rx!Up1, RxTyped
<1>14. /\ rx'.ring = [rx.ring EXCEPT ![rx.at] = d] /\ rx'.at = a
       /\ rx'.cur = [rx.cur EXCEPT !.left = more] /\ rx'.rint = (rx.rint \/ last \/ out)
       /\ rx'.rx_buffer_index = rx.rx_buffer_index
       /\ rx'.in = rx.in /\ rx'.err = rx.err /\ rx'.j = rx.j /\ rx'.rb = rx.rb
       /\ rx'.rxbuff = rx.rxbuff /\ rx'.up = rx.up /\ rx'.unheard = rx.unheard
       /\ rx'.frames = rx.frames
       /\ DOMAIN rx' = DOMAIN rx
  BY <1>1, <1>13 DEF RxTyped
<1>15. more \in Nat
  BY <1>4, <1>12
<1>16. rx'.cur.f = f /\ rx'.cur.left = more /\ DOMAIN rx'.cur = {"f", "left"}
  BY <1>1, <1>3, <1>14 DEF RxTyped
<1>17. RxTyped(rx')
  <2>1. a \in 0 .. RxCount - 1
    <3>1. PICK t \in 0 .. RxCount - 1 : t = rx.at
      BY <1>1 DEF RxTyped
    <3>2. (t + 1) % RxCount \in 0 .. RxCount - 1
      BY <1>0, RingStep
    <3> QED BY <1>9, <3>1, <3>2
  <2>2. rx'.rint \in BOOLEAN
    BY <1>14
  <2>3. DOMAIN rx'.ring = 0 .. RxCount - 1
    BY <1>1, <1>14 DEF RxTyped
  <2> QED BY <1>1, <1>14, <1>15, <1>16, <2>1, <2>2, <2>3 DEF RxTyped
<1>18. PICK h, e : h = RxView(rx') /\ e = c + 1
  OBVIOUS
<1>19. /\ \A k \in 1 .. c : h[k] = g[k]
       /\ h[e] = d
       /\ RxRing(rx', e)
       /\ (rx.ring[a].own => e < RxCount) /\ (e < RxCount => rx.ring[a].own)
  <2>1. /\ \A k \in 1 .. c : RxView(rx')[k] = RxView(rx)[k]
        /\ RxView(rx')[c + 1] = d
        /\ RxRing(rx', c + 1)
        /\ (rx.ring[rx'.at].own => c + 1 < RxCount) /\ (c + 1 < RxCount => rx.ring[rx'.at].own)
    BY <1>1, <1>2, <1>6, <1>9, <1>14, <1>17, RxRingPut
  <2> QED BY <1>3, <1>14, <1>18, <2>1
<1>20. e \in 0 .. RxCount /\ e \in Nat /\ e # 0
  BY <1>0, <1>6, <1>18
<1>21. /\ d.own = FALSE /\ d.enp = last /\ d.err = (out \/ (last /\ fr[f].bad))
       /\ d.f = f /\ d.b = fr[f].size - left + 1
  BY <1>11
<1>22. RxChain(fr, h, e, f, more)
  <2>1. h[e].enp => left = 1 /\ (h[e].err \/ ~fr[f].bad)
    BY <1>8, <1>19, <1>21
  <2>2. more = 0 => Ended(h[e])
    BY <1>4, <1>8, <1>12, <1>19, <1>21 DEF Ended
  <2>3. more # 0 => more = left - 1 /\ ~Ended(h[e]) /\ e < RxCount
    <3> SUFFICES ASSUME more # 0 PROVE more = left - 1 /\ ~Ended(h[e]) /\ e < RxCount
      OBVIOUS
    <3>1. ~out /\ more = left - 1 /\ ~last
      BY <1>4, <1>8, <1>12
    <3> QED BY <1>10, <1>19, <1>21, <3>1 DEF Ended
  <2>4. h[e].own = FALSE /\ h[e].f = f /\ h[e].b = fr[f].size - left + 1
    BY <1>19, <1>21
  <2>5. RxCount \in Nat /\ fr[f].size \in Nat
    BY <1>0, <1>7
  <2>6. \A k \in 1 .. c : h[k] = g[k]
    BY <1>19
  <2>7. c \in Nat /\ RxChain(fr, g, c, f, left) /\ left \in Nat \ {0} /\ Len(fr) \in Nat
    BY <1>4, <1>5, <1>6
  <2>8. e = c + 1 /\ more \in Nat
    BY <1>15, <1>18
  <2> QED BY ONLY <2>1, <2>2, <2>3, <2>4, <2>5, <2>6, <2>7, <2>8, RxPut, ZenonT(30)
<1>23. RxUp(rx', h, e)
  <2> SUFFICES ASSUME NEW y \in RxStreams
               PROVE  RxGot(fr, rx.up[y], h, e, f, more)
    BY <1>3, <1>14, <1>16 DEF RxUp
  <2>1. PICK u : u = rx.up[y]
    OBVIOUS
  <2>2. RxGot(fr, u, g, c, f, left)
    BY <1>3, <1>5, <2>1 DEF RxUp
  <2>3. (\A k \in 1 .. c : h[k] = g[k]) /\ h[c + 1].f = f
    BY <1>18, <1>19, <1>21
  <2>4. RxGot(fr, u, h, c + 1, f, more)
    BY ONLY <1>4, <1>6, <2>2, <2>3, RxGotPut
  <2> QED BY <1>18, <2>1, <2>4
<1>24. RxCopy(rx', h, e)
  <2>1. rx.in # "copy" => h[1].b = 1
    <3> SUFFICES ASSUME rx.in # "copy" PROVE h[1].b = 1
      OBVIOUS
    <3>1. CASE c = 0
      <4>1. e = 1 /\ left = fr[f].size
        BY <1>4, <1>5, <1>18, <3>1 DEF RxChain, RxOpen
      <4> QED BY <1>7, <1>19, <1>21, <4>1
    <3>2. CASE c # 0
      <4>1. 1 \in 1 .. c /\ c > 0
        BY <1>6, <3>2
      <4> QED BY <1>5, <1>19, <4>1 DEF RxCopy
    <3> QED BY <3>1, <3>2
  <2>2. rx.in = "copy" =>
          /\ \E i \in 1 .. e : /\ h[i].enp /\ \A m \in 1 .. i : m < i => ~h[m].enp
                               /\ rx.j = RingSlot(rx.rx_buffer_index, i + 1, RxCount)
          /\ rx.rb => /\ \A k \in DOMAIN rx.rxbuff : rx.rxbuff[k] = h[1].f
                      /\ h[1].b = Len(rx.rxbuff) + 1
    <3> SUFFICES ASSUME rx.in = "copy"
                 PROVE  /\ \E i \in 1 .. e : /\ h[i].enp /\ \A m \in 1 .. i : m < i => ~h[m].enp
                                             /\ rx.j = RingSlot(rx.rx_buffer_index, i + 1, RxCount)
                        /\ rx.rb => /\ \A k \in DOMAIN rx.rxbuff : rx.rxbuff[k] = h[1].f
                                    /\ h[1].b = Len(rx.rxbuff) + 1
      OBVIOUS
    <3>1. PICK i \in 1 .. c : /\ g[i].enp /\ \A m \in 1 .. i : m < i => ~g[m].enp
                              /\ rx.j = RingSlot(rx.rx_buffer_index, i + 1, RxCount)
      BY <1>5 DEF RxCopy
    <3>2. i \in 1 .. e /\ 1 \in 1 .. c /\ \A m \in 1 .. i : m \in 1 .. c
      BY <1>6, <1>18
    <3>3. h[1] = g[1] /\ \A m \in 1 .. i : h[m] = g[m]
      BY <1>19, <3>2
    <3>4. i \in 1 .. i
      BY <1>6
    <3>5. h[i].enp /\ \A m \in 1 .. i : m < i => ~h[m].enp
      BY <3>1, <3>3, <3>4
    <3>6. rx.rb => /\ \A k \in DOMAIN rx.rxbuff : rx.rxbuff[k] = h[1].f
                   /\ h[1].b = Len(rx.rxbuff) + 1
      BY <1>5, <3>3 DEF RxCopy
    <3> QED BY <3>1, <3>2, <3>5, <3>6
  <2> QED BY <1>14, <2>1, <2>2 DEF RxCopy
<1>25. RxQuiet(rx', h, e)
  <2>1. rx'.in \in {"no", "end"} /\ ~rx'.rint /\ ~rx'.unheard =>
          e < RxCount /\ \A k \in 1 .. e : ~h[k].enp
    <3> SUFFICES ASSUME rx'.in \in {"no", "end"}, ~rx'.rint, ~rx'.unheard
                 PROVE  e < RxCount /\ \A k \in 1 .. e : ~h[k].enp
      OBVIOUS
    <3>1. ~rx.rint /\ ~last /\ ~out /\ rx.in \in {"no", "end"} /\ ~rx.unheard
      BY <1>14
    <3>2. \A k \in 1 .. c : ~g[k].enp
      BY <1>5, <3>1 DEF RxQuiet
    <3>3. \A k \in 1 .. e : k \in 1 .. c \/ k = e
      BY <1>6, <1>18
    <3>4. e < RxCount
      BY <1>10, <1>19, <3>1
    <3>5. ~h[e].enp
      BY <1>19, <1>21, <3>1
    <3> QED BY <1>19, <3>2, <3>3, <3>4, <3>5
  <2> QED BY <1>5, <1>14, <2>1 DEF RxQuiet
<1>26. RxAt(rx', e)
  BY <1>3, <1>14, <1>16, <1>18, <1>19, <1>22, <1>23, <1>24, <1>25 DEF RxAt
<1> QED BY <1>17, <1>20, <1>26 DEF RxInv

\* A step of the driver that leaves the ring and the streams alone.
LEMMA RxStill ==
  ASSUME NEW s, NEW t, RxTyped(s), RxTyped(t), NEW c \in 0 .. RxCount, RxAt(s, c),
         t.ring = s.ring, t.at = s.at, t.rx_buffer_index = s.rx_buffer_index, t.cur = s.cur,
         t.frames = s.frames, t.up = s.up,
         RxCopy(t, RxView(s), c), RxQuiet(t, RxView(s), c)
  PROVE  RxInv(t)
<1>1. RxView(t) = RxView(s)
  BY RxViewSame
<1>2. RxRing(t, c)
  BY <1>1 DEF RxAt, RxRing
<1>3. RxUp(t, RxView(t), c)
  BY <1>1 DEF RxAt, RxUp
<1>4. RxAt(t, c)
  BY <1>1, <1>2, <1>3 DEF RxAt
<1> QED BY <1>4 DEF RxInv

LEMMA RxIntr ==
  ASSUME RxAssumption, RxInv(rx), Rx!AenIntr
  PROVE  RxInv(rx')
<1>1. RxTyped(rx)
  BY DEF RxInv
<1>2. PICK c \in 0 .. RxCount : RxAt(rx, c)
  BY DEF RxInv
<1>3. PICK err \in BOOLEAN :
        rx' = [rx EXCEPT !.rint = FALSE, !.unheard = FALSE, !.in = "loop", !.err = err]
  BY DEF Rx!AenIntr
<1>4. /\ rx'.rint = FALSE /\ rx'.unheard = FALSE /\ rx'.in = "loop" /\ rx'.err = err
      /\ rx'.ring = rx.ring /\ rx'.at = rx.at /\ rx'.rx_buffer_index = rx.rx_buffer_index
      /\ rx'.cur = rx.cur /\ rx'.frames = rx.frames /\ rx'.up = rx.up
      /\ rx'.j = rx.j /\ rx'.rb = rx.rb /\ rx'.rxbuff = rx.rxbuff /\ DOMAIN rx' = DOMAIN rx
  BY <1>1, <1>3 DEF RxTyped
<1>5. RxTyped(rx')
  BY <1>1, <1>4 DEF RxTyped
<1>6. rx.in = "no"
  BY DEF Rx!AenIntr
<1>7. RxCopy(rx', RxView(rx), c)
  BY <1>2, <1>4, <1>6 DEF RxAt, RxCopy
<1>8. RxQuiet(rx', RxView(rx), c)
  BY <1>4 DEF RxQuiet
<1> QED BY <1>1, <1>2, <1>4, <1>5, <1>7, <1>8, RxStill

LEMMA RxIntrEnd ==
  ASSUME RxAssumption, RxInv(rx), Rx!AenIntrEnd
  PROVE  RxInv(rx')
<1>1. RxTyped(rx)
  BY DEF RxInv
<1>2. PICK c \in 0 .. RxCount : RxAt(rx, c)
  BY DEF RxInv
<1>3. /\ rx.in = "end"
      /\ rx' = [rx EXCEPT !.in = "no", !.rint = @ /\ ~rx.err, !.unheard = rx.rint /\ rx.err]
  BY DEF Rx!AenIntrEnd
<1>4. /\ rx'.rint = (rx.rint /\ ~rx.err) /\ rx'.unheard = (rx.rint /\ rx.err) /\ rx'.in = "no"
      /\ rx'.err = rx.err
      /\ rx'.ring = rx.ring /\ rx'.at = rx.at /\ rx'.rx_buffer_index = rx.rx_buffer_index
      /\ rx'.cur = rx.cur /\ rx'.frames = rx.frames /\ rx'.up = rx.up
      /\ rx'.j = rx.j /\ rx'.rb = rx.rb /\ rx'.rxbuff = rx.rxbuff /\ DOMAIN rx' = DOMAIN rx
  BY <1>1, <1>3 DEF RxTyped
<1>5. rx'.rint \in BOOLEAN /\ rx'.unheard \in BOOLEAN
  BY <1>4
<1>6. RxTyped(rx')
  BY <1>1, <1>4, <1>5 DEF RxTyped
<1>7. RxCopy(rx', RxView(rx), c)
  BY <1>2, <1>3, <1>4 DEF RxAt, RxCopy
<1>8. RxQuiet(rx', RxView(rx), c)
  BY <1>2, <1>3, <1>4 DEF RxAt, RxQuiet
<1> QED BY <1>1, <1>2, <1>4, <1>6, <1>7, <1>8, RxStill

\* Where the next ENP is, if there is one.
LEMMA RxEnds ==
  ASSUME RxAssumption, NEW s, RxTyped(s), NEW c \in 0 .. RxCount, RxAt(s, c)
  PROVE  /\ \A k \in 1 .. c : RxView(s)[k].enp => k - 1 \in Rx!Ends(s)
         /\ \A k \in Rx!Ends(s) : k + 1 \in 1 .. c /\ RxView(s)[k + 1].enp
         /\ Rx!Ends(s) \subseteq 0 .. RxCount - 1
<1>0. RxCount \in Nat \ {0} /\ c \in Nat
  BY RxConst
<1>1. PICK g : g = RxView(s)
  OBVIOUS
<1>2. \A k \in 0 .. RxCount - 1 : k + 1 \in 1 .. RxCount /\ Rx!D(s, k) = g[k + 1] /\ k \in 0 .. RxCount /\ k < RxCount
  <2>1. \A k \in 0 .. RxCount - 1 : k \in 0 .. RxCount /\ k < RxCount
    BY <1>0
  <2> QED BY <1>1, <2>1, RxViewAt
<1>3. \A k \in 1 .. c : g[k].own = FALSE
  BY <1>1 DEF RxAt, RxChain, RxBuffers, RxBuffer
<1>4. \A k \in c + 1 .. RxCount : g[k].own
  <2>1. \A k \in c + 1 .. RxCount : g[k] = Rx!Owned
    BY <1>1 DEF RxAt, RxRing
  <2> QED BY <2>1 DEF Rx!Owned
<1>5. Rx!Ends(s) = {k \in 0 .. RxCount - 1 : Rx!D(s, k).enp /\ \A m \in 0 .. k : ~Rx!D(s, m).own}
  BY DEF Rx!Ends
<1>6. ASSUME NEW k \in 1 .. c, g[k].enp
      PROVE  k - 1 \in Rx!Ends(s)
  <2>1. /\ k - 1 \in 0 .. RxCount - 1 /\ (k - 1) + 1 = k
        /\ \A m \in 0 .. k - 1 : m \in 0 .. RxCount - 1 /\ m + 1 \in 1 .. c
    BY <1>0
  <2>2. Rx!D(s, k - 1) = g[k]
    BY <1>2, <2>1
  <2>3. \A m \in 0 .. k - 1 : ~Rx!D(s, m).own
    BY <1>2, <1>3, <2>1
  <2> QED BY <1>5, <1>6, <2>1, <2>2, <2>3
<1>7. ASSUME NEW k \in Rx!Ends(s)
      PROVE  k + 1 \in 1 .. c /\ g[k + 1].enp
  <2>1. k \in 0 .. RxCount - 1 /\ Rx!D(s, k).enp /\ \A m \in 0 .. k : ~Rx!D(s, m).own
    BY <1>5
  <2>2. k \in 0 .. k /\ g[k + 1].enp /\ ~g[k + 1].own
    BY <1>2, <2>1
  <2>3. k + 1 \notin c + 1 .. RxCount
    BY <1>4, <2>2
  <2> QED BY <1>0, <2>1, <2>2, <2>3
<1> QED BY <1>1, <1>5, <1>6, <1>7

LEMMA RxFind ==
  ASSUME RxAssumption, RxInv(rx), Rx!FindFrame
  PROVE  RxInv(rx')
<1>0. RxCount \in Nat \ {0} /\ RxCount >= 2
  BY RxConst
<1>1. RxTyped(rx)
  BY DEF RxInv
<1>2. PICK c \in 0 .. RxCount : RxAt(rx, c)
  BY DEF RxInv
<1>3. c \in Nat
  BY <1>0
<1>4. PICK g : g = RxView(rx)
  OBVIOUS
<1>5. RxCopy(rx, g, c) /\ RxQuiet(rx, g, c) /\ RxChain(rx.frames, g, c, rx.cur.f, rx.cur.left)
  BY <1>2, <1>4 DEF RxAt
<1>6. rx.in = "loop" /\ ~rx.unheard /\ (c > 0 => g[1].b = 1)
  BY <1>5 DEF Rx!FindFrame, RxCopy, RxQuiet
<1>7. /\ \A k \in 1 .. c : g[k].enp => k - 1 \in Rx!Ends(rx)
      /\ \A k \in Rx!Ends(rx) : k + 1 \in 1 .. c /\ g[k + 1].enp
      /\ Rx!Ends(rx) \subseteq 0 .. RxCount - 1
  BY <1>1, <1>2, <1>4, RxEnds
<1>8. CASE Rx!Caught(rx) \/ Rx!Ends(rx) = {}
  <2>1. PICK in \in {"end", "caught"} :
          rx' = [rx EXCEPT !.in = in] /\ (in = "end" => ~Rx!Caught(rx) /\ Rx!Ends(rx) = {})
    BY <1>8 DEF Rx!FindFrame
  <2>2. /\ rx'.rint = rx.rint /\ rx'.unheard = rx.unheard /\ rx'.in = in /\ rx'.err = rx.err
        /\ rx'.ring = rx.ring /\ rx'.at = rx.at /\ rx'.rx_buffer_index = rx.rx_buffer_index
        /\ rx'.cur = rx.cur /\ rx'.frames = rx.frames /\ rx'.up = rx.up
        /\ rx'.j = rx.j /\ rx'.rb = rx.rb /\ rx'.rxbuff = rx.rxbuff /\ DOMAIN rx' = DOMAIN rx
    BY <1>1, <2>1 DEF RxTyped
  <2>3. RxTyped(rx')
    BY <1>1, <2>2 DEF RxTyped
  <2>4. in # "copy" /\ in # "no" /\ in # "loop"
    OBVIOUS
  <2>5. RxCopy(rx', g, c)
    BY <1>6, <2>2, <2>4 DEF RxCopy
  <2>6. in = "end" => c < RxCount /\ \A k \in 1 .. c : ~g[k].enp
    <3> SUFFICES ASSUME in = "end" PROVE c < RxCount /\ \A k \in 1 .. c : ~g[k].enp
      OBVIOUS
    <3>1. ~Rx!Caught(rx) /\ \A k \in 1 .. c : ~g[k].enp
      BY <1>7, <2>1
    <3>2. ASSUME c = RxCount
          PROVE  FALSE
      <4>1. PICK k \in 0 .. RxCount - 1 : Rx!D(rx, k).own \/ (Rx!D(rx, k).enp /\ k # RxCount - 1)
        BY <3>1 DEF Rx!Caught
      <4>2. k + 1 \in 1 .. c /\ k \in 0 .. RxCount /\ k < RxCount
        BY <1>0, <3>2
      <4>3. Rx!D(rx, k) = g[k + 1]
        BY <1>1, <1>4, <4>2, RxViewAt
      <4>4. g[k + 1].own = FALSE /\ ~g[k + 1].enp
        BY <1>5, <3>1, <4>2 DEF RxChain, RxBuffers, RxBuffer
      <4> QED BY <4>1, <4>3, <4>4
    <3> QED BY <1>0, <3>1, <3>2
  <2>7. RxQuiet(rx', g, c)
    BY <1>6, <2>2, <2>4, <2>6 DEF RxQuiet
  <2> QED BY <1>1, <1>2, <1>4, <2>2, <2>3, <2>5, <2>7, RxStill
<1>9. CASE ~Rx!Caught(rx) /\ Rx!Ends(rx) # {}
  <2>1. PICK x \in Rx!Ends(rx) : x = Rx!Min(Rx!Ends(rx)) /\ \A y \in Rx!Ends(rx) : x <= y
    <3>1. PICK n, S : n = RxCount - 1 /\ S = Rx!Ends(rx)
      OBVIOUS
    <3>2. n \in Nat /\ S \subseteq 0 .. n /\ S # {}
      BY <1>0, <1>7, <1>9, <3>1
    <3>3. \E y \in S : y = Rx!Min(S) /\ \A z \in S : y <= z
      BY <3>2, SmallestOf
    <3> QED BY <3>1, <3>3
  <2>2. PICK e : e = x + 1
    OBVIOUS
  <2>3. x \in 0 .. RxCount - 1 /\ e \in 1 .. c /\ g[e].enp
    BY <1>7, <2>1, <2>2
  <2>4. \A m \in 1 .. e : m < e => ~g[m].enp
    <3> SUFFICES ASSUME NEW m \in 1 .. e, m < e, g[m].enp PROVE FALSE
      OBVIOUS
    <3>1. m \in 1 .. c /\ m - 1 < x
      BY <1>3, <2>2, <2>3
    <3>2. x <= m - 1
      BY <1>7, <2>1, <3>1
    <3> QED BY <2>3, <3>1, <3>2
  <2>5. rx' = [rx EXCEPT !.in = "copy", !.rb = TRUE, !.rxbuff = <<>>,
                         !.j = (rx.rx_buffer_index + x + 1) % RxCount]
    BY <1>9, <2>1 DEF Rx!FindFrame
  <2>6. /\ rx'.rint = rx.rint /\ rx'.unheard = rx.unheard /\ rx'.in = "copy" /\ rx'.err = rx.err
        /\ rx'.ring = rx.ring /\ rx'.at = rx.at /\ rx'.rx_buffer_index = rx.rx_buffer_index
        /\ rx'.cur = rx.cur /\ rx'.frames = rx.frames /\ rx'.up = rx.up
        /\ rx'.j = (rx.rx_buffer_index + x + 1) % RxCount
        /\ rx'.rb = TRUE /\ rx'.rxbuff = <<>> /\ DOMAIN rx' = DOMAIN rx
    BY <1>1, <2>5 DEF RxTyped
  <2>7. rx'.j = RingSlot(rx.rx_buffer_index, e + 1, RxCount) /\ rx'.j \in 0 .. RxCount - 1
    <3>1. e \in 0 .. RxCount
      BY <1>0, <1>3, <2>3
    <3>2. PICK i \in 0 .. RxCount - 1 : i = rx.rx_buffer_index
      BY <1>1 DEF RxTyped
    <3>3. i + x + 1 = i + e
      BY <1>0, <2>2, <2>3
    <3>4. /\ RingSlot(i, e + 1, RxCount) \in 0 .. RxCount - 1
          /\ (i + e) % RxCount = RingSlot(i, e + 1, RxCount)
      BY <1>1, <3>1, <3>2, RxViewAt
    <3> QED BY <2>6, <3>2, <3>3, <3>4
  <2>8. RxTyped(rx')
    <3>0. rx'.rxbuff = <<>> /\ rx'.rb = TRUE
      BY <2>6, Zenon
    <3>1. rx'.rxbuff \in Seq(Nat) /\ rx'.rb \in BOOLEAN
      BY <3>0, EmptySeq
    <3> QED BY <1>1, <2>6, <2>7, <3>1 DEF RxTyped
  <2>9. RxCopy(rx', g, c)
    <3>0. DOMAIN <<>> = {} /\ Len(<<>>) = 0
      OBVIOUS
    <3>1. (\A k \in DOMAIN rx'.rxbuff : rx'.rxbuff[k] = g[1].f) /\ Len(rx'.rxbuff) = 0
      <4>1. rx'.rxbuff = <<>>
        BY <2>6, Zenon
      <4>2. DOMAIN rx'.rxbuff = {} /\ Len(rx'.rxbuff) = 0
        BY <3>0, <4>1, Zenon
      <4> QED BY <4>2
    <3>2. g[1].b = 0 + 1
      BY <1>3, <1>6, <2>3
    <3> QED BY <2>3, <2>4, <2>6, <2>7, <3>1, <3>2 DEF RxCopy
  <2>10. RxQuiet(rx', g, c)
    BY <1>6, <2>6 DEF RxQuiet
  <2> QED BY <1>1, <1>2, <1>4, <2>6, <2>8, <2>9, <2>10, RxStill
<1> QED BY <1>8, <1>9

LEMMA RxCopyBuffer ==
  ASSUME RxAssumption, RxInv(rx), Rx!CopyBuffer
  PROVE  RxInv(rx')
<1>0. RxCount \in Nat \ {0} /\ RxCount >= 2 /\ 1 \in 1 .. RxCount
  BY RxConst
<1>1. RxTyped(rx)
  BY DEF RxInv
<1>2. PICK c \in 0 .. RxCount : RxAt(rx, c)
  BY DEF RxInv
<1>3. PICK fr, f, left, g, i : /\ fr = rx.frames /\ f = rx.cur.f /\ left = rx.cur.left
                               /\ g = RxView(rx) /\ i = rx.rx_buffer_index
  OBVIOUS
<1>4. /\ RxRing(rx, c) /\ RxChain(fr, g, c, f, left)
      /\ RxCopy(rx, g, c) /\ RxUp(rx, g, c) /\ RxQuiet(rx, g, c)
  BY <1>2, <1>3 DEF RxAt
<1>5. rx.in = "copy" /\ ~rx.unheard
  BY <1>4 DEF Rx!CopyBuffer, RxQuiet
<1>6. PICK e \in 1 .. c : /\ g[e].enp /\ \A m \in 1 .. e : m < e => ~g[m].enp
                          /\ rx.j = RingSlot(i, e + 1, RxCount)
  BY <1>3, <1>4, <1>5 DEF RxCopy
<1>7. rx.rb => /\ \A k \in DOMAIN rx.rxbuff : rx.rxbuff[k] = g[1].f
               /\ g[1].b = Len(rx.rxbuff) + 1
  BY <1>4, <1>5 DEF RxCopy
<1>8. /\ c \in Nat \ {0} /\ c \in 1 .. RxCount /\ 1 \in 1 .. c /\ 1 \in 1 .. e /\ e \in Nat
      /\ left \in Nat /\ Len(fr) \in Nat /\ i \in 0 .. RxCount - 1 /\ e \in 1 .. RxCount
  <2>1. left \in Nat /\ fr \in Seq(RxFrame) /\ i \in 0 .. RxCount - 1
    BY <1>1, <1>3 DEF RxTyped
  <2>2. Len(fr) \in Nat
    BY <2>1
  <2> QED BY <1>0, <1>6, <2>1, <2>2
<1>9. g[1] = rx.ring[i]
  <2>1. RingSlot(i, 1, RxCount) = i
    BY <1>0, <1>8, RingWalk
  <2> QED BY <1>0, <1>3, <2>1 DEF RxView
<1>10. RxBuffer(fr, g[1])
  BY <1>4, <1>8 DEF RxChain, RxBuffers
<1>11. PICK d, p, fs : /\ d = g[1] /\ p = Append(rx.rxbuff, d.f)
                       /\ fs = IF rx.rxbuff = <<>> /\ ~d.err THEN rx.frames[d.f].sap ELSE rx.front
  OBVIOUS
<1>12. PICK s : s = Rx!Copied(rx)
  OBVIOUS
<1>13. s = [rx EXCEPT !.ring[i] = Rx!Owned, !.rx_buffer_index = Rx!Up1(@),
                      !.rb = @ /\ ~d.err, !.rxbuff = p, !.front = fs]
  BY <1>1, <1>3, <1>9, <1>11, <1>12 DEF Rx!Copied, RxTyped
<1>14. /\ s.ring = [rx.ring EXCEPT ![i] = Rx!Owned] /\ s.rx_buffer_index = (i + 1) % RxCount
       /\ s.rb = (rx.rb /\ ~d.err) /\ s.rxbuff = p
       /\ s.at = rx.at /\ s.cur = rx.cur /\ s.rint = rx.rint /\ s.in = rx.in /\ s.err = rx.err
       /\ s.j = rx.j /\ s.up = rx.up /\ s.frames = rx.frames /\ s.unheard = rx.unheard
       /\ DOMAIN s = DOMAIN rx
  BY <1>1, <1>3, <1>13 DEF Rx!Up1, RxTyped
<1>15. (i + 1) % RxCount = RingSlot(i, 2, RxCount) /\ (i + 1) % RxCount \in 0 .. RxCount - 1
  <2>1. (RingSlot(i, 1, RxCount) + 1) % RxCount = RingSlot(i, 1 + 1, RxCount) /\ RingSlot(i, 1, RxCount) = i
    BY <1>0, <1>8, RingStep, RingWalk
  <2>2. (i + 1) % RxCount \in 0 .. RxCount - 1
    BY <1>0, <1>8, RingStep
  <2> QED BY <2>1, <2>2
<1>16. p \in Seq(Nat) /\ Len(p) = Len(rx.rxbuff) + 1 /\ Len(rx.rxbuff) \in Nat
       /\ p[Len(rx.rxbuff) + 1] = d.f /\ \A k \in 1 .. Len(rx.rxbuff) : p[k] = rx.rxbuff[k]
  <2>1. rx.rxbuff \in Seq(Nat) /\ d.f \in Nat
    BY <1>1, <1>10, <1>11 DEF RxTyped, RxBuffer
  <2> QED BY <1>11, <2>1, Appended
<1>17. s.rb => /\ \A k \in 1 .. Len(p) : p[k] = d.f
               /\ Len(p) = d.b
               /\ ~d.err
  <2> SUFFICES ASSUME s.rb
               PROVE  (\A k \in 1 .. Len(p) : p[k] = d.f) /\ Len(p) = d.b /\ ~d.err
    OBVIOUS
  <2>1. rx.rb /\ ~d.err
    BY <1>14
  <2>2. DOMAIN rx.rxbuff = 1 .. Len(rx.rxbuff)
    BY <1>1 DEF RxTyped
  <2>3. \A k \in 1 .. Len(p) : k \in 1 .. Len(rx.rxbuff) \/ k = Len(rx.rxbuff) + 1
    BY <1>16
  <2>4. \A k \in 1 .. Len(p) : p[k] = d.f
    BY <1>7, <1>11, <1>16, <2>1, <2>2, <2>3
  <2>5. Len(p) = d.b
    BY <1>7, <1>11, <1>16, <2>1
  <2> QED BY <2>1, <2>4, <2>5
<1>18. s.rx_buffer_index # s.j <=> e # 1
  <2>1. /\ \A m, k \in 1 .. RxCount : RingSlot(i, m, RxCount) = RingSlot(i, k, RxCount) => m = k
        /\ RingSlot(i, 1, RxCount) = RingSlot(i, RxCount + 1, RxCount)
    BY <1>0, <1>8, RingWalk
  <2>2. 2 \in 1 .. RxCount
    BY <1>0
  <2>3. CASE e = 1
    BY <1>6, <1>14, <1>15, <2>3
  <2>4. CASE e # 1
    <3>1. CASE e = RxCount
      BY <1>0, <1>6, <1>14, <1>15, <2>1, <2>2, <2>4, <3>1
    <3>2. CASE e # RxCount
      <4>1. e + 1 \in 1 .. RxCount /\ e + 1 # 2
        BY <1>0, <1>8, <2>4, <3>2
      <4> QED BY <1>6, <1>14, <1>15, <2>1, <2>2, <2>4, <4>1
    <3> QED BY <3>1, <3>2
  <2> QED BY <2>3, <2>4
<1>19. PICK take \in SUBSET RxStreams :
         rx' = IF s.rx_buffer_index # s.j THEN s
               ELSE IF s.rb THEN Rx!TossUp([s EXCEPT !.in = "loop"], take) ELSE [s EXCEPT !.in = "loop"]
  BY <1>12 DEF Rx!CopyBuffer
\* The fields of the state after the step.
<1>20. /\ rx'.ring = [rx.ring EXCEPT ![i] = Rx!Owned] /\ rx'.rx_buffer_index = (i + 1) % RxCount
       /\ rx'.rb = (rx.rb /\ ~d.err) /\ rx'.rxbuff = p
       /\ rx'.at = rx.at /\ rx'.cur = rx.cur /\ rx'.rint = rx.rint /\ rx'.err = rx.err
       /\ rx'.j = rx.j /\ rx'.frames = rx.frames /\ rx'.unheard = rx.unheard
       /\ DOMAIN rx' = DOMAIN rx /\ DOMAIN rx'.up = RxStreams
       /\ \/ e # 1 /\ rx'.in = "copy" /\ rx'.up = rx.up
          \/ /\ e = 1 /\ rx'.in = "loop"
             /\ \A y \in RxStreams : rx'.up[y] = rx.up[y] \/ (s.rb /\ rx'.up[y] = Append(rx.up[y], p))
  <2>0. DOMAIN rx.up = RxStreams
    BY <1>1 DEF RxTyped
  <2>1. CASE e # 1
    BY <1>5, <1>14, <1>18, <1>19, <2>0, <2>1
  <2>2. CASE e = 1
    <3>1. PICK t : t = [s EXCEPT !.in = "loop"]
      OBVIOUS
    <3>2. /\ t.ring = s.ring /\ t.rx_buffer_index = s.rx_buffer_index /\ t.rb = s.rb
          /\ t.rxbuff = s.rxbuff /\ t.at = s.at /\ t.cur = s.cur /\ t.rint = s.rint
          /\ t.err = s.err /\ t.j = s.j /\ t.up = s.up /\ t.frames = s.frames
          /\ t.unheard = s.unheard /\ t.in = "loop" /\ DOMAIN t = DOMAIN s
      BY <1>1, <1>14, <3>1 DEF RxTyped
    <3>3. CASE ~s.rb
      <4>1. rx' = t
        BY <1>18, <1>19, <2>2, <3>1, <3>3
      <4> QED BY <1>14, <2>0, <2>2, <3>2, <4>1
    <3>4. CASE s.rb
      <4>1. rx' = Rx!TossUp(t, take)
        BY <1>18, <1>19, <2>2, <3>1, <3>4
      <4>2. PICK up : up = [x \in RxStreams |->
                 IF x \in take /\ (x \in RxRaw \/ x = t.frames[t.rxbuff[1]].sap)
                 THEN Append(t.up[x], t.rxbuff) ELSE t.up[x]]
        OBVIOUS
      <4>3. rx' = [t EXCEPT !.up = up]
        BY <1>1, <1>14, <3>2, <4>1, <4>2 DEF Rx!TossUp, RxTyped
      <4>4. /\ rx'.ring = t.ring /\ rx'.rx_buffer_index = t.rx_buffer_index /\ rx'.rb = t.rb
            /\ rx'.rxbuff = t.rxbuff /\ rx'.at = t.at /\ rx'.cur = t.cur /\ rx'.rint = t.rint
            /\ rx'.err = t.err /\ rx'.j = t.j /\ rx'.up = up /\ rx'.frames = t.frames
            /\ rx'.unheard = t.unheard /\ rx'.in = t.in /\ DOMAIN rx' = DOMAIN t
        BY <1>1, <1>14, <3>2, <4>3 DEF RxTyped
      <4>5. DOMAIN up = RxStreams /\ \A y \in RxStreams : up[y] = rx.up[y] \/ up[y] = Append(rx.up[y], p)
        BY <1>14, <3>2, <4>2
      <4> QED BY <1>14, <2>2, <3>2, <3>4, <4>4, <4>5
    <3> QED BY <3>3, <3>4
  <2> QED BY <2>1, <2>2
<1>21. RxTyped(rx')
  <2>1. rx'.rb \in BOOLEAN
    BY <1>20
  <2>2. DOMAIN rx'.ring = 0 .. RxCount - 1
    BY <1>1, <1>20 DEF RxTyped
  <2>3. rx'.in \in {"no", "loop", "copy", "end", "caught"}
    BY <1>20
  <2> QED BY <1>1, <1>15, <1>16, <1>20, <2>1, <2>2, <2>3 DEF RxTyped
<1>22. PICK h, b : h = RxView(rx') /\ b = c - 1
  OBVIOUS
<1>23. /\ \A k \in 1 .. c - 1 : h[k] = g[k + 1]
       /\ RxRing(rx', b)
       /\ \A k \in 1 .. RxCount : RingSlot(rx'.rx_buffer_index, k, RxCount) = RingSlot(i, k + 1, RxCount)
  <2>1. /\ rx'.ring = [rx.ring EXCEPT ![rx.rx_buffer_index] = Rx!Owned]
        /\ rx'.rx_buffer_index = (rx.rx_buffer_index + 1) % RxCount /\ rx'.at = rx.at
    BY <1>3, <1>20
  <2>2. c \in 1 .. RxCount
    BY <1>8
  <2>3. /\ \A k \in 1 .. c - 1 : RxView(rx')[k] = RxView(rx)[k + 1]
        /\ RxRing(rx', c - 1)
        /\ \A k \in 1 .. RxCount : RingSlot(rx'.rx_buffer_index, k, RxCount)
                                     = RingSlot(rx.rx_buffer_index, k + 1, RxCount)
    BY ONLY RxAssumption, <1>1, <1>2, <1>21, <2>1, <2>2, RxRingGet
  <2> QED BY <1>3, <1>22, <2>3
<1>24. e = 1 => Ended(g[1])
  BY <1>6 DEF Ended
<1>25. b \in 0 .. RxCount /\ b \in Nat /\ (b = 0 => e = 1) /\ (e # 1 => 1 \in 1 .. b /\ 1 < c)
  BY <1>0, <1>6, <1>8, <1>22
<1>26. RxChain(fr, h, b, f, left)
  <2>1. b = 0 => Ended(g[1])
    BY <1>24, <1>25
  <2>2. RxCount \in Nat /\ b = c - 1 /\ (\A k \in 1 .. b : h[k] = g[k + 1]) /\ RxChain(fr, g, c, f, left)
    BY <1>0, <1>4, <1>22, <1>23
  <2>3. c \in Nat \ {0} /\ left \in Nat
    BY <1>8
  <2> QED BY ONLY <2>1, <2>2, <2>3, RxGet
<1>27. RxFollows(g, c)
  BY <1>4 DEF RxChain
<1>28. CASE e # 1
  <2>1. h[1] = g[2] /\ ~g[1].enp
    BY <1>6, <1>8, <1>22, <1>23, <1>25, <1>28
  <2>2. RxCopy(rx', h, b)
    <3>1. PICK m : m = e - 1
      OBVIOUS
    <3>2. m \in 1 .. b /\ m \in 1 .. c - 1 /\ m + 1 = e /\ \A k \in 1 .. m : k \in 1 .. c - 1 /\ k + 1 \in 1 .. e
      BY <1>6, <1>8, <1>22, <1>28, <3>1
    <3>3. h[m].enp
      BY <1>6, <1>23, <3>2
    <3>4. \A k \in 1 .. m : k < m => ~h[k].enp
      <4> SUFFICES ASSUME NEW k \in 1 .. m, k < m PROVE ~h[k].enp
        OBVIOUS
      <4>1. h[k] = g[k + 1] /\ k + 1 \in 1 .. e
        BY <1>23, <3>2
      <4>2. k + 1 < e
        BY <1>8, <3>1
      <4> QED BY <1>6, <4>1, <4>2
    <3>5. rx'.j = RingSlot(rx'.rx_buffer_index, m + 1, RxCount)
      BY <1>6, <1>8, <1>20, <1>23, <3>2
    <3>6. rx'.rb => (\A k \in DOMAIN rx'.rxbuff : rx'.rxbuff[k] = h[1].f) /\ h[1].b = Len(rx'.rxbuff) + 1
      <4> SUFFICES ASSUME rx'.rb
                   PROVE  (\A k \in DOMAIN rx'.rxbuff : rx'.rxbuff[k] = h[1].f) /\ h[1].b = Len(rx'.rxbuff) + 1
        OBVIOUS
      <4>1. s.rb /\ DOMAIN p = 1 .. Len(p)
        BY <1>14, <1>16, <1>20
      <4>2. ~Ended(g[1])
        BY <1>11, <1>17, <2>1, <4>1 DEF Ended
      <4>3. g[1 + 1].f = g[1].f /\ g[1 + 1].b = g[1].b + 1
        BY <1>8, <1>25, <1>27, <1>28, <4>2 DEF RxFollows
      <4>4. h[1].f = d.f /\ h[1].b = d.b + 1
        BY <1>11, <2>1, <4>3
      <4> QED BY <1>17, <1>20, <4>1, <4>4
    <3> QED BY <1>20, <1>28, <3>2, <3>3, <3>4, <3>5, <3>6 DEF RxCopy
  <2>3. RxQuiet(rx', h, b)
    BY <1>5, <1>20, <1>28 DEF RxQuiet
  <2>4. RxUp(rx', h, b)
    <3> SUFFICES ASSUME NEW y \in RxStreams PROVE RxGot(fr, rx.up[y], h, b, f, left)
      BY <1>3, <1>20, <1>28 DEF RxUp
    <3>1. PICK u : u = rx.up[y]
      OBVIOUS
    <3>2. RxGot(fr, u, g, c, f, left)
      BY <1>3, <1>4, <3>1 DEF RxUp
    <3>3. RxGot(fr, u, h, c - 1, f, left)
      BY ONLY <1>8, <1>23, <3>2, RxGotGet
    <3> QED BY <1>22, <3>1, <3>3
  <2>5. RxAt(rx', b)
    BY <1>3, <1>20, <1>22, <1>23, <1>26, <2>2, <2>3, <2>4 DEF RxAt
  <2> QED BY <1>21, <1>25, <2>5 DEF RxInv
<1>29. CASE e = 1
  <2>1. Ended(g[1]) /\ g[1].enp
    BY <1>6, <1>24, <1>29
  <2>2. RxCopy(rx', h, b)
    <3>1. b > 0 => h[1].b = 1
      <4> SUFFICES ASSUME b > 0 PROVE h[1].b = 1
        OBVIOUS
      <4>1. 1 \in 1 .. c - 1 /\ 1 < c
        BY <1>8, <1>22
      <4>2. h[1] = g[1 + 1]
        BY <1>23, <4>1
      <4> QED BY <1>8, <1>27, <2>1, <4>1, <4>2 DEF RxFollows
    <3> QED BY <1>20, <1>29, <3>1 DEF RxCopy
  <2>3. RxQuiet(rx', h, b)
    BY <1>5, <1>20, <1>29 DEF RxQuiet
  <2>4. RxUp(rx', h, b)
    <3> SUFFICES ASSUME NEW y \in RxStreams PROVE RxGot(fr, rx'.up[y], h, b, f, left)
      BY <1>3, <1>20 DEF RxUp
    <3>1. PICK u : u = rx.up[y]
      OBVIOUS
    <3>2. RxGot(fr, u, g, c, f, left)
      BY <1>3, <1>4, <3>1 DEF RxUp
    <3>3. CASE rx'.up[y] = u
      <4>1. RxGot(fr, u, h, c - 1, f, left)
        BY ONLY <1>8, <1>23, <3>2, RxGotGet
      <4> QED BY <1>22, <3>3, <4>1
    <3>4. CASE s.rb /\ rx'.up[y] = Append(u, p)
      <4>1. RxPacket(fr, p) /\ p[1] = g[1].f
        <5>1. d.f \in 1 .. Len(fr) /\ d.b \in 1 .. fr[d.f].size /\ d.b = fr[d.f].size /\ ~fr[d.f].bad
          BY <1>10, <1>11, <1>17, <2>1, <3>4 DEF RxBuffer
        <5>2. Len(p) > 0 /\ 1 \in 1 .. Len(p)
          BY <1>16
        <5>3. p[1] = d.f
          BY <1>17, <3>4, <5>2
        <5> QED BY <1>11, <1>16, <1>17, <3>4, <5>1, <5>2, <5>3 DEF RxPacket
      <4>2. PICK v : v = Append(u, p)
        OBVIOUS
      <4>3. /\ c \in Nat \ {0} /\ RxChain(fr, g, c, f, left) /\ left \in Nat /\ Len(fr) \in Nat
            /\ \A k \in 1 .. c - 1 : h[k] = g[k + 1]
        BY <1>4, <1>8, <1>23
      <4>4. Ended(g[1])
        BY <2>1
      <4>5. RxGot(fr, v, h, c - 1, f, left)
        BY ONLY <3>2, <4>1, <4>2, <4>3, <4>4, RxGotUp
      <4> QED BY <1>22, <3>4, <4>2, <4>5
    <3> QED BY <1>20, <1>29, <3>1, <3>3, <3>4
  <2>5. RxAt(rx', b)
    BY <1>3, <1>20, <1>22, <1>23, <1>26, <2>2, <2>3, <2>4 DEF RxAt
  <2> QED BY <1>21, <1>25, <2>5 DEF RxInv
<1> QED BY <1>28, <1>29

LEMMA RxTossAgain ==
  ASSUME RxAssumption, RxInv(rx), Rx!TossAgain
  PROVE  RxInv(rx')
<1>1. RxTyped(rx)
  BY DEF RxInv
<1>2. PICK c \in 0 .. RxCount : RxAt(rx, c)
  BY DEF RxInv
<1>3. PICK got : rx' = [rx EXCEPT !.again = got]
  BY DEF Rx!TossAgain
<1>4. /\ rx'.rint = rx.rint /\ rx'.unheard = rx.unheard /\ rx'.in = rx.in /\ rx'.err = rx.err
      /\ rx'.ring = rx.ring /\ rx'.at = rx.at /\ rx'.rx_buffer_index = rx.rx_buffer_index
      /\ rx'.cur = rx.cur /\ rx'.frames = rx.frames /\ rx'.up = rx.up
      /\ rx'.j = rx.j /\ rx'.rb = rx.rb /\ rx'.rxbuff = rx.rxbuff /\ DOMAIN rx' = DOMAIN rx
  BY <1>1, <1>3 DEF RxTyped
<1>5. RxTyped(rx')
  BY <1>1, <1>4 DEF RxTyped
<1>6. RxCopy(rx', RxView(rx), c) /\ RxQuiet(rx', RxView(rx), c)
  BY <1>2, <1>4 DEF RxAt, RxCopy, RxQuiet
<1> QED BY <1>1, <1>2, <1>4, <1>5, <1>6, RxStill

LEMMA RxStep ==
  ASSUME RxAssumption, RxInv(rx), [Rx!Next]_rx
  PROVE  RxInv(rx')
<1>1. CASE Rx!Arrive
  BY <1>1, RxArrive
<1>2. CASE Rx!Store
  BY <1>2, RxStore
<1>3. CASE Rx!AenIntr
  BY <1>3, RxIntr
<1>4. CASE Rx!FindFrame
  BY <1>4, RxFind
<1>5. CASE Rx!CopyBuffer
  BY <1>5, RxCopyBuffer
<1>6. CASE Rx!AenIntrEnd
  BY <1>6, RxIntrEnd
<1>7. CASE Rx!TossAgain
  BY <1>7, RxTossAgain
<1>8. CASE UNCHANGED rx
  BY <1>8
<1> QED BY <1>1, <1>2, <1>3, <1>4, <1>5, <1>6, <1>7, <1>8 DEF Rx!Next

LEMMA RxCaughtSame ==
  ASSUME NEW s, NEW t, t.ring = s.ring, t.rx_buffer_index = s.rx_buffer_index, Rx!Caught(s)
  PROVE  Rx!Caught(t)
BY DEF Rx!Caught, Rx!D

\* In a ring that is all the driver's the LANCE has no frame to store.
LEMMA RxCaughtIdle ==
  ASSUME RxAssumption, RxInv(rx), Rx!Caught(rx)
  PROVE  ~(rx.cur.left > 0)
<1>0. RxCount \in Nat \ {0}
  BY RxConst
<1>1. RxTyped(rx)
  BY DEF RxInv
<1>2. PICK c \in 0 .. RxCount : RxAt(rx, c)
  BY DEF RxInv
<1> SUFFICES ASSUME rx.cur.left > 0 PROVE FALSE
  OBVIOUS
<1>3. c < RxCount
  BY <1>2 DEF RxAt, RxChain, RxOpen
<1>4. RxCount \in c + 1 .. RxCount /\ RxCount - 1 \in 0 .. RxCount /\ RxCount - 1 < RxCount
      /\ RxCount - 1 \in 0 .. RxCount - 1 /\ (RxCount - 1) + 1 = RxCount
  BY <1>0, <1>2, <1>3
<1>5. RxView(rx)[RxCount] = Rx!Owned
  BY <1>2, <1>4 DEF RxAt, RxRing
<1>6. Rx!D(rx, RxCount - 1) = RxView(rx)[RxCount]
  <2>1. PICK k \in 0 .. RxCount : k = RxCount - 1
    BY <1>4
  <2>2. Rx!D(rx, k) = RxView(rx)[k + 1]
    BY <1>1, <1>4, <2>1, RxViewAt
  <2> QED BY <1>4, <2>1, <2>2
<1>7. ~Rx!D(rx, RxCount - 1).own
  BY <1>4 DEF Rx!Caught
<1> QED BY <1>5, <1>6, <1>7 DEF Rx!Owned

LEMMA RxSpinStep ==
  ASSUME RxAssumption, RxInv(rx), RxSpin(rx), [Rx!Next]_rx
  PROVE  RxSpin(rx')
<1>1. DOMAIN rx = {"ring", "at", "cur", "rint", "rx_buffer_index", "in", "err", "j", "rb",
                   "rxbuff", "front", "up", "again", "frames", "unheard"}
  BY DEF RxInv, RxTyped
<1>2. CASE Rx!Arrive \/ Rx!TossAgain
  <2>1. rx'.ring = rx.ring /\ rx'.rx_buffer_index = rx.rx_buffer_index /\ rx'.in = rx.in
    BY <1>1, <1>2 DEF Rx!Arrive, Rx!TossAgain
  <2>2. rx'.again = rx.again \/ (rx.in = "caught" /\ rx'.again \subseteq rx.again \cup RxStreams)
    <3>1. CASE Rx!Arrive
      BY <1>1, <3>1 DEF Rx!Arrive
    <3>2. CASE Rx!TossAgain
      BY <1>1, <3>2 DEF Rx!TossAgain
    <3> QED BY <1>2, <3>1, <3>2
  <2>3. Rx!Caught(rx) => Rx!Caught(rx')
    BY <2>1, RxCaughtSame
  <2> QED BY <2>1, <2>2, <2>3 DEF RxSpin
<1>3. CASE Rx!Store
  <2>1. rx.in # "caught"
    BY <1>3, RxCaughtIdle DEF Rx!Store, RxSpin
  <2>2. rx'.in = rx.in /\ rx'.again = rx.again
    BY <1>1, <1>3 DEF Rx!Store
  <2> QED BY <2>1, <2>2 DEF RxSpin
<1>4. CASE Rx!FindFrame
  <2>1. rx.in # "caught" /\ rx'.again = rx.again
        /\ rx'.ring = rx.ring /\ rx'.rx_buffer_index = rx.rx_buffer_index
        /\ (rx'.in = "caught" => Rx!Caught(rx))
    BY <1>1, <1>4 DEF Rx!FindFrame
  <2>2. Rx!Caught(rx) => Rx!Caught(rx')
    BY <2>1, RxCaughtSame
  <2> QED BY <2>1, <2>2 DEF RxSpin
<1>5. CASE Rx!AenIntr \/ Rx!AenIntrEnd
  <2>1. rx.in # "caught" /\ rx'.in # "caught" /\ rx'.again = rx.again
    <3>1. CASE Rx!AenIntr
      <4>1. rx.in = "no"
        BY <3>1 DEF Rx!AenIntr
      <4>2. PICK err \in BOOLEAN :
              rx' = [rx EXCEPT !.rint = FALSE, !.unheard = FALSE, !.in = "loop", !.err = err]
        BY <3>1 DEF Rx!AenIntr
      <4> QED BY <1>1, <4>1, <4>2
    <3>2. CASE Rx!AenIntrEnd
      BY <1>1, <3>2 DEF Rx!AenIntrEnd
    <3> QED BY <1>5, <3>1, <3>2
  <2> QED BY <2>1 DEF RxSpin
<1>6. CASE Rx!CopyBuffer
  <2>1. PICK s : s = Rx!Copied(rx)
    OBVIOUS
  <2>2. s.in = rx.in /\ s.again = rx.again /\ DOMAIN s = DOMAIN rx
    BY <1>1, <2>1 DEF Rx!Copied
  <2>3. PICK t : t = [s EXCEPT !.in = "loop"]
    OBVIOUS
  <2>4. t.in = "loop" /\ t.again = rx.again /\ DOMAIN t = DOMAIN rx
    BY <1>1, <2>2, <2>3
  <2>5. PICK take \in SUBSET RxStreams : rx' \in {s, t, Rx!TossUp(t, take)}
    BY <1>6, <2>1, <2>3 DEF Rx!CopyBuffer
  <2>6. Rx!TossUp(t, take).in = t.in /\ Rx!TossUp(t, take).again = t.again
    BY <1>1, <2>4 DEF Rx!TossUp
  <2>7. rx.in = "copy"
    BY <1>6 DEF Rx!CopyBuffer
  <2>8. rx'.in \in {"copy", "loop"} /\ rx'.again = rx.again
    BY <2>2, <2>4, <2>5, <2>6, <2>7
  <2> QED BY <2>7, <2>8 DEF RxSpin
<1>7. CASE UNCHANGED rx
  BY <1>7
<1> QED BY <1>2, <1>3, <1>4, <1>5, <1>6, <1>7 DEF Rx!Next

LEMMA RxKeptStep ==
  ASSUME RxAssumption, RxKept(rx), [Rx!Next]_rx
  PROVE  RxKept(rx')
BY RxStep, RxSpinStep DEF RxKept

\* What the invariant says of the types, of what the streams get, and of the ring when
\* nobody looks at it.
LEMMA RxGood ==
  ASSUME RxAssumption, RxKept(rx)
  PROVE  Rx!TypeOK /\ Rx!WholeFrames /\ Rx!NoFrameStranded
<1>0. RxCount \in Nat \ {0} /\ RxFrames \in Nat
  BY RxConst
<1>1. RxTyped(rx) /\ RxSpin(rx)
  BY DEF RxInv, RxKept
<1>2. PICK c \in 0 .. RxCount : RxAt(rx, c)
  BY DEF RxInv, RxKept
<1>3. PICK g, i : g = RxView(rx) /\ i = rx.rx_buffer_index
  OBVIOUS
<1>4. /\ RxRing(rx, c) /\ RxChain(rx.frames, g, c, rx.cur.f, rx.cur.left)
      /\ RxUp(rx, g, c) /\ RxQuiet(rx, g, c)
  BY <1>2, <1>3 DEF RxAt
<1>5. i \in 0 .. RxCount - 1 /\ c \in Nat /\ Len(rx.frames) \in Nat /\ Len(rx.frames) <= RxFrames
  <2>1. rx.frames \in Seq(RxFrame) /\ Len(rx.frames) <= RxFrames
    BY <1>1 DEF RxTyped
  <2> QED BY <1>0, <1>1, <1>3, <2>1 DEF RxTyped
<1>6. \A n \in Rx!Slots : \E k \in 1 .. RxCount : RingSlot(i, k, RxCount) = n
  BY <1>0, <1>5, RingWalk DEF Rx!Slots
<1>7. \A k \in 1 .. RxCount : g[k] = rx.ring[RingSlot(i, k, RxCount)]
  BY <1>3 DEF RxView
<1>8. \A k \in 1 .. c : g[k].own = FALSE /\ g[k].f \in 1 .. Len(rx.frames)
  BY <1>4 DEF RxChain, RxBuffers, RxBuffer
<1>9. \A k \in c + 1 .. RxCount : g[k].own = TRUE /\ g[k].f = 0
  <2>1. \A k \in c + 1 .. RxCount : g[k] = Rx!Owned
    BY <1>3, <1>4 DEF RxRing
  <2> QED BY <2>1 DEF Rx!Owned
<1>10. \A k \in 1 .. RxCount : (k \in 1 .. c /\ k <= c) \/ (k \in c + 1 .. RxCount /\ ~(k <= c))
  BY <1>5
<1>11. Rx!TypeOK
  <2>1. \A n \in Rx!Slots : rx.ring[n].f \in 0 .. RxFrames
    <3> SUFFICES ASSUME NEW n \in Rx!Slots PROVE rx.ring[n].f \in 0 .. RxFrames
      OBVIOUS
    <3>1. PICK k \in 1 .. RxCount : RingSlot(i, k, RxCount) = n
      BY <1>6
    <3>2. rx.ring[n].f = g[k].f
      BY <1>7, <3>1
    <3>3. g[k].f \in 1 .. Len(rx.frames) \/ g[k].f = 0
      BY <1>8, <1>9, <1>10
    <3>4. g[k].f \in 0 .. RxFrames
      BY <1>0, <1>5, <3>3
    <3> QED BY <3>2, <3>4
  <2>2. rx.cur.left > 0 => rx.ring[rx.at].own
    <3>1. rx.cur.left > 0 => c < RxCount
      BY <1>4 DEF RxChain, RxOpen
    <3>2. c < RxCount => rx.ring[rx.at] = Rx!Owned
      BY <1>1, <1>2, RxWhose
    <3> QED BY <3>1, <3>2 DEF Rx!Owned
  <2> QED BY <1>1, <2>1, <2>2 DEF Rx!TypeOK, Rx!Slots, RxTyped, RxSpin
<1>12. Rx!WholeFrames
  <2> SUFFICES ASSUME NEW y \in RxStreams
               PROVE  /\ \A n \in 1 .. Len(rx.up[y]) :
                           LET p == rx.up[y][n]
                           IN  /\ \A k \in 1 .. Len(p) : p[k] = p[1]
                               /\ Len(p) = rx.frames[p[1]].size
                               /\ ~rx.frames[p[1]].bad
                      /\ \A n \in 1 .. Len(rx.up[y]) - 1 : rx.up[y][n][1] < rx.up[y][n + 1][1]
                      /\ y \in rx.again => rx.in = "caught" /\ Rx!Caught(rx)
    BY DEF Rx!WholeFrames
  <2>1. RxGot(rx.frames, rx.up[y], g, c, rx.cur.f, rx.cur.left)
    BY <1>4 DEF RxUp
  <2>2. Len(rx.up[y]) \in Nat
    BY <2>1 DEF RxGot
  <2>3. \A n \in 1 .. Len(rx.up[y]) - 1 : n \in 1 .. Len(rx.up[y]) /\ n + 1 \in 1 .. Len(rx.up[y]) /\ n < n + 1
    BY <2>2
  <2>4. y \in rx.again => rx.in = "caught" /\ Rx!Caught(rx)
    BY <1>1 DEF RxSpin
  <2> QED BY <2>1, <2>3, <2>4 DEF RxGot, RxPacket
<1>13. Rx!NoFrameStranded
  <2> SUFFICES ASSUME ~rx.rint, ~rx.unheard, rx.in = "no"
               PROVE  /\ Rx!Ends(rx) = {}
                      /\ \A n \in Rx!Slots :
                           rx.ring[n].own <=> (RxCount + n - rx.rx_buffer_index) % RxCount
                                                >= (RxCount + rx.at - rx.rx_buffer_index) % RxCount
    BY DEF Rx!NoFrameStranded
  <2>1. c < RxCount /\ \A k \in 1 .. c : ~g[k].enp
    BY <1>4 DEF RxQuiet
  <2>2. Rx!Ends(rx) = {}
    <3>1. \A k \in Rx!Ends(rx) : k + 1 \in 1 .. c /\ g[k + 1].enp
      BY <1>1, <1>2, <1>3, RxEnds
    <3> QED BY <2>1, <3>1
  <2>3. rx.at = RingSlot(i, c + 1, RxCount) /\ c + 1 \in 1 .. RxCount
    BY <1>0, <1>3, <1>4, <1>5, <2>1 DEF RxRing
  <2>4. (RxCount + rx.at - i) % RxCount = c
    <3>1. (RxCount + RingSlot(i, c + 1, RxCount) - i) % RxCount = (c + 1) - 1
      BY ONLY <1>0, <1>5, <2>3, RingBehind
    <3> QED BY <1>5, <2>3, <3>1
  <2>5. ASSUME NEW n \in Rx!Slots
        PROVE  rx.ring[n].own <=> (RxCount + n - i) % RxCount >= (RxCount + rx.at - i) % RxCount
    <3>1. PICK k \in 1 .. RxCount : RingSlot(i, k, RxCount) = n
      BY <1>6
    <3>2. (RxCount + n - i) % RxCount = k - 1
      <4>1. (RxCount + RingSlot(i, k, RxCount) - i) % RxCount = k - 1
        BY ONLY <1>0, <1>5, <3>1, RingBehind
      <4> QED BY <3>1, <4>1
    <3>3. rx.ring[n].own <=> ~(k <= c)
      BY <1>7, <1>8, <1>9, <1>10, <3>1
    <3>4. ~(k <= c) <=> k - 1 >= c
      BY <1>5
    <3> QED BY <2>4, <3>2, <3>3, <3>4
  <2> QED BY <1>3, <2>2, <2>5
<1> QED BY <1>11, <1>12, <1>13

-----------------------------------------------------------------------------
(* The ioctls of the Hydra.                                                *)

\* The calls and their argument; what is behind data is not looked at.
HydraTyped(h) ==
  /\ DOMAIN h = {"at", "call", "cq_private", "data", "sap", "started", "faults", "binds",
                 "calls", "ends", "ran", "trap", "outside"}
  /\ h.at \in [HydraStreams -> {"idle", "copyin", "copyout", "ack", "nak"}]
  /\ h.call \in [HydraStreams -> HydraCalls \cup {"none"}]
  /\ h.cq_private \in [HydraStreams -> BOOLEAN]
  /\ h.faults \in 0 .. HydraFaults
  /\ h.calls \in [HydraStreams -> Nat] /\ h.ends \in [HydraStreams -> Nat]
  /\ h.ran \in [HydraStreams -> Nat]
  /\ h.started \in BOOLEAN /\ h.trap \in SUBSET {"fifo", "stopped", "beyond"} /\ h.outside \in BOOLEAN

\* How far the ioctl of u has come.
Dialogue(h, u) ==
  /\ h.calls[u] = h.ends[u] + (IF h.at[u] = "idle" THEN 0 ELSE 1)
  /\ h.at[u] # "idle" => h.call[u] \in HydraCalls
  /\ h.at[u] = "copyin" =>
       /\ h.call[u].cmd = "test" /\ h.ran[u] = 0
       /\ h.cq_private[u] <=> h.call[u].way # "null"
  /\ h.at[u] = "nak" => h.ran[u] = 0
  /\ h.at[u] \in {"copyout", "ack"} =>
       /\ ~h.cq_private[u]
       /\ h.call[u].cmd = "test" /\ h.call[u].way # "null" => h.ran[u] = 1
  /\ h.ran[u] <= 1

HydraInv(h) ==
  /\ HydraTyped(h)
  /\ \A u \in HydraStreams : Dialogue(h, u)
  /\ h.trap \subseteq {"beyond"} /\ ~h.outside

\* A step of u's ioctl from g to h changes nothing of another stream's.
OnlyOf(g, h, u) ==
  \A v \in HydraStreams \ {u} :
    /\ h.at[v] = g.at[v] /\ h.call[v] = g.call[v] /\ h.cq_private[v] = g.cq_private[v]
    /\ h.calls[v] = g.calls[v] /\ h.ends[v] = g.ends[v] /\ h.ran[v] = g.ran[v]

\* Answer() changes the message of u alone.
LEMMA HydraAnswer ==
  ASSUME NEW h, HydraTyped(h), NEW u \in HydraStreams,
         NEW m, m \in {"idle", "copyin", "copyout", "ack", "nak"}
  PROVE  LET r == Hydra!Answer(h, u, m)
         IN  /\ HydraTyped(r) /\ r.at[u] = m /\ OnlyOf(h, r, u)
             /\ r.call = h.call /\ r.cq_private = h.cq_private
             /\ r.calls = h.calls /\ r.ends = h.ends /\ r.ran = h.ran
             /\ r.trap = h.trap /\ r.outside = h.outside
  BY DEF HydraTyped, Hydra!Answer, OnlyOf

\* An access to a register that can do no harm.
LEMMA HydraOutb ==
  ASSUME NEW h, HydraTyped(h), NEW reg, NEW val, reg \in 0 .. Hydra!LastReg, reg # Hydra!FIFO,
         reg \in {Hydra!TPSR, Hydra!TBCNT0} => h.started
  PROVE  LET r == Hydra!Outb(h, reg, val)
         IN  /\ HydraTyped(r)
             /\ r.at = h.at /\ r.call = h.call /\ r.cq_private = h.cq_private
             /\ r.calls = h.calls /\ r.ends = h.ends /\ r.ran = h.ran
             /\ r.trap = h.trap /\ r.outside = h.outside
             /\ reg = Hydra!CR /\ val = "STA" => r.started
<1> DEFINE k == IF reg = Hydra!CR THEN val = "STA" ELSE h.started
           x == {c \in {"fifo", "beyond"} :
                   (c = "fifo" /\ reg = Hydra!FIFO) \/ (c = "beyond" /\ reg > Hydra!LastReg)}
           y == {c \in {"stopped"} : reg \in {Hydra!TPSR, Hydra!TBCNT0} /\ ~h.started}
<1>1. k \in BOOLEAN
  BY DEF HydraTyped
<1>2. x = {} /\ y = {}
  BY DEF Hydra!LastReg
<1>3. Hydra!Outb(h, reg, val) =
        [[h EXCEPT !.trap = @ \cup x] EXCEPT !.trap = @ \cup y, !.started = k]
  BY DEF Hydra!Outb, Hydra!Inb, HydraTyped
<1>4. reg = Hydra!CR /\ val = "STA" => k
  BY DEF k
<1> HIDE DEF k, x, y
<1>5. PICK g : g = [h EXCEPT !.trap = @ \cup x]
  OBVIOUS
<1>6. g.trap = h.trap /\ g.started = h.started /\ DOMAIN g = DOMAIN h
      /\ g.at = h.at /\ g.call = h.call /\ g.cq_private = h.cq_private /\ g.faults = h.faults
      /\ g.calls = h.calls /\ g.ends = h.ends /\ g.ran = h.ran /\ g.outside = h.outside
  BY <1>2, <1>5 DEF HydraTyped
<1>7. HydraTyped(g)
  BY <1>6 DEF HydraTyped
<1>8. PICK r : r = [g EXCEPT !.trap = @ \cup y, !.started = k]
  OBVIOUS
<1>9. r.trap = g.trap /\ r.started = k /\ DOMAIN r = DOMAIN g
      /\ r.at = g.at /\ r.call = g.call /\ r.cq_private = g.cq_private /\ r.faults = g.faults
      /\ r.calls = g.calls /\ r.ends = g.ends /\ r.ran = g.ran /\ r.outside = g.outside
  BY <1>2, <1>7, <1>8 DEF HydraTyped
<1>10. HydraTyped(r)
  BY <1>1, <1>7, <1>9 DEF HydraTyped
<1>11. Hydra!Outb(h, reg, val) = r
  BY <1>3, <1>5, <1>8
<1> QED BY <1>4, <1>6, <1>9, <1>10, <1>11

\* Reading a register other than the FIFO can trap only behind the registers.
LEMMA HydraInb ==
  ASSUME NEW h, HydraTyped(h), NEW reg, reg # Hydra!FIFO
  PROVE  LET r == Hydra!Inb(h, reg)
         IN  /\ HydraTyped(r)
             /\ r.at = h.at /\ r.call = h.call /\ r.cq_private = h.cq_private
             /\ r.calls = h.calls /\ r.ends = h.ends /\ r.ran = h.ran
             /\ r.trap \subseteq h.trap \cup {"beyond"} /\ r.outside = h.outside
<1> DEFINE x == {c \in {"fifo", "beyond"} :
                   (c = "fifo" /\ reg = Hydra!FIFO) \/ (c = "beyond" /\ reg > Hydra!LastReg)}
<1>1. x \subseteq {"beyond"}
  OBVIOUS
<1>2. Hydra!Inb(h, reg) = [h EXCEPT !.trap = @ \cup x]
  BY DEF Hydra!Inb
<1> HIDE DEF x
<1> QED BY <1>1, <1>2 DEF HydraTyped

\* A test is run once more, and does no harm but to read behind the registers.
LEMMA HydraRunTest ==
  ASSUME HydraAssumption, NEW h, HydraTyped(h), NEW u \in HydraStreams,
         h.call[u] \in HydraCalls, h.call[u].cmd = "test"
  PROVE  LET r == Hydra!RunTest(h, u)
         IN  /\ HydraTyped(r) /\ OnlyOf(h, r, u) /\ r.ran[u] = h.ran[u] + 1
             /\ r.at = h.at /\ r.call = h.call /\ r.cq_private = h.cq_private
             /\ r.calls = h.calls /\ r.ends = h.ends
             /\ (h.trap \subseteq {"beyond"} => r.trap \subseteq {"beyond"}) /\ (~h.outside => ~r.outside)
<1> DEFINE t == h.call[u].test
           r == [h EXCEPT !.ran[u] = @ + 1]
           R == Hydra!RunTest(h, u)
<1> HIDE DEF R
<1>1. /\ HydraTyped(r) /\ OnlyOf(h, r, u) /\ r.ran[u] = h.ran[u] + 1
      /\ r.at = h.at /\ r.call = h.call /\ r.cq_private = h.cq_private
      /\ r.calls = h.calls /\ r.ends = h.ends /\ r.trap = h.trap /\ r.outside = h.outside
  BY DEF HydraTyped, OnlyOf
<1> HIDE DEF r
<1> DEFINE Fine(s) ==
      /\ HydraTyped(s) /\ s.ran = r.ran /\ s.at = r.at /\ s.call = r.call
      /\ s.cq_private = r.cq_private /\ s.calls = r.calls /\ s.ends = r.ends
      /\ (r.trap \subseteq {"beyond"} => s.trap \subseteq {"beyond"}) /\ (~r.outside => ~s.outside)
<1>2. Fine(r)
  BY <1>1
<1>3. \A s, x : Fine(s) => Fine([s EXCEPT !.data[u] = x])
  BY DEF HydraTyped
<1> SUFFICES Fine(R)
  BY <1>1 DEF OnlyOf, R
<1>4. CASE t.op = "read reg"
  <2>1. R = IF t.reg = Hydra!FIFO THEN [r EXCEPT !.data[u] = 0]
            ELSE [Hydra!Inb(r, t.reg) EXCEPT !.data[u] = "reg"]
    BY <1>4 DEF Hydra!RunTest, R, r
  <2>2. CASE t.reg = Hydra!FIFO
    BY <1>2, <1>3, <2>1, <2>2
  <2>3. CASE t.reg # Hydra!FIFO
    <3>1. Fine(Hydra!Inb(r, t.reg))
      BY <1>1, <2>3, HydraInb
    <3>2. Fine([Hydra!Inb(r, t.reg) EXCEPT !.data[u] = "reg"])
      BY <1>3, <3>1
    <3> QED BY <2>1, <2>3, <3>2
  <2> QED BY <2>2, <2>3
<1>5. CASE t.op = "write reg"
  <2>1. R = Hydra!WriteReg(r, t.reg, t.val) /\ t.reg \in Nat
    BY <1>5 DEF Hydra!RunTest, R, r, HydraAssumption
  <2> USE DEF Hydra!FIFO, Hydra!TPSR, Hydra!TBCNT0, Hydra!CR, Hydra!LastReg
  <2>2. CASE t.reg = Hydra!FIFO \/ t.reg > Hydra!LastReg
    BY <1>2, <2>1, <2>2 DEF Hydra!WriteReg
  <2>3. CASE t.reg \in {Hydra!TPSR, Hydra!TBCNT0}
    <3>1. R = Hydra!Outb(Hydra!Outb(r, Hydra!CR, "STA"), t.reg, t.val)
      BY <2>1, <2>3 DEF Hydra!WriteReg
    <3> DEFINE b == Hydra!Outb(r, Hydra!CR, "STA")
    <3>2. Fine(b) /\ b.started
      BY <1>1, HydraOutb
    <3> HIDE DEF b
    <3>3. Fine(Hydra!Outb(b, t.reg, t.val))
      BY <2>3, <3>2, HydraOutb
    <3> QED BY <3>1, <3>3 DEF b
  <2>4. CASE t.reg \in 0 .. Hydra!LastReg /\ t.reg \notin {Hydra!FIFO, Hydra!TPSR, Hydra!TBCNT0}
    <3>1. R = Hydra!Outb(r, t.reg, t.val)
      BY <2>1, <2>4 DEF Hydra!WriteReg
    <3> QED BY <1>1, <2>4, <3>1, HydraOutb
  <2>5. t.reg > Hydra!LastReg \/ t.reg \in 0 .. Hydra!LastReg
    <3>1. \A n \in Nat : n > Hydra!LastReg \/ n \in 0 .. Hydra!LastReg
      BY SMT
    <3> QED BY <2>1, <3>1, Zenon
  <2> QED BY <2>2, <2>3, <2>4, <2>5
<1>6. CASE t.op \in {"read ram", "write ram"}
  <2>1. R = Hydra!Ram(r, t)
    BY <1>6 DEF Hydra!RunTest, R, r
  <2>2. PICK offset, end, limit \in Int :
          /\ offset = t.page * PageLen /\ end = offset + 4 * ((t.len + 3) \div 4)
          /\ limit = StopPage * PageLen
    <3>1. PageLen \in Nat /\ StopPage \in Nat /\ t.page \in Int /\ t.len \in Int
      BY <1>6 DEF HydraAssumption
    <3>2. \A a, b \in Int : a * b \in Int
      OBVIOUS
    <3>3. t.page * PageLen \in Int /\ StopPage * PageLen \in Int /\ (t.len + 3) \div 4 \in Int
      BY <3>1, <3>2
    <3> QED BY <3>3
  <2>3. Fine(Hydra!Ram(r, t))
    <3>1. CASE Hydra!Ram(r, t) = r
      BY <1>2, <3>1
    <3>2. CASE Hydra!Ram(r, t) # r
      <4>1. /\ offset >= 0 /\ end <= limit
            /\ Hydra!Ram(r, t) = [r EXCEPT !.outside = @ \/ offset < 0 \/ end > limit]
        BY <2>2, <3>2 DEF Hydra!Ram
      <4>2. r.outside = (r.outside \/ offset < 0 \/ end > limit)
        BY <1>1, <4>1 DEF HydraTyped
      <4> QED BY <1>2, <4>1, <4>2 DEF HydraTyped
    <3> QED BY <3>1, <3>2
  <2> QED BY <2>1, <2>3
<1>7. CASE t.op = "get state"
  <2>1. R = [r EXCEPT !.data[u] = 0]
    BY <1>7 DEF Hydra!RunTest, R, r
  <2> QED BY <1>2, <1>3, <2>1
<1>8. CASE t.op \notin {"read reg", "write reg", "read ram", "write ram", "get state"}
  <2>1. R = r
    BY <1>8 DEF Hydra!RunTest, R, r
  <2> QED BY <1>2, <2>1
<1> QED BY <1>4, <1>5, <1>6, <1>7, <1>8

\* Between g, where the invariant holds, and h only u's ioctl has moved.
Moved(g, h, u) ==
  /\ HydraTyped(h) /\ OnlyOf(g, h, u)
  /\ (g.trap \subseteq {"beyond"} => h.trap \subseteq {"beyond"}) /\ (~g.outside => ~h.outside)

LEMMA HydraMoved ==
  ASSUME NEW g, HydraInv(g), NEW h, NEW u \in HydraStreams, Moved(g, h, u), Dialogue(h, u)
  PROVE  HydraInv(h)
  BY DEF HydraInv, Moved, OnlyOf, Dialogue

\* The message has come and is not answered yet.
Begun(h, u) ==
  /\ h.calls[u] = h.ends[u] + 1 /\ h.call[u] \in HydraCalls /\ h.ran[u] = 0
  /\ ~h.cq_private[u]

LEMMA HydraRefused ==
  ASSUME NEW g, NEW h, NEW u \in HydraStreams, Moved(g, h, u), Begun(h, u)
  PROVE  LET r == Hydra!Answer(h, u, "nak") IN Moved(g, r, u) /\ Dialogue(r, u)
<1> DEFINE r == Hydra!Answer(h, u, "nak")
<1>1. /\ HydraTyped(r) /\ r.at[u] = "nak" /\ OnlyOf(h, r, u)
      /\ r.call = h.call /\ r.cq_private = h.cq_private
      /\ r.calls = h.calls /\ r.ends = h.ends /\ r.ran = h.ran
      /\ r.trap = h.trap /\ r.outside = h.outside
  BY HydraAnswer DEF Moved
<1> HIDE DEF r
<1> QED BY <1>1 DEF Moved, OnlyOf, Begun, Dialogue, r

LEMMA HydraGive ==
  ASSUME HydraAssumption,
         NEW g, NEW h, NEW u \in HydraStreams, Moved(g, h, u), Begun(h, u),
         h.call[u].cmd # "test", NEW okay \in BOOLEAN, okay \/ h.faults < HydraFaults, NEW x
  PROVE  LET r == Hydra!Give(h, u, okay, x) IN Moved(g, r, u) /\ Dialogue(r, u)
<1>1. CASE ~okay
  <2> DEFINE s == [h EXCEPT !.faults = @ + 1]
  <2>1. Moved(g, s, u) /\ Begun(s, u)
    <3>1. HydraFaults \in Nat
      BY DEF HydraAssumption
    <3>2. h.faults + 1 \in 0 .. HydraFaults
      BY <1>1, <3>1 DEF Moved, HydraTyped
    <3> QED BY <3>2 DEF Moved, Begun, HydraTyped, OnlyOf
  <2>2. Hydra!Give(h, u, okay, x) = Hydra!Answer(s, u, "nak")
    BY <1>1 DEF Hydra!Give
  <2> HIDE DEF s
  <2> QED BY <2>1, <2>2, HydraRefused
<1>2. CASE okay
  <2>0. PICK s : s = [h EXCEPT !.data[u] = x, !.cq_private[u] = FALSE]
    OBVIOUS
  <2>1. Moved(g, s, u) /\ Begun(s, u) /\ s.call = h.call
    BY <2>0 DEF Moved, Begun, HydraTyped, OnlyOf
  <2>2. PICK m \in {"ack", "copyout"} : Hydra!Give(h, u, okay, x) = Hydra!Answer(s, u, m)
    BY <1>2, <2>0 DEF Hydra!Give
  <2> DEFINE r == Hydra!Answer(s, u, m)
  <2>3. /\ HydraTyped(r) /\ r.at[u] = m /\ OnlyOf(s, r, u)
        /\ r.call = s.call /\ r.cq_private = s.cq_private
        /\ r.calls = s.calls /\ r.ends = s.ends /\ r.ran = s.ran
        /\ r.trap = s.trap /\ r.outside = s.outside
    <3>1. HydraTyped(s) /\ m \in {"idle", "copyin", "copyout", "ack", "nak"}
      BY <2>1 DEF Moved
    <3> QED BY <3>1, HydraAnswer
  <2> HIDE DEF r
  <2> QED BY <2>1, <2>2, <2>3 DEF Moved, OnlyOf, Begun, Dialogue, r
<1> QED BY <1>1, <1>2

\* hydraioctl() for a message of u.
LEMMA HydraIoctlStep ==
  ASSUME HydraAssumption, HydraInv(hyi), NEW u \in HydraStreams, Hydra!Ioctl(u)
  PROVE  HydraInv(hyi')
<1>1. PICK c \in HydraCalls, okay \in BOOLEAN :
        /\ okay \/ hyi.faults < HydraFaults
        /\ LET s == [hyi EXCEPT !.call[u] = c, !.calls[u] = @ + 1, !.ran[u] = 0,
                                !.data[u] = "none", !.cq_private[u] = FALSE]
           IN  hyi' = CASE c.cmd = "flags"  -> Hydra!Answer(s, u, "ack")
                        [] c.cmd = "number" -> Hydra!NumberOfBoards(s, u, okay)
                        [] c.cmd = "config" -> Hydra!GetConfig(s, u, okay)
                        [] c.cmd = "status" -> Hydra!GetStatus(s, u, okay)
                        [] c.cmd = "test"   -> Hydra!Test(s, u, okay)
                        [] OTHER            -> Hydra!Other(s, u)
  BY DEF Hydra!Ioctl
<1>2. PICK s : s = [hyi EXCEPT !.call[u] = c, !.calls[u] = @ + 1, !.ran[u] = 0,
                               !.data[u] = "none", !.cq_private[u] = FALSE]
  OBVIOUS
<1>3. Moved(hyi, s, u) /\ Begun(s, u) /\ s.call[u] = c /\ s.faults = hyi.faults
  <2>1. hyi.at[u] = "idle"
    BY DEF Hydra!Ioctl
  <2> QED BY <1>2, <2>1 DEF HydraInv, Moved, Begun, HydraTyped, OnlyOf, Dialogue
<1>4. SUFFICES Moved(hyi, hyi', u) /\ Dialogue(hyi', u)
  BY HydraMoved
<1>5. CASE c.cmd = "flags"
  <2>1. hyi' = Hydra!Answer(s, u, "ack")
    BY <1>1, <1>2, <1>5
  <2>2. Moved(hyi, Hydra!Answer(s, u, "ack"), u) /\ Dialogue(Hydra!Answer(s, u, "ack"), u)
    BY <1>3, <1>5, HydraAnswer DEF Moved, OnlyOf, Begun, Dialogue
  <2> QED BY <2>1, <2>2
<1>6. ASSUME NEW x, hyi' = Hydra!Give(s, u, okay, x), c.cmd # "test"
      PROVE  Moved(hyi, hyi', u) /\ Dialogue(hyi', u)
  BY <1>1, <1>3, <1>6, HydraGive
<1>7. CASE c.cmd = "number"
  <2>1. hyi' = Hydra!Give(s, u, okay, "number")
    BY <1>1, <1>2, <1>7 DEF Hydra!NumberOfBoards
  <2> QED BY <1>6, <1>7, <2>1
<1>8. CASE c.cmd = "config"
  <2>1. hyi' = Hydra!Give(s, u, okay, "config")
    BY <1>1, <1>2, <1>8 DEF Hydra!GetConfig
  <2> QED BY <1>6, <1>8, <2>1
<1>9. CASE c.cmd = "status"
  <2>1. \E x : hyi' = Hydra!Give(s, u, okay, x)
    BY <1>1, <1>2, <1>9 DEF Hydra!GetStatus
  <2> QED BY <1>6, <1>9, <2>1
<1>10. CASE c.cmd = "test"
  <2>1. hyi' = Hydra!Test(s, u, okay)
    BY <1>1, <1>2, <1>10
  <2>2. CASE c.way = "str"
    <3>1. PICK r : r = Hydra!RunTest(s, u)
      OBVIOUS
    <3>2. /\ HydraTyped(r) /\ OnlyOf(s, r, u) /\ r.ran[u] = 1
          /\ r.call = s.call /\ r.cq_private = s.cq_private
          /\ r.calls = s.calls /\ r.ends = s.ends
          /\ (s.trap \subseteq {"beyond"} => r.trap \subseteq {"beyond"}) /\ (~s.outside => ~r.outside)
      BY <1>3, <1>10, <3>1, HydraRunTest DEF Moved, Begun
    <3>3. hyi' = Hydra!Answer(r, u, "ack")
      BY <1>3, <2>1, <2>2, <3>1 DEF Hydra!Test
    <3>4. Moved(hyi, Hydra!Answer(r, u, "ack"), u) /\ Dialogue(Hydra!Answer(r, u, "ack"), u)
      BY <1>3, <3>2, HydraAnswer DEF Moved, OnlyOf, Begun, Dialogue
    <3> QED BY <3>3, <3>4
  <2>3. CASE c.way # "str" /\ ~okay
    <3>1. PICK r : r = [s EXCEPT !.faults = @ + 1]
      OBVIOUS
    <3>2. Moved(hyi, r, u) /\ Begun(r, u)
      <4>1. HydraFaults \in Nat
        BY DEF HydraAssumption
      <4>2. s.faults + 1 \in 0 .. HydraFaults
        BY <1>1, <1>3, <2>3, <4>1 DEF Moved, HydraTyped
      <4> QED BY <1>3, <3>1, <4>2 DEF Moved, Begun, HydraTyped, OnlyOf
    <3>3. hyi' = Hydra!Answer(r, u, "nak")
      BY <1>3, <2>1, <2>3, <3>1 DEF Hydra!Test, Hydra!TestCopyin
    <3> QED BY <3>2, <3>3, HydraRefused
  <2>4. CASE c.way # "str" /\ okay
    <3>1. PICK r : r = [s EXCEPT !.cq_private[u] = c.way # "null"]
      OBVIOUS
    <3>2. /\ HydraTyped(r) /\ OnlyOf(s, r, u) /\ r.ran[u] = 0
          /\ r.call = s.call /\ (r.cq_private[u] <=> c.way # "null")
          /\ r.calls = s.calls /\ r.ends = s.ends
          /\ r.trap = s.trap /\ r.outside = s.outside
      <4>1. HydraTyped(s) /\ s.ran[u] = 0
        BY <1>3 DEF Moved, Begun
      <4>2. r.cq_private = [s.cq_private EXCEPT ![u] = c.way # "null"] /\ DOMAIN r = DOMAIN s
            /\ r.at = s.at /\ r.call = s.call /\ r.faults = s.faults /\ r.started = s.started
            /\ r.calls = s.calls /\ r.ends = s.ends /\ r.ran = s.ran
            /\ r.trap = s.trap /\ r.outside = s.outside
        BY <3>1, <4>1 DEF HydraTyped
      <4>3. r.cq_private \in [HydraStreams -> BOOLEAN]
        BY <4>1, <4>2 DEF HydraTyped
      <4>4. HydraTyped(r)
        BY <4>1, <4>2, <4>3 DEF HydraTyped
      <4>5. OnlyOf(s, r, u)
        BY <4>1, <4>2 DEF OnlyOf, HydraTyped
      <4>6. r.cq_private[u] <=> c.way # "null"
        BY <4>1, <4>2 DEF HydraTyped
      <4> QED BY <4>1, <4>2, <4>4, <4>5, <4>6
    <3>3. hyi' = Hydra!Answer(r, u, "copyin")
      BY <1>3, <2>1, <2>4, <3>1 DEF Hydra!Test, Hydra!TestCopyin
    <3>4. Moved(hyi, Hydra!Answer(r, u, "copyin"), u) /\ Dialogue(Hydra!Answer(r, u, "copyin"), u)
      BY <1>3, <1>10, <3>2, HydraAnswer DEF Moved, OnlyOf, Begun, Dialogue
    <3> QED BY <3>3, <3>4
  <2> QED BY <2>2, <2>3, <2>4
<1>11. CASE c.cmd \notin {"flags", "number", "config", "status", "test"}
  <2>1. hyi' = Hydra!Answer(s, u, "nak")
    BY <1>1, <1>2, <1>11 DEF Hydra!Other
  <2> QED BY <1>3, <2>1, HydraRefused
<1> QED BY <1>5, <1>7, <1>8, <1>9, <1>10, <1>11

\* hydraioctl() for an M_IOCDATA.
LEMMA HydraIocDataStep ==
  ASSUME HydraAssumption, HydraInv(hyi), NEW u \in HydraStreams, Hydra!IocData(u)
  PROVE  HydraInv(hyi')
<1>1. hyi.at[u] \in {"copyin", "copyout"}
  BY DEF Hydra!IocData
<1>2. HydraTyped(hyi) /\ Dialogue(hyi, u) /\ hyi.call[u] \in HydraCalls
  BY <1>1 DEF HydraInv, Dialogue
<1>3. SUFFICES Moved(hyi, hyi', u) /\ Dialogue(hyi', u)
  BY HydraMoved
<1>4. CASE hyi' = Hydra!Freed(hyi, u)
  BY <1>1, <1>2, <1>4 DEF Hydra!Freed, Moved, HydraTyped, OnlyOf, Dialogue
<1>5. CASE hyi' = Hydra!Copied(hyi, u) /\ ~hyi.cq_private[u]
  <2>1. hyi' = Hydra!Answer(hyi, u, "ack")
    BY <1>5 DEF Hydra!Copied
  <2>2. Moved(hyi, Hydra!Answer(hyi, u, "ack"), u) /\ Dialogue(Hydra!Answer(hyi, u, "ack"), u)
    BY <1>1, <1>2, <1>5, HydraAnswer DEF Moved, OnlyOf, Dialogue
  <2> QED BY <2>1, <2>2
<1>6. CASE hyi' = Hydra!Copied(hyi, u) /\ hyi.cq_private[u]
  <2>1. hyi.at[u] = "copyin" /\ hyi.call[u].cmd = "test" /\ hyi.ran[u] = 0
    BY <1>1, <1>2, <1>6 DEF Dialogue
  <2>2. PICK r : r = Hydra!RunTest(hyi, u)
    OBVIOUS
  <2>3. /\ HydraTyped(r) /\ OnlyOf(hyi, r, u) /\ r.ran[u] = 1
        /\ r.call = hyi.call /\ r.calls = hyi.calls /\ r.ends = hyi.ends
        /\ (hyi.trap \subseteq {"beyond"} => r.trap \subseteq {"beyond"}) /\ (~hyi.outside => ~r.outside)
    BY <1>2, <2>1, <2>2, HydraRunTest
  <2>4. PICK t : t = [r EXCEPT !.cq_private[u] = FALSE]
    OBVIOUS
  <2>5. /\ HydraTyped(t) /\ OnlyOf(r, t, u) /\ t.ran = r.ran /\ ~t.cq_private[u]
        /\ t.call = r.call /\ t.calls = r.calls /\ t.ends = r.ends
        /\ t.trap = r.trap /\ t.outside = r.outside
    BY <2>3, <2>4 DEF HydraTyped, OnlyOf
  <2>6. hyi' = Hydra!Answer(t, u, "copyout")
    BY <1>6, <2>2, <2>4 DEF Hydra!Copied
  <2>7. PICK a : a = Hydra!Answer(t, u, "copyout")
    OBVIOUS
  <2>8. /\ HydraTyped(a) /\ OnlyOf(t, a, u) /\ a.at[u] = "copyout"
        /\ a.call = t.call /\ a.cq_private = t.cq_private
        /\ a.calls = t.calls /\ a.ends = t.ends /\ a.ran = t.ran
        /\ a.trap = t.trap /\ a.outside = t.outside
    BY <2>5, <2>7, HydraAnswer
  <2> QED BY <1>1, <1>2, <2>3, <2>5, <2>6, <2>7, <2>8 DEF Moved, OnlyOf, Dialogue
<1> QED BY <1>4, <1>5, <1>6 DEF Hydra!IocData

LEMMA HydraStep ==
  ASSUME HydraAssumption, HydraInv(hyi), [Hydra!Next]_hyi
  PROVE  HydraInv(hyi')
<1>1. CASE UNCHANGED hyi
  BY <1>1
<1>2. ASSUME NEW u \in HydraStreams, Hydra!IoctlEnds(u)
      PROVE  HydraInv(hyi')
  <2>1. Moved(hyi, hyi', u) /\ Dialogue(hyi', u)
    BY <1>2 DEF Hydra!IoctlEnds, Hydra!Freed, HydraInv, Moved, HydraTyped, OnlyOf, Dialogue
  <2> QED BY <2>1, HydraMoved
<1>3. ASSUME NEW u \in HydraStreams, Hydra!Bind(u)
      PROVE  HydraInv(hyi')
  <2>1. Moved(hyi, hyi', u) /\ Dialogue(hyi', u)
    BY <1>3 DEF Hydra!Bind, HydraInv, Moved, HydraTyped, OnlyOf, Dialogue
  <2> QED BY <2>1, HydraMoved
<1> QED BY <1>1, <1>2, <1>3, HydraIoctlStep, HydraIocDataStep DEF Hydra!Next

LEMMA HydraInitial ==
  ASSUME HydraAssumption, Hydra!Init
  PROVE  HydraInv(hyi)
<1>1. HydraFaults \in Nat
  BY DEF HydraAssumption
<1>2. HydraTyped(hyi) /\ hyi.trap \subseteq {"beyond"} /\ ~hyi.outside
  BY <1>1 DEF Hydra!Init, HydraTyped
<1>3. \A u \in HydraStreams : Dialogue(hyi, u)
  BY DEF Hydra!Init, Dialogue
<1> QED BY <1>2, <1>3 DEF HydraInv

\* What the invariant says of the properties.
LEMMA HydraGood ==
  ASSUME HydraInv(hyi)
  PROVE  /\ Hydra!TypeOK
         /\ Hydra!DialogueEnds /\ Hydra!TestsRunOnce /\ Hydra!TestsHarmless
<1>1. Hydra!TypeOK /\ Hydra!TestsHarmless
  BY DEF HydraInv, HydraTyped, Hydra!TypeOK, Hydra!TestsHarmless
<1>2. Hydra!DialogueEnds /\ Hydra!TestsRunOnce
  BY DEF HydraInv, Dialogue, Hydra!DialogueEnds, Hydra!TestsRunOnce
<1> QED BY <1>1, <1>2

-----------------------------------------------------------------------------
(* All of them.                                                            *)

LinesInv ==
  /\ part \in LineParts
  /\ part = "par"   => ParInv(par)
  /\ part = "slin"  => SlInv(ser)
  /\ part = "rx"    => RxKept(rx)
  /\ part = "aen"   => AenInv(aen)
  /\ part = "hydra" => HydraInv(hyi)

\* What a step may do besides.
UnservedStep == [part = "aen" => Aen!UnservedOnlyInWindow]_aen

LEMMA Assumed ==
  ParAssumption /\ SlAssumption /\ RxAssumption /\ AenAssumption /\ HydraAssumption
  BY LinesAssumption

LEMMA LinesStart ==
  ASSUME LinesInit
  PROVE  LinesInv
<1>1. part \in LineParts
  BY DEF LinesInit
<1>2. part = "par" => ParInv(par)
  BY Assumed, ParInitial DEF LinesInit
<1>3. part = "slin" => SlInv(ser)
  BY Assumed, SlInitial DEF LinesInit
<1>4. part = "rx" => RxKept(rx)
  BY Assumed, RxInitial DEF LinesInit
<1>5. part = "aen" => AenInv(aen)
  BY Assumed, AenInitial DEF LinesInit
<1>6. part = "hydra" => HydraInv(hyi)
  BY Assumed, HydraInitial DEF LinesInit
<1> QED BY <1>1, <1>2, <1>3, <1>4, <1>5, <1>6 DEF LinesInv

LEMMA LinesStep ==
  ASSUME LinesInv, [LinesNext]_linesVars
  PROVE  LinesInv' /\ UnservedStep
<1>0. CASE UNCHANGED linesVars
  BY <1>0 DEF linesVars, LinesInv, UnservedStep
<1>1. CASE part' = part /\ part = "par" /\ Par!Next /\ UNCHANGED <<ser, rx, aen, hyi>>
  <2>1. ParInv(par')
    BY <1>1, Assumed, ParStep DEF LinesInv
  <2> QED BY <1>1, <2>1 DEF LinesInv, UnservedStep
<1>2. CASE part' = part /\ part = "slin" /\ SlIn!Next /\ UNCHANGED <<par, rx, aen, hyi>>
  <2>1. SlInv(ser')
    BY <1>2, Assumed, SlStep DEF LinesInv
  <2> QED BY <1>2, <2>1 DEF LinesInv, UnservedStep
<1>3. CASE part' = part /\ part = "rx" /\ Rx!Next /\ UNCHANGED <<par, ser, aen, hyi>>
  <2>1. RxKept(rx')
    BY <1>3, Assumed, RxKeptStep DEF LinesInv
  <2> QED BY <1>3, <2>1 DEF LinesInv, UnservedStep
<1>4. CASE part' = part /\ part = "aen" /\ Aen!Next /\ UNCHANGED <<par, ser, rx, hyi>>
  <2>1. AenInv(aen) /\ AenAssumption /\ [Aen!Next]_aen
    BY <1>4, Assumed DEF LinesInv
  <2>2. AenInv(aen') /\ Aen!UnservedOnlyInWindow
    BY <2>1, AenStep, AenUnserved DEF AenStepOK
  <2> QED BY <1>4, <2>2 DEF LinesInv, UnservedStep
<1>5. CASE part' = part /\ part = "hydra" /\ Hydra!Next /\ UNCHANGED <<par, ser, rx, aen>>
  <2>1. HydraInv(hyi')
    BY <1>5, Assumed, HydraStep DEF LinesInv
  <2> QED BY <1>5, <2>1 DEF LinesInv, UnservedStep
<1> QED BY <1>0, <1>1, <1>2, <1>3, <1>4, <1>5 DEF LinesNext

LEMMA LinesGood ==
  ASSUME LinesInv
  PROVE  PartsTypeOK /\ LinesInOrder /\ LinesGoOn /\ RequestsTakeEffect
<1>1. CASE part = "par"
  BY <1>1, Assumed, ParGood DEF LinesInv, PartsTypeOK, LinesInOrder, LinesGoOn, RequestsTakeEffect
<1>2. CASE part = "slin"
  BY <1>2, Assumed, SlGood DEF LinesInv, PartsTypeOK, LinesInOrder, LinesGoOn, RequestsTakeEffect
<1>3. CASE part = "rx"
  BY <1>3, Assumed, RxGood DEF LinesInv, PartsTypeOK, LinesInOrder, LinesGoOn, RequestsTakeEffect
<1>4. CASE part = "aen"
  BY <1>4, Assumed, AenGood DEF LinesInv, PartsTypeOK, LinesInOrder, LinesGoOn, RequestsTakeEffect
<1>5. CASE part = "hydra"
  BY <1>5, Assumed, HydraGood DEF LinesInv, PartsTypeOK, LinesInOrder, LinesGoOn, RequestsTakeEffect
<1> QED BY <1>1, <1>2, <1>3, <1>4, <1>5 DEF LinesInv, LineParts

LEMMA LinesAlways == LinesSpec => []LinesInv
<1>1. LinesInit => LinesInv
  BY LinesStart
<1>2. LinesInv /\ [LinesNext]_linesVars => LinesInv'
  BY LinesStep
<1> QED BY <1>1, <1>2, PTL DEF LinesSpec

-----------------------------------------------------------------------------
\* The state of each driver is what its code takes it for: the indices of the rings lie in
\* them, the message slpoll() collects never exceeds sl.inputglobsize, and the LANCE stores
\* only where the descriptor is its own.
THEOREM LinesTypes == LinesSpec => []PartsTypeOK
<1>1. LinesInv => PartsTypeOK
  BY LinesGood
<1> QED BY <1>1, LinesAlways, PTL

\* par.c, sl.c and aen.c keep what they are given in order, each byte and each frame
\* once, for any number of users, any rings and any interleaving of their interrupts
\* with their entry points; toss_packet_up_stream() sends whole frames only, and none
\* again but the one buffer that an aenintr() caught in its loop sends for ever.
THEOREM LinesKeepOrder == LinesSpec => []LinesInOrder
<1>1. LinesInv => LinesInOrder
  BY LinesGood
<1> QED BY <1>1, LinesAlways, PTL

\* Whoever waits for one of these drivers has something coming that gets him on: parflg() or
\* its timeout, slpoll(), transmit_interrupt() or receive_interrupt(), but where
\* the status that aenintr() writes back a second time has taken an interrupt down.
THEOREM LinesKeepGoing == LinesSpec => []LinesGoOn
<1>1. LinesInv => LinesGoOn
  BY LinesGood
<1> QED BY <1>1, LinesAlways, PTL

\* The ioctls of aen.c and hydra.c are answered, once each but for AEN_SET_CONFIG, whose
\* message goes up a second time; a test of the Hydra runs once, never outside of its memory
\* nor at the FIFO or at a register of a stopped NIC, though it may read behind the
\* registers; and what aenopen() has opened stays attached.
THEOREM LinesServe == LinesSpec => []RequestsTakeEffect
<1>1. LinesInv => RequestsTakeEffect
  BY LinesGood
<1> QED BY <1>1, LinesAlways, PTL

\* An interrupt that aenintr() does not serve comes only between the two stores of aenclose()
\* or those of setup_lance(), however many users there are.
THEOREM LinesUnserved == LinesSpec => UnservedOnlyInWindow
<1>1. LinesInv /\ [LinesNext]_linesVars => UnservedStep
  BY LinesStep
<1>2. UnservedStep => [part = "aen" => Aen!UnservedOnlyInWindow]_aen
  BY DEF UnservedStep
<1> QED BY <1>1, <1>2, LinesAlways, PTL DEF LinesSpec, UnservedOnlyInWindow
=============================================================================
