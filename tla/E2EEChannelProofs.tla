-------------------------- MODULE E2EEChannelProofs --------------------------
(***************************************************************************)
(* Proofs about the encrypted channel, for any limits of its buffers and   *)
(* any number of messages: types, the order in which the daemon's session  *)
(* gets the messages of a client, and that an open channel loses nothing.  *)
(*                                                                         *)
(* A message passes through pending, flushing, up, buffered or held, and   *)
(* delivered.  The invariant says of every two of these places that what   *)
(* is ahead was sent earlier, unless it is hasty, and of all of them       *)
(* together that they hold each message that was not evicted.              *)
(***************************************************************************)
EXTENDS E2EEChannel, WellFoundedInduction, TLAPS

\* Message m is among the frames.
In(m, frames) == \E i \in 1 .. Len(frames) : frames[i] = m

\* Messages come in the order of their numbers, except the ones in H.
Sorted(s, H) ==
  \A i, j \in 1 .. Len(s) : i < j /\ Sealed(s[i]) /\ Sealed(s[j]) /\ s[i] >= s[j] => s[i] \in H
Precedes(s, t, H) ==
  \A i \in 1 .. Len(s), j \in 1 .. Len(t) :
    Sealed(s[i]) /\ Sealed(t[j]) /\ s[i] >= t[j] => s[i] \in H

\* The daemon keeps what has arrived in one place at a time.
Places ==
  /\ daemon \in {"waiting", "replying"} => delivered = <<>> /\ held = <<>> /\ ~served
  /\ daemon \in {"waiting", "open"} => buffered = <<>>
  /\ daemon = "open" => IF served THEN held = <<>> ELSE delivered = <<>>
  /\ ~attached => daemon \in {"waiting", "closed"} /\ client # "open" /\ ~replaced

\* What waits for the handshake waits on its side only.
Sides ==
  /\ client = "handshaking" =>
       /\ flushing = <<>> /\ hasty = {}
       /\ \A m \in Messages :
            ~In(m, delivered) /\ ~In(m, held) /\ ~In(m, buffered) /\ ~In(m, up)
  /\ client = "open" => pending = <<>>
  /\ client = "closed" => daemon = "closed" /\ up = <<>> /\ down = <<>>

\* Nothing is on its way that was not sent.
OnceAsked ==
  /\ \A m \in Messages :
       In(m, delivered) \/ In(m, held) \/ In(m, buffered) \/ In(m, up) \/ In(m, flushing)
         \/ In(m, pending) \/ m \in evicted \/ m \in hasty => m <= asked

\* What is further on its way was sent earlier.
OneAfterTheOther ==
  /\ Sorted(delivered, hasty) /\ Sorted(held, hasty) /\ Sorted(buffered, hasty)
  /\ Sorted(up, hasty) /\ Sorted(flushing, hasty) /\ Sorted(pending, hasty)
  /\ Precedes(delivered, up, hasty) /\ Precedes(held, up, hasty)
  /\ Precedes(buffered, up, hasty)
  /\ Precedes(delivered, flushing, hasty) /\ Precedes(held, flushing, hasty)
  /\ Precedes(buffered, flushing, hasty) /\ Precedes(up, flushing, hasty)

\* On a channel that has kept its data socket every message is somewhere.
Conserved ==
  ~replaced /\ client # "closed" =>
    /\ daemon # "closed"
    /\ \A m \in Messages :
         m <= asked /\ m \notin evicted =>
           In(m, delivered) \/ In(m, held) \/ In(m, buffered) \/ In(m, up) \/ In(m, flushing)
             \/ In(m, pending)
    /\ \A m \in evicted :
         ~(In(m, delivered) \/ In(m, held) \/ In(m, buffered) \/ In(m, up) \/ In(m, flushing)
             \/ In(m, pending))

\* The other direction: the client has heard a prefix, the rest is on its way.
Answered ==
  ~replaced =>
    /\ Len(heard) <= told /\ \A i \in 1 .. Len(heard) : heard[i] = i
    /\ Sorted(down, {})
    /\ \A m \in Messages : In(m, down) => m \in (Len(heard) + 1) .. told
    /\ client # "closed" => \A m \in (Len(heard) + 1) .. told : In(m, down)
    /\ daemon = "waiting" => down = <<>> /\ client # "open"
    /\ client = "handshaking" =>
         /\ heard = <<>>
         /\ daemon # "waiting" => down # <<>> /\ Head(down) = Ready

Inv == Places /\ Sides /\ OnceAsked /\ OneAfterTheOther /\ Conserved /\ Answered

-----------------------------------------------------------------------------
(* Induction, and what replaying the buffered frames gives.                *)

(* A set of natural numbers that is not empty has a least element.         *)
LEMMA LeastElement ==
  ASSUME NEW T \in SUBSET Nat, T # {}
  PROVE  \E m \in T : \A k \in T : m <= k
<1> DEFINE R == OpToRel(<, Nat)
<1>1. \E m \in T : \A k \in T : ~(<<k, m>> \in R)
  BY NatLessThanWellFounded, WFMin, Zenon
<1>2. \A m, k \in T : k < m => <<k, m>> \in R
  BY DEF OpToRel
<1> HIDE DEF R
<1>3. PICK m \in T : \A k \in T : ~(<<k, m>> \in R)
  BY <1>1
<1>4. \A k \in T : ~(k < m)
  BY <1>2, <1>3, Zenon
<1>5. \A k \in T : m <= k
  <2> TAKE k \in T
  <2>1. k \in Nat /\ m \in Nat /\ ~(k < m)
    BY <1>4
  <2> QED
    BY <2>1
<1> QED
  BY <1>5

(* Induction up to N, for a set instead of a predicate.                    *)
LEMMA InductionUpTo ==
  ASSUME NEW N \in Nat, NEW S,
         0 \in S, \A n \in 0 .. N : n \in S /\ n < N => n + 1 \in S
  PROVE  0 .. N \subseteq S
<1> DEFINE T == {n \in 0 .. N : n \notin S}
<1> SUFFICES ASSUME T # {} PROVE FALSE
  OBVIOUS
<1>1. T \in SUBSET Nat
  OBVIOUS
<1>2. PICK m \in T : \A k \in T : m <= k
  <2> HIDE DEF T
  <2> QED
    BY <1>1, LeastElement
<1>3. m # 0 /\ m - 1 \in 0 .. N
  BY <1>2
<1>4. m - 1 \in S
  BY <1>2, <1>3
<1> QED
  BY <1>2, <1>3, <1>4

\* One turn of the loop, and a function that records all of them.
Turn(s, g, i) ==
  IF i = 0 THEN <<>>
  ELSE IF Sealed(s[i]) THEN Append(g[i - 1], s[i]) ELSE g[i - 1]
Records(g, s, n) == DOMAIN g = 0 .. n /\ g = [i \in 0 .. n |-> Turn(s, g, i)]

(* The loop's results are a function of the number of its turns.           *)
LEMMA LoopRecorded ==
  ASSUME NEW S, NEW s \in Seq(S)
  PROVE  \E g : Records(g, s, Len(s))
<1> DEFINE P(n) == \E g : Records(g, s, n)
           G == {n \in 0 .. Len(s) : P(n)}
<1>0. Len(s) \in Nat
  OBVIOUS
<1>1. P(0)
  <2> DEFINE g == [i \in 0 .. 0 |-> <<>>]
  <2>1. g = [i \in 0 .. 0 |-> Turn(s, g, i)]
    BY DEF Turn
  <2> QED
    BY <2>1 DEF Records
<1>2. ASSUME NEW n \in 0 .. Len(s), P(n), n < Len(s)
      PROVE  P(n + 1)
  <2> PICK g : DOMAIN g = 0 .. n /\ g = [i \in 0 .. n |-> Turn(s, g, i)]
    BY <1>2 DEF Records
  <2> DEFINE h == [i \in 0 .. n + 1 |-> IF i = n + 1 THEN Turn(s, g, i) ELSE g[i]]
  <2>1. \A i \in 0 .. n + 1 : h[i] = Turn(s, h, i)
    <3> TAKE i \in 0 .. n + 1
    <3>1. CASE i = n + 1
      BY <3>1 DEF Turn
    <3>2. CASE i # n + 1
      <4>1. i \in 0 .. n /\ (i = 0 \/ i - 1 \in 0 .. n)
        BY <3>2
      <4>2. h[i] = g[i] /\ g[i] = Turn(s, g, i)
        BY <4>1
      <4>3. i = 0 \/ h[i - 1] = g[i - 1]
        BY <4>1
      <4> HIDE DEF h
      <4> QED
        BY <4>1, <4>2, <4>3 DEF Turn
    <3> QED
      BY <3>1, <3>2
  <2>2. h = [i \in 0 .. n + 1 |-> Turn(s, h, i)]
    BY <2>1
  <2> QED
    BY <2>2 DEF Records
<1>3. Len(s) \in G
  <2> HIDE DEF P
  <2>1. 0 \in G /\ \A n \in 0 .. Len(s) : n \in G /\ n < Len(s) => n + 1 \in G
    BY <1>0, <1>1, <1>2
  <2> HIDE DEF G
  <2>2. 0 .. Len(s) \subseteq G
    BY <1>0, <2>1, InductionUpTo
  <2> QED
    BY <1>0, <2>2
<1> QED
  BY <1>3

\* What a prefix of s and the result r of as many turns have in common: the
\* sealed frames, in the same order.
Kept(s, n, r) ==
  /\ r \in Seq(Nat)
  /\ \A k \in 1 .. Len(r) : Sealed(r[k]) /\ \E i \in 1 .. n : s[i] = r[k]
  /\ \A i \in 1 .. n : Sealed(s[i]) => In(s[i], r)
  /\ \A k, l \in 1 .. Len(r) : k < l =>
       \E i, j \in 1 .. n : i < j /\ s[i] = r[k] /\ s[j] = r[l]

(* Another turn keeps the sealed frames and their order.                   *)
LEMMA KeptByTurn ==
  ASSUME NEW s \in Seq(Nat), NEW n \in 0 .. Len(s), n < Len(s), NEW r, Kept(s, n, r)
  PROVE  Kept(s, n + 1, IF Sealed(s[n + 1]) THEN Append(r, s[n + 1]) ELSE r)
<1>1. n + 1 \in 1 .. Len(s) /\ s[n + 1] \in Nat /\ n \in Nat
  OBVIOUS
<1>2. CASE ~Sealed(s[n + 1])
  BY <1>1, <1>2 DEF Kept
<1>3. CASE Sealed(s[n + 1])
  <2> DEFINE e == s[n + 1]
             t == Append(r, e)
  <2>1. r \in Seq(Nat) /\ Len(r) \in Nat
    BY DEF Kept
  <2>2. /\ t \in Seq(Nat) /\ Len(t) = Len(r) + 1 /\ t[Len(r) + 1] = e
        /\ \A k \in 1 .. Len(r) : t[k] = r[k]
    BY <1>1, <2>1
  <2>3. \A k \in 1 .. Len(r) : Sealed(r[k]) /\ \E i \in 1 .. n : s[i] = r[k]
    BY DEF Kept
  <2>4. \A i \in 1 .. n : Sealed(s[i]) => In(s[i], r)
    BY DEF Kept
  <2>5. \A k, l \in 1 .. Len(r) : k < l =>
          \E i, j \in 1 .. n : i < j /\ s[i] = r[k] /\ s[j] = r[l]
    BY DEF Kept
  <2> HIDE DEF t
  <2>6. \A k \in 1 .. Len(t) : Sealed(t[k]) /\ \E i \in 1 .. n + 1 : s[i] = t[k]
    <3> TAKE k \in 1 .. Len(t)
    <3>1. CASE k = Len(r) + 1
      BY <1>1, <1>3, <2>2, <3>1
    <3>2. CASE k # Len(r) + 1
      <4>1. k \in 1 .. Len(r) /\ t[k] = r[k]
        BY <2>1, <2>2, <3>2
      <4>2. PICK i \in 1 .. n : s[i] = r[k]
        BY <2>3, <4>1
      <4>3. Sealed(t[k]) /\ i \in 1 .. n + 1 /\ s[i] = t[k]
        BY <1>1, <2>3, <4>1, <4>2
      <4> QED
        BY <4>3
    <3> QED
      BY <3>1, <3>2
  <2>7. \A i \in 1 .. n + 1 : Sealed(s[i]) => In(s[i], t)
    <3> SUFFICES ASSUME NEW i \in 1 .. n + 1, Sealed(s[i]) PROVE In(s[i], t)
      OBVIOUS
    <3>1. CASE i = n + 1
      <4>1. Len(r) + 1 \in 1 .. Len(t) /\ t[Len(r) + 1] = s[i]
        BY <2>1, <2>2, <3>1
      <4> QED
        BY <4>1 DEF In
    <3>2. CASE i # n + 1
      <4>1. In(s[i], r)
        BY <1>1, <2>4, <3>2
      <4>2. PICK k \in 1 .. Len(r) : r[k] = s[i]
        BY <4>1 DEF In
      <4>3. k \in 1 .. Len(t) /\ t[k] = s[i]
        BY <2>1, <2>2, <4>2
      <4> QED
        BY <4>3 DEF In
    <3> QED
      BY <3>1, <3>2
  <2>8. \A k, l \in 1 .. Len(t) : k < l =>
          \E i, j \in 1 .. n + 1 : i < j /\ s[i] = t[k] /\ s[j] = t[l]
    <3> SUFFICES ASSUME NEW k \in 1 .. Len(t), NEW l \in 1 .. Len(t), k < l
                 PROVE  \E i, j \in 1 .. n + 1 : i < j /\ s[i] = t[k] /\ s[j] = t[l]
      OBVIOUS
    <3>00. Len(t) = Len(r) + 1 /\ Len(r) \in Nat
      BY <2>1, <2>2
    <3>0. k \in 1 .. Len(r) /\ t[k] = r[k]
      <4>1. k \in 1 .. Len(r)
        BY <3>00
      <4> QED
        BY <2>2, <4>1
    <3>1. CASE l = Len(r) + 1
      <4>1. PICK i \in 1 .. n : s[i] = r[k]
        BY <2>3, <3>0
      <4>2. /\ i \in 1 .. n + 1 /\ n + 1 \in 1 .. n + 1 /\ i < n + 1
            /\ s[i] = t[k] /\ s[n + 1] = t[l]
        BY <1>1, <2>2, <3>0, <3>1, <4>1
      <4> QED
        BY <4>2
    <3>2. CASE l # Len(r) + 1
      <4>0. l \in 1 .. Len(r)
        BY <3>00, <3>2
      <4>1. l \in 1 .. Len(r) /\ t[l] = r[l]
        BY <2>2, <4>0
      <4>2. PICK i, j \in 1 .. n : i < j /\ s[i] = r[k] /\ s[j] = r[l]
        BY <2>5, <3>0, <4>1
      <4>3. /\ i \in 1 .. n + 1 /\ j \in 1 .. n + 1 /\ i < j
            /\ s[i] = t[k] /\ s[j] = t[l]
        BY <1>1, <3>0, <4>1, <4>2
      <4> QED
        BY <4>3
    <3> QED
      BY <3>1, <3>2
  <2>9. Kept(s, n + 1, t)
    BY <2>2, <2>6, <2>7, <2>8 DEF Kept
  <2> QED
    BY <1>3, <2>9 DEF t
<1> QED
  BY <1>2, <1>3

(* Replayed leaves out the handshake frames and nothing else, and keeps    *)
(* the order.                                                              *)
LEMMA ReplayedKeeps ==
  ASSUME NEW s \in Seq(Nat)
  PROVE  Kept(s, Len(s), Replayed(s))
<1>0. Len(s) \in Nat
  OBVIOUS
<1>1. PICK g : Records(g, s, Len(s)) /\ Replayed(s) = g[Len(s)]
  BY LoopRecorded DEF Replayed, Records, Turn
<1> DEFINE G == {n \in 0 .. Len(s) : Kept(s, n, g[n])}
<1>2. 0 \in G
  <2>1. g[0] = <<>>
    BY <1>0, <1>1 DEF Records, Turn
  <2>2. Kept(s, 0, <<>>)
    BY DEF Kept
  <2> QED
    BY <1>0, <2>1, <2>2
<1>3. \A n \in 0 .. Len(s) : n \in G /\ n < Len(s) => n + 1 \in G
  <2> SUFFICES ASSUME NEW n \in 0 .. Len(s), n \in G, n < Len(s)
               PROVE  n + 1 \in G
    OBVIOUS
  <2>1. n + 1 \in 0 .. Len(s) /\ n + 1 # 0 /\ (n + 1) - 1 = n
    OBVIOUS
  <2>2. g[n + 1] = Turn(s, g, n + 1)
    BY <1>1, <2>1 DEF Records
  <2>3. g[n + 1] = IF Sealed(s[n + 1]) THEN Append(g[n], s[n + 1]) ELSE g[n]
    BY <2>1, <2>2 DEF Turn
  <2>4. Kept(s, n, g[n])
    OBVIOUS
  <2>5. Kept(s, n + 1, g[n + 1])
    BY <2>3, <2>4, KeptByTurn
  <2> QED
    BY <2>1, <2>5
<1>4. Len(s) \in G
  <2> HIDE DEF G
  <2>1. 0 .. Len(s) \subseteq G
    BY <1>0, <1>2, <1>3, InductionUpTo
  <2> QED
    BY <1>0, <2>1
<1> QED
  BY <1>1, <1>4

-----------------------------------------------------------------------------
(* Membership and order of sequences that grow at one end and shrink at    *)
(* the other.                                                              *)

(* What a sequence holds after Append and before Tail.                     *)
LEMMA InFacts ==
  /\ \A m : ~In(m, <<>>)
  /\ \A s \in Seq(Nat), e \in Nat : \A m : In(m, Append(s, e)) <=> In(m, s) \/ m = e
  /\ \A s \in Seq(Nat) : \A m : s # <<>> => (In(m, s) <=> m = Head(s) \/ In(m, Tail(s)))
<1>1. \A m : ~In(m, <<>>)
  BY DEF In
<1>2. ASSUME NEW s \in Seq(Nat), NEW e \in Nat, NEW m
      PROVE  In(m, Append(s, e)) <=> In(m, s) \/ m = e
  <2>1. /\ Len(s) \in Nat /\ Len(Append(s, e)) = Len(s) + 1
        /\ Append(s, e)[Len(s) + 1] = e
        /\ \A i \in 1 .. Len(s) : Append(s, e)[i] = s[i]
    OBVIOUS
  <2>2. 1 .. Len(s) + 1 = (1 .. Len(s)) \cup {Len(s) + 1}
    BY <2>1
  <2> QED
    BY <2>1, <2>2 DEF In
<1>3. ASSUME NEW s \in Seq(Nat), NEW m, s # <<>>
      PROVE  In(m, s) <=> m = Head(s) \/ In(m, Tail(s))
  <2>1. /\ Len(s) \in Nat \ {0} /\ Len(Tail(s)) = Len(s) - 1 /\ Head(s) = s[1]
        /\ \A i \in 1 .. Len(s) - 1 : Tail(s)[i] = s[i + 1]
    BY <1>3
  <2>2. ASSUME In(m, s), m # Head(s) PROVE In(m, Tail(s))
    <3>1. PICK i \in 1 .. Len(s) : s[i] = m
      BY <2>2 DEF In
    <3>2. i - 1 \in 1 .. Len(s) - 1 /\ Tail(s)[i - 1] = m
      BY <2>1, <2>2, <3>1
    <3> QED
      BY <2>1, <3>2 DEF In
  <2>3. ASSUME In(m, Tail(s)) PROVE In(m, s)
    <3>1. PICK i \in 1 .. Len(s) - 1 : Tail(s)[i] = m
      BY <2>1, <2>3 DEF In
    <3>2. i + 1 \in 1 .. Len(s) /\ s[i + 1] = m
      BY <2>1, <3>1
    <3> QED
      BY <3>2 DEF In
  <2>4. In(Head(s), s)
    BY <2>1 DEF In
  <2> QED
    BY <2>2, <2>3, <2>4
<1> QED
  BY <1>1, <1>2, <1>3

(* A sequence without messages, and one of a single frame.                 *)
LEMMA OrderTrivial ==
  ASSUME NEW s \in Seq(Nat), NEW t \in Seq(Nat), NEW H, NEW e \in Nat
  PROVE  /\ (\A m \in Nat \ {0} : ~In(m, s)) =>
              Sorted(s, H) /\ Precedes(s, t, H) /\ Precedes(t, s, H)
         /\ (\A m \in Nat \ {0} : In(m, s) => m < e) => Precedes(s, <<e>>, H)
         /\ e \in H \/ e = 0 => Precedes(<<e>>, t, H)
         /\ e = 0 => Precedes(t, <<e>>, H)
         /\ Sorted(<<>>, H) /\ Precedes(<<>>, t, H) /\ Precedes(t, <<>>, H)
<1> USE DEF Sorted, Precedes, In, Sealed
<1>1. ASSUME \A m \in Nat \ {0} : ~In(m, s)
      PROVE  Sorted(s, H) /\ Precedes(s, t, H) /\ Precedes(t, s, H)
  <2>1. \A i \in 1 .. Len(s) : s[i] = 0
    BY <1>1
  <2> QED
    BY <2>1
<1>2. ASSUME \A m \in Nat \ {0} : In(m, s) => m < e
      PROVE  Precedes(s, <<e>>, H)
  <2>1. \A i \in 1 .. Len(s) : s[i] \in Nat /\ (s[i] # 0 => s[i] < e)
    BY <1>2
  <2> QED
    BY <2>1
<1>3. e \in H \/ e = 0 => Precedes(<<e>>, t, H)
  OBVIOUS
<1>4. e = 0 => Precedes(t, <<e>>, H)
  OBVIOUS
<1>5. Sorted(<<>>, H) /\ Precedes(<<>>, t, H) /\ Precedes(t, <<>>, H)
  OBVIOUS
<1> QED
  BY <1>1, <1>2, <1>3, <1>4, <1>5

(* Order under Append.                                                     *)
LEMMA OrderAppend ==
  ASSUME NEW s \in Seq(Nat), NEW t \in Seq(Nat), NEW H, NEW e \in Nat
  PROVE  /\ Sorted(s, H) /\ Precedes(s, <<e>>, H) => Sorted(Append(s, e), H)
         /\ Precedes(s, t, H) /\ Precedes(s, <<e>>, H) => Precedes(s, Append(t, e), H)
         /\ Precedes(s, t, H) /\ Precedes(<<e>>, t, H) => Precedes(Append(s, e), t, H)
<1> DEFINE a == Append(s, e)
           b == Append(t, e)
<1>1. /\ Len(s) \in Nat /\ Len(a) = Len(s) + 1 /\ a[Len(s) + 1] = e
      /\ \A i \in 1 .. Len(s) : a[i] = s[i]
  OBVIOUS
<1>2. /\ Len(t) \in Nat /\ Len(b) = Len(t) + 1 /\ b[Len(t) + 1] = e
      /\ \A i \in 1 .. Len(t) : b[i] = t[i]
  OBVIOUS
<1>3. Len(<<e>>) = 1 /\ <<e>>[1] = e
  OBVIOUS
<1> HIDE DEF a, b
<1>4. \A i \in 1 .. Len(a) : i = Len(s) + 1 \/ i \in 1 .. Len(s)
  BY <1>1
<1>5. \A i \in 1 .. Len(b) : i = Len(t) + 1 \/ i \in 1 .. Len(t)
  BY <1>2
<1>6. ASSUME Sorted(s, H), Precedes(s, <<e>>, H) PROVE Sorted(a, H)
  <2> SUFFICES ASSUME NEW i \in 1 .. Len(a), NEW j \in 1 .. Len(a), i < j,
                      Sealed(a[i]), Sealed(a[j]), a[i] >= a[j]
               PROVE  a[i] \in H
    BY DEF Sorted
  <2>1. i \in 1 .. Len(s) /\ a[i] = s[i]
    BY <1>1, <1>4
  <2>2. CASE j = Len(s) + 1
    BY <1>1, <1>3, <1>6, <2>1, <2>2 DEF Precedes
  <2>3. CASE j \in 1 .. Len(s)
    BY <1>1, <1>6, <2>1, <2>3 DEF Sorted
  <2> QED
    BY <1>4, <2>2, <2>3
<1>7. ASSUME Precedes(s, t, H), Precedes(s, <<e>>, H) PROVE Precedes(s, b, H)
  <2> SUFFICES ASSUME NEW i \in 1 .. Len(s), NEW j \in 1 .. Len(b),
                      Sealed(s[i]), Sealed(b[j]), s[i] >= b[j]
               PROVE  s[i] \in H
    BY DEF Precedes
  <2>1. CASE j = Len(t) + 1
    BY <1>2, <1>3, <1>7, <2>1 DEF Precedes
  <2>2. CASE j \in 1 .. Len(t)
    BY <1>2, <1>7, <2>2 DEF Precedes
  <2> QED
    BY <1>5, <2>1, <2>2
<1>8. ASSUME Precedes(s, t, H), Precedes(<<e>>, t, H) PROVE Precedes(a, t, H)
  <2> SUFFICES ASSUME NEW i \in 1 .. Len(a), NEW j \in 1 .. Len(t),
                      Sealed(a[i]), Sealed(t[j]), a[i] >= t[j]
               PROVE  a[i] \in H
    BY DEF Precedes
  <2>1. CASE i = Len(s) + 1
    BY <1>1, <1>3, <1>8, <2>1 DEF Precedes
  <2>2. CASE i \in 1 .. Len(s)
    BY <1>1, <1>8, <2>2 DEF Precedes
  <2> QED
    BY <1>4, <2>1, <2>2
<1> QED
  BY <1>6, <1>7, <1>8 DEF a, b

(* Order under Head and Tail.                                              *)
LEMMA OrderTail ==
  ASSUME NEW s \in Seq(Nat), NEW t \in Seq(Nat), NEW H, s # <<>>
  PROVE  /\ Sorted(s, H) => Sorted(Tail(s), H) /\ Precedes(<<Head(s)>>, Tail(s), H)
         /\ Precedes(s, t, H) => Precedes(Tail(s), t, H) /\ Precedes(<<Head(s)>>, t, H)
         /\ Precedes(t, s, H) => Precedes(t, Tail(s), H) /\ Precedes(t, <<Head(s)>>, H)
<1> DEFINE a == Tail(s)
           h == <<Head(s)>>
<1>1. /\ Len(s) \in Nat \ {0} /\ Len(a) = Len(s) - 1
      /\ \A i \in 1 .. Len(s) - 1 : a[i] = s[i + 1]
  OBVIOUS
<1>2. Len(h) = 1 /\ h[1] = s[1]
  OBVIOUS
<1> HIDE DEF a, h
<1>3. \A i \in 1 .. Len(a) : i + 1 \in 1 .. Len(s) /\ a[i] = s[i + 1] /\ 1 < i + 1
  BY <1>1
<1>4. \A i \in 1 .. Len(h) : i = 1 /\ h[i] = s[1]
  BY <1>2
<1>5. 1 \in 1 .. Len(s)
  BY <1>1
<1>6. ASSUME Sorted(s, H) PROVE Sorted(a, H) /\ Precedes(h, a, H)
  <2>1. \A i, j \in 1 .. Len(a) : i < j => i + 1 < j + 1
    BY <1>1
  <2> QED
    BY <1>3, <1>4, <1>5, <1>6, <2>1 DEF Sorted, Precedes
<1>7. ASSUME Precedes(s, t, H) PROVE Precedes(a, t, H) /\ Precedes(h, t, H)
  BY <1>3, <1>4, <1>5, <1>7 DEF Precedes
<1>8. ASSUME Precedes(t, s, H) PROVE Precedes(t, a, H) /\ Precedes(t, h, H)
  BY <1>3, <1>4, <1>5, <1>8 DEF Precedes
<1> QED
  BY <1>6, <1>7, <1>8 DEF a, h

(* More exceptions leave the order as it is.                               *)
LEMMA OrderMonotone ==
  ASSUME NEW s, NEW t, NEW H, NEW K, H \subseteq K
  PROVE  /\ Sorted(s, H) => Sorted(s, K)
         /\ Precedes(s, t, H) => Precedes(s, t, K)
BY DEF Sorted, Precedes

(* Replaying keeps messages and order.                                     *)
LEMMA ReplayedFacts ==
  ASSUME NEW s \in Seq(Nat), NEW t \in Seq(Nat), NEW H
  PROVE  /\ Replayed(s) \in Seq(Nat)
         /\ \A m : In(m, Replayed(s)) <=> Sealed(m) /\ In(m, s)
         /\ Sorted(s, H) => Sorted(Replayed(s), H)
         /\ Precedes(s, t, H) => Precedes(Replayed(s), t, H)
<1> DEFINE r == Replayed(s)
<1>1. /\ r \in Seq(Nat)
      /\ \A k \in 1 .. Len(r) : Sealed(r[k]) /\ \E i \in 1 .. Len(s) : s[i] = r[k]
      /\ \A i \in 1 .. Len(s) : Sealed(s[i]) => In(s[i], r)
      /\ \A k, l \in 1 .. Len(r) : k < l =>
           \E i, j \in 1 .. Len(s) : i < j /\ s[i] = r[k] /\ s[j] = r[l]
  BY ReplayedKeeps DEF Kept
<1> HIDE DEF r
<1>2. ASSUME NEW m PROVE In(m, r) <=> Sealed(m) /\ In(m, s)
  <2>1. ASSUME In(m, r) PROVE Sealed(m) /\ In(m, s)
    <3>1. PICK k \in 1 .. Len(r) : r[k] = m
      BY <2>1 DEF In
    <3>2. PICK i \in 1 .. Len(s) : s[i] = r[k]
      BY <1>1
    <3> QED
      BY <1>1, <3>1, <3>2 DEF In
  <2>2. ASSUME Sealed(m), In(m, s) PROVE In(m, r)
    <3>1. PICK i \in 1 .. Len(s) : s[i] = m
      BY <2>2 DEF In
    <3> QED
      BY <1>1, <2>2, <3>1
  <2> QED
    BY <2>1, <2>2
<1>3. ASSUME Sorted(s, H) PROVE Sorted(r, H)
  <2> SUFFICES ASSUME NEW k \in 1 .. Len(r), NEW l \in 1 .. Len(r), k < l, r[k] >= r[l]
               PROVE  r[k] \in H
    BY DEF Sorted
  <2>1. PICK i, j \in 1 .. Len(s) : i < j /\ s[i] = r[k] /\ s[j] = r[l]
    BY <1>1
  <2> QED
    BY <1>1, <1>3, <2>1 DEF Sorted
<1>4. ASSUME Precedes(s, t, H) PROVE Precedes(r, t, H)
  <2> SUFFICES ASSUME NEW k \in 1 .. Len(r), NEW l \in 1 .. Len(t),
                      Sealed(t[l]), r[k] >= t[l]
               PROVE  r[k] \in H
    BY DEF Precedes
  <2>1. PICK i \in 1 .. Len(s) : s[i] = r[k]
    BY <1>1
  <2> QED
    BY <1>1, <1>4, <2>1 DEF Precedes
<1> QED
  BY <1>1, <1>2, <1>3, <1>4 DEF r

-----------------------------------------------------------------------------
(* The steps.                                                              *)

(* The sequences of the channel hold numbers; a frame that is no message   *)
(* is 0.                                                                   *)
LEMMA Numbers ==
  /\ \A s \in Seq(Messages) : s \in Seq({0} \cup Messages)
  /\ \A s \in Seq({0} \cup Messages) :
       s \in Seq(Nat) /\ \A m : In(m, s) => m \in {0} \cup Messages
  /\ Messages \subseteq Nat \ {0}
BY ChannelAssumption DEF Messages, In

(* The relay drops frames only while the daemon is away, and adds none.    *)
LEMMA UpstreamFacts ==
  ASSUME NEW s \in Seq({0} \cup Messages)
  PROVE  /\ Upstream(s) \in Seq({0} \cup Messages)
         /\ attached => Upstream(s) = s
         /\ \A m : In(m, Upstream(s)) => In(m, s)
<1>1. CASE attached \/ Len(s) <= RelayLimit
  BY <1>1 DEF Upstream
<1>2. CASE ~(attached \/ Len(s) <= RelayLimit)
  <2> DEFINE n == Len(s) - RelayLimit + 1
             t == SubSeq(s, n, Len(s))
  <2>1. RelayLimit \in Nat \ {0} /\ Len(s) \in Nat /\ n \in 1 .. Len(s)
    BY <1>2, ChannelAssumption
  <2>2. t \in Seq({0} \cup Messages) /\ Len(t) = RelayLimit
        /\ \A i \in 1 .. RelayLimit : t[i] = s[n + i - 1]
    BY <2>1
  <2>3. \A i \in 1 .. RelayLimit : n + i - 1 \in 1 .. Len(s)
    BY <2>1
  <2>4. Upstream(s) = t
    BY <1>2 DEF Upstream
  <2> HIDE DEF t, n
  <2>5. \A m : In(m, t) => In(m, s)
    BY <2>2, <2>3 DEF In
  <2> QED
    BY <1>2, <2>2, <2>4, <2>5
<1> QED
  BY <1>1, <1>2

(* The ends of a sequence that is not empty.                               *)
LEMMA Ends ==
  ASSUME NEW S, NEW s \in Seq(S), s # <<>>
  PROVE  /\ Head(s) \in S /\ Tail(s) \in Seq(S) /\ Len(s) \in Nat \ {0}
         /\ Len(Tail(s)) = Len(s) - 1
OBVIOUS

(* What a typed state says of its sequences.                               *)
LEMMA Typed ==
  ASSUME TypeOK
  PROVE  /\ pending \in Seq(Nat) /\ flushing \in Seq(Nat) /\ up \in Seq(Nat)
         /\ buffered \in Seq(Nat) /\ held \in Seq(Nat) /\ delivered \in Seq(Nat)
         /\ down \in Seq(Nat) /\ heard \in Seq(Nat)
         /\ asked \in Nat /\ told \in Nat
         /\ \A m \in Nat \ {0} :
              In(m, pending) \/ In(m, flushing) \/ In(m, up) \/ In(m, buffered) \/ In(m, held)
                \/ In(m, delivered) \/ In(m, down) => m \in Messages
<1>1. /\ {pending, flushing, up, buffered, held, delivered, down, heard}
           \subseteq Seq({0} \cup Messages)
      /\ asked \in Nat /\ told \in Nat
  BY Numbers, ChannelAssumption DEF TypeOK, Hello, Ready
<1>2. \A s \in {pending, flushing, up, buffered, held, delivered, down, heard} :
        s \in Seq(Nat) /\ \A m \in Nat \ {0} : In(m, s) => m \in Messages
  BY <1>1, Numbers
<1> QED
  BY <1>1, <1>2

(* SendHello keeps the invariant.                                          *)
LEMMA SendHelloKeeps ==
  ASSUME TypeOK, Inv, SendHello PROVE TypeOK' /\ Inv'
<1>1. /\ client = "handshaking" /\ up' = Upstream(Append(up, 0))
      /\ UNCHANGED <<client, pending, flushing, asked, attached, daemon, buffered, held, served,
                     delivered, told, down, heard, replaced, hasty, evicted>>
  BY DEF SendHello, daemonVars, clientVars, Hello
<1>2. up' \in Seq({0} \cup Messages) /\ \A m \in Messages : ~In(m, up) /\ ~In(m, up')
  <2>1. Append(up, 0) \in Seq({0} \cup Messages) /\ up \in Seq(Nat)
    BY Typed DEF TypeOK, Hello
  <2>2. \A m \in Messages : ~In(m, up) /\ ~In(m, Append(up, 0))
    BY <1>1, <2>1, InFacts, Numbers DEF Inv, Sides
  <2> QED
    BY <1>1, <2>1, <2>2, UpstreamFacts
<1>3. TypeOK'
  BY <1>1, <1>2 DEF TypeOK, Hello, Ready
<1>4. \A m \in Nat \ {0} : ~In(m, up) /\ ~In(m, up')
  BY <1>2, Numbers, Typed
<1>5. Places'
  BY <1>1 DEF Inv, Places
<1>6. Sides'
  BY <1>1, <1>2 DEF Inv, Sides
<1>7. OnceAsked'
  BY <1>1, <1>2 DEF Inv, OnceAsked
<1>8. OneAfterTheOther'
  BY <1>1, <1>2, <1>4, Typed, Numbers, OrderTrivial DEF Inv, OneAfterTheOther
<1>9. Conserved'
  BY <1>1, <1>2, Numbers DEF Inv, Conserved, TypeOK
<1>10. Answered'
  BY <1>1 DEF Inv, Answered
<1> QED
  BY <1>3, <1>5, <1>6, <1>7, <1>8, <1>9, <1>10 DEF Inv

(* SendPending keeps the invariant: nothing of the client has been sent,   *)
(* so pending is in order and the message it loses is nowhere else.        *)
LEMMA SendPendingKeeps ==
  ASSUME TypeOK, Inv, SendPending PROVE TypeOK' /\ Inv'
<1> DEFINE n == asked + 1
           rest == IF Len(pending) < PendingLimit THEN pending ELSE Tail(pending)
           lost == IF Len(pending) < PendingLimit THEN {} ELSE {Head(pending)}
<1>1. /\ client = "handshaking" /\ asked < MaxMessages /\ asked' = n
      /\ pending' = Append(rest, n) /\ evicted' = evicted \cup lost
      /\ UNCHANGED <<client, flushing, up, attached, daemon, buffered, held, served,
                     delivered, told, down, heard, replaced, hasty>>
  BY DEF SendPending, daemonVars
<1>2. /\ n \in Messages /\ n \in Nat \ {0} /\ asked \in Nat
      /\ rest \in Seq(Messages) /\ Len(rest) < PendingLimit /\ lost \subseteq Messages
  <2>1. pending \in Seq(Messages) /\ Len(pending) <= PendingLimit /\ PendingLimit \in Nat \ {0}
        /\ asked \in 0 .. MaxMessages /\ MaxMessages \in Nat
    BY ChannelAssumption DEF TypeOK
  <2>2. CASE Len(pending) < PendingLimit
    BY <1>1, <2>1, <2>2 DEF Messages
  <2>3. CASE Len(pending) >= PendingLimit
    <3>1. pending # <<>>
      BY <2>1, <2>3
    <3>2. /\ Tail(pending) \in Seq(Messages) /\ Head(pending) \in Messages
          /\ Len(Tail(pending)) = Len(pending) - 1
      BY <2>1, <3>1, Ends
    <3>3. n \in Messages
      BY <1>1, <2>1 DEF Messages
    <3> QED
      BY <2>1, <2>3, <3>2, <3>3
  <2> QED
    BY <2>1, <2>2, <2>3
<1>3. TypeOK'
  <2> HIDE DEF rest, lost
  <2>1. PendingLimit \in Nat /\ Len(rest) \in Nat
    BY <1>2, ChannelAssumption
  <2>2. Append(rest, n) \in Seq(Messages) /\ Len(Append(rest, n)) = Len(rest) + 1
    BY <1>2
  <2>3. pending' \in Seq(Messages) /\ Len(pending') <= PendingLimit
    BY <1>1, <1>2, <2>1, <2>2
  <2>4. asked' \in 0 .. MaxMessages /\ evicted' \subseteq Messages
    BY <1>1, <1>2 DEF TypeOK, Messages
  <2> QED
    BY <1>1, <2>3, <2>4 DEF TypeOK
<1>4. /\ \A m : In(m, pending) <=> In(m, rest) \/ m \in lost
      /\ \A m : In(m, rest) => m \notin lost
      /\ Sorted(rest, {})
  <2>1. pending \in Seq(Nat) /\ Sorted(pending, {})
    BY <1>1, Typed DEF Inv, Sides, OneAfterTheOther
  <2>2. CASE lost = {}
    BY <2>1, <2>2
  <2>3. CASE lost # {}
    <3>1. pending # <<>> /\ rest = Tail(pending) /\ lost = {Head(pending)}
      BY <2>3, ChannelAssumption
    <3>2. Sorted(Tail(pending), {}) /\ Precedes(<<Head(pending)>>, Tail(pending), {})
      BY <2>1, <3>1, OrderTail
    <3>3. Head(pending) \in Nat \ {0}
      BY <3>1, Numbers, Ends DEF TypeOK
    <3>4. ~In(Head(pending), Tail(pending))
      <4> SUFFICES ASSUME NEW i \in 1 .. Len(Tail(pending)), Tail(pending)[i] = Head(pending)
                   PROVE  FALSE
        BY DEF In
      <4>1. 1 \in 1 .. Len(<<Head(pending)>>) /\ <<Head(pending)>>[1] = Head(pending)
        OBVIOUS
      <4>2. Head(pending) >= Head(pending)
        BY <3>3
      <4> QED
        BY <3>2, <3>3, <4>1, <4>2 DEF Precedes, Sealed
    <3> QED
      BY <2>1, <3>1, <3>2, <3>4, InFacts
  <2> QED
    BY <2>2, <2>3
<1> HIDE DEF rest, lost
<1>a. /\ \A m : In(m, pending') <=> In(m, rest) \/ m = n
      /\ rest \in Seq(Nat)
  BY <1>1, <1>2, Numbers, InFacts
<1>5. Places'
  BY <1>1 DEF Inv, Places
<1>6. Sides'
  BY <1>1 DEF Inv, Sides
<1>b. \A m \in Messages :
        In(m, delivered) \/ In(m, held) \/ In(m, buffered) \/ In(m, up) \/ In(m, flushing)
          \/ In(m, pending) \/ m \in evicted \/ m \in hasty => m <= asked
  BY DEF Inv, OnceAsked
<1>c. \A m \in Messages : m <= n <=> m <= asked \/ m = n
  BY <1>2 DEF Messages
<1>7. OnceAsked'
  BY <1>1, <1>4, <1>a, <1>b, <1>c DEF OnceAsked
<1>8. OneAfterTheOther'
  <2>1. \A m \in Nat \ {0} : In(m, rest) => m < n
    BY <1>2, <1>4, <1>b, Typed
  <2>2. Sorted(pending', {})
    BY <1>1, <1>2, <1>4, <1>a, <2>1, OrderTrivial, OrderAppend
  <2> QED
    BY <1>1, <2>2 DEF Inv, OneAfterTheOther, Sides
<1>9. Conserved'
  <2>1. \A m \in Messages : ~(In(m, delivered) \/ In(m, held) \/ In(m, buffered)
                              \/ In(m, up) \/ In(m, flushing))
    BY <1>1, InFacts DEF Inv, Sides
  <2>2. ~(n <= asked)
    BY <1>2
  <2> QED
    BY <1>1, <1>2, <1>4, <1>a, <1>b, <1>c, <2>1, <2>2 DEF Inv, Conserved, TypeOK
<1>10. Answered'
  BY <1>1 DEF Inv, Answered
<1> QED
  BY <1>3, <1>5, <1>6, <1>7, <1>8, <1>9, <1>10 DEF Inv

(* SendNow keeps the invariant: the message is hasty if others wait.       *)
LEMMA SendNowKeeps ==
  ASSUME TypeOK, Inv, SendNow PROVE TypeOK' /\ Inv'
<1> DEFINE n == asked + 1
<1>1. /\ client = "open" /\ asked < MaxMessages /\ asked' = n
      /\ hasty' = IF flushing # <<>> THEN hasty \cup {n} ELSE hasty
      /\ UNCHANGED <<client, pending, flushing, attached, daemon, buffered, held, served,
                     delivered, told, down, heard, replaced, evicted>>
  BY DEF SendNow, daemonVars
<1>2. n \in Messages /\ n \in Nat \ {0} /\ asked \in Nat
  BY <1>1, ChannelAssumption DEF TypeOK, Messages
<1>a. up' = Append(up, n)
  <2>1. Append(up, n) \in Seq({0} \cup Messages) /\ attached
    BY <1>1, <1>2 DEF Inv, Places, TypeOK, Hello
  <2> QED
    BY <2>1, UpstreamFacts DEF SendNow
<1>3. TypeOK'
  BY <1>1, <1>2, <1>a, ChannelAssumption, SMTT(60) DEF TypeOK, Messages
<1>4. \A m : In(m, up') <=> In(m, up) \/ m = n
  BY <1>2, <1>a, Typed, InFacts
<1>b. \A m \in Messages :
        In(m, delivered) \/ In(m, held) \/ In(m, buffered) \/ In(m, up) \/ In(m, flushing)
          \/ In(m, pending) \/ m \in evicted \/ m \in hasty => m <= asked
  BY DEF Inv, OnceAsked
<1>c. \A m \in Messages : m <= n <=> m <= asked \/ m = n
  BY <1>2 DEF Messages
<1>5. Places'
  BY <1>1 DEF Inv, Places
<1>6. Sides'
  BY <1>1 DEF Inv, Sides
<1>7. OnceAsked'
  BY <1>1, <1>4, <1>b, <1>c DEF OnceAsked
<1>8. OneAfterTheOther'
  <2>1. /\ Precedes(delivered, <<n>>, hasty') /\ Precedes(held, <<n>>, hasty')
        /\ Precedes(buffered, <<n>>, hasty') /\ Precedes(up, <<n>>, hasty')
    <3>1. \A m \in Nat \ {0} :
            In(m, delivered) \/ In(m, held) \/ In(m, buffered) \/ In(m, up) => m < n
      BY <1>2, <1>b, Typed
    <3> QED
      BY <1>2, <3>1, Typed, OrderTrivial
  <2>2. Precedes(<<n>>, flushing, hasty')
    <3>1. flushing \in Seq(Nat) /\ <<n>> \in Seq(Nat)
      BY <1>2, Typed
    <3>2. CASE flushing = <<>>
      BY <3>1, <3>2, OrderTrivial
    <3>3. CASE flushing # <<>>
      BY <1>1, <1>2, <3>1, <3>3, OrderTrivial
    <3> QED
      BY <3>2, <3>3
  <2>3. hasty \subseteq hasty'
    BY <1>1
  <2>4. /\ Sorted(delivered, hasty') /\ Sorted(held, hasty') /\ Sorted(buffered, hasty')
        /\ Sorted(up, hasty') /\ Sorted(flushing, hasty') /\ Sorted(pending, hasty')
        /\ Precedes(delivered, up, hasty') /\ Precedes(held, up, hasty')
        /\ Precedes(buffered, up, hasty')
        /\ Precedes(delivered, flushing, hasty') /\ Precedes(held, flushing, hasty')
        /\ Precedes(buffered, flushing, hasty') /\ Precedes(up, flushing, hasty')
    BY <2>3, OrderMonotone DEF Inv, OneAfterTheOther
  <2>5. /\ Sorted(up', hasty') /\ Precedes(up', flushing, hasty')
        /\ Precedes(delivered, up', hasty') /\ Precedes(held, up', hasty')
        /\ Precedes(buffered, up', hasty')
    BY <1>2, <1>a, <2>1, <2>2, <2>4, Typed, OrderAppend
  <2> QED
    BY <1>1, <2>4, <2>5 DEF OneAfterTheOther
<1>9. Conserved'
  <2>1. ~(n <= asked)
    BY <1>2
  <2> QED
    BY <1>1, <1>2, <1>4, <1>b, <1>c, <2>1 DEF Inv, Conserved, TypeOK
<1>10. Answered'
  BY <1>1 DEF Inv, Answered
<1> QED
  BY <1>3, <1>5, <1>6, <1>7, <1>8, <1>9, <1>10 DEF Inv

(* FlushNext keeps the invariant: a message moves from flushing to up.     *)
LEMMA FlushNextKeeps ==
  ASSUME TypeOK, Inv, FlushNext PROVE TypeOK' /\ Inv'
<1> DEFINE h == Head(flushing)
<1>1. /\ client = "open" /\ flushing # <<>> /\ flushing' = Tail(flushing)
      /\ UNCHANGED <<client, pending, asked, attached, daemon, buffered, held, served,
                     delivered, told, down, heard, replaced, hasty, evicted>>
  BY DEF FlushNext, daemonVars
<1>2. h \in Messages /\ h \in Nat \ {0} /\ Tail(flushing) \in Seq(Messages)
  BY <1>1, Numbers, Ends DEF TypeOK
<1>a. up' = Append(up, h)
  <2>1. Append(up, h) \in Seq({0} \cup Messages) /\ attached
    BY <1>1, <1>2 DEF Inv, Places, TypeOK, Hello
  <2> QED
    BY <2>1, UpstreamFacts DEF FlushNext
<1>3. TypeOK'
  BY <1>1, <1>2, <1>a DEF TypeOK
<1>4. /\ \A m : In(m, up') <=> In(m, up) \/ m = h
      /\ \A m : In(m, flushing) <=> m = h \/ In(m, flushing')
  BY <1>1, <1>2, <1>a, Typed, InFacts
<1> HIDE DEF h
<1>5. Places'
  BY <1>1 DEF Inv, Places
<1>6. Sides'
  BY <1>1 DEF Inv, Sides
<1>7. OnceAsked'
  BY <1>1, <1>4 DEF Inv, OnceAsked
<1>8. OneAfterTheOther'
  <2>0. /\ Sorted(delivered, hasty) /\ Sorted(held, hasty) /\ Sorted(buffered, hasty)
        /\ Sorted(up, hasty) /\ Sorted(flushing, hasty) /\ Sorted(pending, hasty)
        /\ Precedes(delivered, up, hasty) /\ Precedes(held, up, hasty)
        /\ Precedes(buffered, up, hasty)
        /\ Precedes(delivered, flushing, hasty) /\ Precedes(held, flushing, hasty)
        /\ Precedes(buffered, flushing, hasty) /\ Precedes(up, flushing, hasty)
    BY DEF Inv, OneAfterTheOther
  <2>1. /\ Precedes(delivered, <<h>>, hasty) /\ Precedes(held, <<h>>, hasty)
        /\ Precedes(buffered, <<h>>, hasty) /\ Precedes(up, <<h>>, hasty)
        /\ Precedes(<<h>>, Tail(flushing), hasty) /\ Sorted(Tail(flushing), hasty)
        /\ Precedes(delivered, Tail(flushing), hasty) /\ Precedes(held, Tail(flushing), hasty)
        /\ Precedes(buffered, Tail(flushing), hasty) /\ Precedes(up, Tail(flushing), hasty)
    BY <1>1, <2>0, Typed, OrderTail DEF h
  <2>2. Tail(flushing) \in Seq(Nat)
    BY <1>2, Numbers
  <2>3. /\ Sorted(up', hasty) /\ Precedes(up', Tail(flushing), hasty)
        /\ Precedes(delivered, up', hasty) /\ Precedes(held, up', hasty)
        /\ Precedes(buffered, up', hasty)
    BY <1>2, <1>a, <2>0, <2>1, <2>2, Typed, OrderAppend
  <2> QED
    BY <1>1, <2>0, <2>1, <2>3 DEF OneAfterTheOther
<1>9. Conserved'
  BY <1>1, <1>4 DEF Inv, Conserved
<1>10. Answered'
  BY <1>1 DEF Inv, Answered
<1> QED
  BY <1>3, <1>5, <1>6, <1>7, <1>8, <1>9, <1>10 DEF Inv

(* ClientOpens keeps the invariant: the daemon has answered, so it is      *)
(* attached, and what waited is handed to the flush.                       *)
LEMMA ClientOpensKeeps ==
  ASSUME TypeOK, Inv, ClientOpens PROVE TypeOK' /\ Inv'
<1>1. /\ client = "handshaking" /\ client' = "open" /\ down # <<>> /\ Head(down) = 0
      /\ flushing' = pending /\ pending' = <<>> /\ down' = Tail(down)
      /\ UNCHANGED <<asked, up, attached, daemon, buffered, held, served,
                     delivered, told, heard, replaced, hasty, evicted>>
  BY DEF ClientOpens, daemonVars, Ready
<1>2. flushing = <<>> /\ hasty = {} /\ \A m \in Messages :
        ~In(m, delivered) /\ ~In(m, held) /\ ~In(m, buffered) /\ ~In(m, up)
  BY <1>1 DEF Inv, Sides
<1>3. TypeOK'
  <2>1. down' \in Seq({Ready} \cup Messages)
    BY <1>1, Ends DEF TypeOK
  <2> QED
    BY <1>1, <2>1, ChannelAssumption DEF TypeOK
<1>4. /\ \A m : ~In(m, pending') /\ ~In(m, flushing)
      /\ \A m \in Messages : In(m, down) <=> In(m, down')
  BY <1>1, <1>2, Typed, Numbers, InFacts
<1>5. Places'
  <2>1. attached
    BY <1>1 DEF Inv, Places, Conserved, Answered
  <2> QED
    BY <1>1, <2>1 DEF Inv, Places
<1>6. Sides'
  BY <1>1 DEF Inv, Sides
<1>7. OnceAsked'
  BY <1>1, <1>4 DEF Inv, OnceAsked
<1>8. OneAfterTheOther'
  <2>1. \A m \in Nat \ {0} : ~In(m, delivered) /\ ~In(m, held) /\ ~In(m, buffered) /\ ~In(m, up)
    BY <1>2, Typed
  <2>2. /\ Precedes(delivered, pending, hasty) /\ Precedes(held, pending, hasty)
        /\ Precedes(buffered, pending, hasty) /\ Precedes(up, pending, hasty)
        /\ Sorted(<<>>, hasty)
    BY <2>1, Typed, OrderTrivial
  <2> QED
    BY <1>1, <2>2 DEF Inv, OneAfterTheOther
<1>9. Conserved'
  BY <1>1, <1>4 DEF Inv, Conserved
<1>10. Answered'
  <2>1. Sorted(down, {}) => Sorted(down', {})
    BY <1>1, Typed, OrderTail
  <2>2. \A m \in (Len(heard) + 1) .. told : m \in Messages
    BY Typed, ChannelAssumption DEF TypeOK, Messages
  <2> QED
    BY <1>1, <1>4, <2>1, <2>2 DEF Inv, Answered
<1> QED
  BY <1>3, <1>5, <1>6, <1>7, <1>8, <1>9, <1>10 DEF Inv

(* ClientReceives keeps the invariant: a sealed frame that the client      *)
(* receives is the next message of the daemon.                             *)
LEMMA ClientReceivesKeeps ==
  ASSUME TypeOK, Inv, ClientReceives PROVE TypeOK' /\ Inv'
<1> DEFINE h == Head(down)
<1>1. /\ client \in {"handshaking", "open"} /\ down # <<>>
      /\ client = "handshaking" => Sealed(h)
      /\ heard' = IF client = "open" /\ Sealed(h) THEN Append(heard, h) ELSE heard
      /\ down' = Tail(down)
      /\ UNCHANGED <<client, pending, flushing, asked, up, attached, daemon, buffered, held,
                     served, delivered, told, replaced, hasty, evicted>>
  BY DEF ClientReceives, daemonVars
<1>2. /\ h \in {0} \cup Messages /\ Tail(down) \in Seq({0} \cup Messages)
      /\ heard \in Seq(Messages)
  BY <1>1, Ends DEF TypeOK, Ready
<1>3. TypeOK'
  <2>1. heard' \in Seq(Messages)
    BY <1>1, <1>2 DEF Sealed
  <2> QED
    BY <1>1, <1>2, <2>1 DEF TypeOK, Ready
<1>4. \A m : In(m, down) <=> m = h \/ In(m, down')
  BY <1>1, Typed, InFacts
<1> HIDE DEF h
<1>5. Places'
  BY <1>1 DEF Inv, Places
<1>6. Sides'
  BY <1>1 DEF Inv, Sides
<1>7. OnceAsked'
  BY <1>1 DEF Inv, OnceAsked
<1>8. OneAfterTheOther'
  BY <1>1 DEF Inv, OneAfterTheOther
<1>9. Conserved'
  BY <1>1 DEF Inv, Conserved
<1>10. Answered'
  <2> SUFFICES ASSUME ~replaced PROVE Answered'
    BY <1>1 DEF Answered
  <2>1. /\ Len(heard) <= told /\ \A i \in 1 .. Len(heard) : heard[i] = i
        /\ Sorted(down, {})
        /\ \A m \in Messages : In(m, down) => m \in (Len(heard) + 1) .. told
        /\ \A m \in (Len(heard) + 1) .. told : In(m, down)
        /\ daemon # "waiting" /\ client = "open"
    BY <1>1 DEF Inv, Answered, h, Sealed, Ready
  <2>2. Sorted(down', {}) /\ Precedes(<<h>>, down', {}) /\ down' \in Seq(Nat)
    BY <1>1, <1>2, <2>1, Typed, Numbers, OrderTail DEF h
  <2>3. Len(heard) \in Nat /\ told \in Nat /\ \A m \in (Len(heard) + 1) .. told : m \in Messages
    BY Typed, ChannelAssumption DEF TypeOK, Messages
  <2>4. CASE h = 0
    <3>1. heard' = heard
      BY <1>1, <2>4 DEF Sealed
    <3>2. \A m \in Messages : In(m, down) <=> In(m, down')
      BY <1>4, <2>4, Numbers
    <3> QED
      BY <1>1, <2>1, <2>2, <2>3, <3>1, <3>2 DEF Answered
  <2>5. CASE h # 0
    <3>1. h \in Messages /\ h \in Nat \ {0} /\ heard' = Append(heard, h)
      BY <1>1, <1>2, <2>1, <2>5, Numbers DEF Sealed
    <3>2. h \in (Len(heard) + 1) .. told
      BY <1>4, <2>1, <3>1
    <3>3. \A m \in Messages : In(m, down') => h < m
      <4> SUFFICES ASSUME NEW m \in Messages, NEW j \in 1 .. Len(down'), down'[j] = m
                   PROVE  h < m
        BY DEF In
      <4>1. 1 \in 1 .. Len(<<h>>) /\ <<h>>[1] = h
        OBVIOUS
      <4>2. ~(h >= m)
        BY <2>2, <3>1, <4>1, Numbers DEF Precedes, Sealed
      <4> QED
        BY <3>1, <4>2, Numbers
    <3>4. h = Len(heard) + 1
      <4>1. Len(heard) + 1 \in (Len(heard) + 1) .. told
        BY <2>3, <3>2
      <4>2. Len(heard) + 1 = h \/ h < Len(heard) + 1
        BY <1>4, <2>1, <2>3, <3>3, <4>1
      <4> QED
        BY <2>3, <3>2, <4>2
    <3>5. Len(heard') = Len(heard) + 1 /\ \A i \in 1 .. Len(heard') : heard'[i] = i
      <4>1. /\ Len(heard') = Len(heard) + 1 /\ heard'[Len(heard) + 1] = h
            /\ \A i \in 1 .. Len(heard) : heard'[i] = heard[i]
        BY <1>2, <3>1
      <4>2. \A i \in 1 .. Len(heard) + 1 : i \in 1 .. Len(heard) \/ i = Len(heard) + 1
        BY <2>3
      <4> QED
        BY <2>1, <3>4, <4>1, <4>2
    <3>6. Len(heard') <= told
      BY <2>3, <3>2, <3>4, <3>5
    <3>7. \A m \in Messages : In(m, down') => m \in (Len(heard') + 1) .. told
      <4> SUFFICES ASSUME NEW m \in Messages, In(m, down')
                   PROVE  m \in (Len(heard') + 1) .. told
        OBVIOUS
      <4>1. m \in (Len(heard) + 1) .. told /\ h < m
        BY <1>4, <2>1, <3>3
      <4> QED
        BY <2>3, <3>4, <3>5, <4>1
    <3>8. \A m \in (Len(heard') + 1) .. told : In(m, down')
      <4> SUFFICES ASSUME NEW m \in (Len(heard') + 1) .. told PROVE In(m, down')
        OBVIOUS
      <4>1. m \in (Len(heard) + 1) .. told /\ m # h
        BY <2>3, <3>4, <3>5
      <4> QED
        BY <1>4, <2>1, <4>1
    <3> QED
      BY <1>1, <2>1, <2>2, <3>5, <3>6, <3>7, <3>8 DEF Answered
  <2> QED
    BY <2>4, <2>5
<1> QED
  BY <1>3, <1>5, <1>6, <1>7, <1>8, <1>9, <1>10 DEF Inv

(* Attach keeps the invariant.                                             *)
LEMMA AttachKeeps ==
  ASSUME TypeOK, Inv, Attach PROVE TypeOK' /\ Inv'
BY DEF TypeOK, Inv, Places, Sides, OnceAsked, OneAfterTheOther, Conserved, Answered, Attach,
       clientVars

(* Replace keeps the invariant: nothing of the client is left behind.      *)
LEMMA ReplaceKeeps ==
  ASSUME TypeOK, Inv, Replace PROVE TypeOK' /\ Inv'
<1>1. /\ attached /\ {client, daemon} # {"closed"} /\ replaced' = TRUE /\ daemon' = "waiting" /\ buffered' = <<>>
      /\ held' = <<>> /\ served' = FALSE /\ delivered' = <<>> /\ up' = <<>>
      /\ UNCHANGED <<client, pending, flushing, asked, attached, told, down, heard, hasty, evicted>>
  BY DEF Replace, clientVars
<1>2. \A m : ~In(m, <<>>)
  BY InFacts
<1>3. TypeOK'
  <2>1. <<>> \in Seq({Hello} \cup Messages) /\ <<>> \in Seq(Messages)
    OBVIOUS
  <2> QED
    BY <1>1, <2>1 DEF TypeOK
<1>5. Places'
  BY <1>1 DEF Inv, Places
<1>6. Sides'
  BY <1>1, <1>2 DEF Inv, Sides
<1>7. OnceAsked'
  BY <1>1, <1>2 DEF Inv, OnceAsked
<1>8. OneAfterTheOther'
  <2>1. <<>> \in Seq(Nat)
    OBVIOUS
  <2> QED
    BY <1>1, <2>1, Typed, OrderTrivial DEF Inv, OneAfterTheOther
<1>9. Conserved'
  BY <1>1 DEF Conserved
<1>10. Answered'
  BY <1>1 DEF Answered
<1> QED
  BY <1>3, <1>5, <1>6, <1>7, <1>8, <1>9, <1>10 DEF Inv

(* Close keeps the invariant.                                              *)
LEMMA CloseKeeps ==
  ASSUME TypeOK, Inv, Close PROVE TypeOK' /\ Inv'
<1>1. /\ client' = "closed" /\ daemon' = "closed" /\ up' = <<>> /\ down' = <<>>
      /\ UNCHANGED <<pending, flushing, asked, attached, buffered, held, served, delivered, told,
                     heard, replaced, hasty, evicted>>
  BY DEF Close
<1>2. \A m : ~In(m, <<>>)
  BY InFacts
<1>3. TypeOK'
  <2>1. <<>> \in Seq({Hello} \cup Messages) /\ <<>> \in Seq({Ready} \cup Messages)
    OBVIOUS
  <2> QED
    BY <1>1, <2>1 DEF TypeOK
<1>5. Places'
  BY <1>1 DEF Inv, Places
<1>6. Sides'
  BY <1>1 DEF Inv, Sides
<1>7. OnceAsked'
  BY <1>1, <1>2 DEF Inv, OnceAsked
<1>8. OneAfterTheOther'
  BY <1>1, Typed, OrderTrivial DEF Inv, OneAfterTheOther
<1>9. Conserved'
  BY <1>1 DEF Conserved
<1>10. Answered'
  BY <1>1, <1>2, Typed, OrderTrivial DEF Inv, Answered
<1> QED
  BY <1>3, <1>5, <1>6, <1>7, <1>8, <1>9, <1>10 DEF Inv

(* HandleHello keeps the invariant: the first frame to a client is ready.  *)
LEMMA HandleHelloKeeps ==
  ASSUME TypeOK, Inv, HandleHello PROVE TypeOK' /\ Inv'
<1> DEFINE h == Head(up)
<1>1. /\ attached /\ daemon = "waiting" /\ daemon' = "replying" /\ up # <<>> /\ h = 0
      /\ up' = Tail(up) /\ down' = Append(down, 0)
      /\ UNCHANGED <<client, pending, flushing, asked, attached, buffered, held, served,
                     delivered, told, heard, replaced, hasty, evicted>>
  BY DEF HandleHello, clientVars, Ready, Sealed
<1>2. Tail(up) \in Seq({0} \cup Messages) /\ Append(down, 0) \in Seq({0} \cup Messages)
  BY <1>1, Ends DEF TypeOK, Hello, Ready
<1>3. TypeOK'
  BY <1>1, <1>2 DEF TypeOK, Hello, Ready
<1>4. /\ \A m \in Messages : In(m, up) <=> In(m, up')
      /\ \A m \in Messages : In(m, down) <=> In(m, down')
  BY <1>1, Typed, Numbers, InFacts, SMTT(60)
<1>5. Places'
  BY <1>1 DEF Inv, Places
<1>6. Sides'
  <2>1. client # "closed"
    BY <1>1 DEF Inv, Sides
  <2> QED
    BY <1>1, <1>4, <2>1 DEF Inv, Sides
<1>7. OnceAsked'
  BY <1>1, <1>4 DEF Inv, OnceAsked
<1>8. OneAfterTheOther'
  <2>0. /\ Sorted(delivered, hasty) /\ Sorted(held, hasty) /\ Sorted(buffered, hasty)
        /\ Sorted(up, hasty) /\ Sorted(flushing, hasty) /\ Sorted(pending, hasty)
        /\ Precedes(delivered, up, hasty) /\ Precedes(held, up, hasty)
        /\ Precedes(buffered, up, hasty)
        /\ Precedes(delivered, flushing, hasty) /\ Precedes(held, flushing, hasty)
        /\ Precedes(buffered, flushing, hasty) /\ Precedes(up, flushing, hasty)
    BY DEF Inv, OneAfterTheOther
  <2>1. /\ Sorted(Tail(up), hasty) /\ Precedes(<<h>>, Tail(up), hasty)
        /\ Precedes(Tail(up), flushing, hasty) /\ Precedes(<<h>>, flushing, hasty)
        /\ Precedes(delivered, Tail(up), hasty) /\ Precedes(delivered, <<h>>, hasty)
        /\ Precedes(held, Tail(up), hasty) /\ Precedes(held, <<h>>, hasty)
        /\ Precedes(buffered, Tail(up), hasty) /\ Precedes(buffered, <<h>>, hasty)
    BY <1>1, <2>0, Typed, OrderTail DEF h
  <2> QED
    BY <1>1, <2>0, <2>1 DEF OneAfterTheOther
<1>9. Conserved'
  BY <1>1, <1>4 DEF Inv, Conserved, TypeOK
<1>10. Answered'
  <2> SUFFICES ASSUME ~replaced PROVE Answered'
    BY <1>1 DEF Answered
  <2>1. down = <<>>
    BY <1>1 DEF Inv, Answered
  <2>2. Sorted(down', {}) /\ down' # <<>> /\ Head(down') = 0
    <3>1. down' = <<0>>
      BY <1>1, <2>1
    <3> QED
      BY <3>1 DEF Sorted
  <2>3. \A m \in (Len(heard) + 1) .. told : m \in Messages
    BY Typed, ChannelAssumption DEF TypeOK, Messages
  <2> QED
    BY <1>1, <1>4, <2>2, <2>3 DEF Inv, Answered, Ready
<1> QED
  BY <1>3, <1>5, <1>6, <1>7, <1>8, <1>9, <1>10 DEF Inv

(* InvalidHello keeps the invariant: the channel of a data socket that was *)
(* not replaced gets a hello first.                                        *)
LEMMA InvalidHelloKeeps ==
  ASSUME TypeOK, Inv, InvalidHello PROVE TypeOK' /\ Inv'
<1> DEFINE h == Head(up)
<1>1. /\ attached /\ daemon = "waiting" /\ daemon' = "closed" /\ up # <<>> /\ h # 0
      /\ up' = Tail(up)
      /\ UNCHANGED <<client, pending, flushing, asked, attached, buffered, held, served,
                     delivered, told, down, heard, replaced, hasty, evicted>>
  BY DEF InvalidHello, clientVars, Sealed
<1>2. Tail(up) \in Seq({0} \cup Messages) /\ h \in Messages
  BY <1>1, Ends DEF TypeOK, Hello
<1>3. TypeOK'
  BY <1>1, <1>2 DEF TypeOK, Hello
<1>4. \A m : In(m, up) <=> m = h \/ In(m, up')
  BY <1>1, Typed, InFacts
<1>a. replaced
  <2>1. client # "handshaking" /\ client # "closed"
    BY <1>1, <1>2, <1>4 DEF Inv, Sides
  <2> QED
    BY <1>1, <2>1 DEF Inv, Answered, TypeOK
<1>5. Places'
  BY <1>1 DEF Inv, Places
<1>6. Sides'
  BY <1>1, <1>2, <1>4 DEF Inv, Sides
<1>7. OnceAsked'
  BY <1>1, <1>4 DEF Inv, OnceAsked
<1>8. OneAfterTheOther'
  <2>0. /\ Sorted(delivered, hasty) /\ Sorted(held, hasty) /\ Sorted(buffered, hasty)
        /\ Sorted(up, hasty) /\ Sorted(flushing, hasty) /\ Sorted(pending, hasty)
        /\ Precedes(delivered, up, hasty) /\ Precedes(held, up, hasty)
        /\ Precedes(buffered, up, hasty)
        /\ Precedes(delivered, flushing, hasty) /\ Precedes(held, flushing, hasty)
        /\ Precedes(buffered, flushing, hasty) /\ Precedes(up, flushing, hasty)
    BY DEF Inv, OneAfterTheOther
  <2>1. /\ Sorted(Tail(up), hasty) /\ Precedes(<<h>>, Tail(up), hasty)
        /\ Precedes(Tail(up), flushing, hasty) /\ Precedes(<<h>>, flushing, hasty)
        /\ Precedes(delivered, Tail(up), hasty) /\ Precedes(delivered, <<h>>, hasty)
        /\ Precedes(held, Tail(up), hasty) /\ Precedes(held, <<h>>, hasty)
        /\ Precedes(buffered, Tail(up), hasty) /\ Precedes(buffered, <<h>>, hasty)
    BY <1>1, <2>0, Typed, OrderTail DEF h
  <2> QED
    BY <1>1, <2>0, <2>1 DEF OneAfterTheOther
<1>9. Conserved'
  BY <1>1, <1>a DEF Conserved
<1>10. Answered'
  BY <1>1, <1>a DEF Answered
<1> QED
  BY <1>3, <1>5, <1>6, <1>7, <1>8, <1>9, <1>10 DEF Inv

(* BufferNext keeps the invariant: a frame moves from up to buffered.      *)
LEMMA BufferNextKeeps ==
  ASSUME TypeOK, Inv, BufferNext PROVE TypeOK' /\ Inv'
<1> DEFINE h == Head(up)
<1>1. /\ daemon = "replying" /\ up # <<>> /\ up' = Tail(up) /\ buffered' = Append(buffered, h)
      /\ UNCHANGED <<client, pending, flushing, asked, attached, daemon, held, served,
                     delivered, told, down, heard, replaced, hasty, evicted>>
  BY DEF BufferNext, clientVars
<1>2. Tail(up) \in Seq({0} \cup Messages) /\ h \in {0} \cup Messages /\ h \in Nat
  BY <1>1, Ends, Typed DEF TypeOK, Hello
<1>3. TypeOK'
  BY <1>1, <1>2 DEF TypeOK, Hello
<1>4. /\ \A m : In(m, up) <=> m = h \/ In(m, up')
      /\ \A m : In(m, buffered') <=> In(m, buffered) \/ m = h
  BY <1>1, <1>2, Typed, InFacts
<1> HIDE DEF h
<1>5. Places'
  BY <1>1 DEF Inv, Places
<1>6. Sides'
  BY <1>1, <1>4 DEF Inv, Sides
<1>7. OnceAsked'
  BY <1>1, <1>4 DEF Inv, OnceAsked
<1>8. OneAfterTheOther'
  <2>0. /\ Sorted(delivered, hasty) /\ Sorted(held, hasty) /\ Sorted(buffered, hasty)
        /\ Sorted(up, hasty) /\ Sorted(flushing, hasty) /\ Sorted(pending, hasty)
        /\ Precedes(delivered, up, hasty) /\ Precedes(held, up, hasty)
        /\ Precedes(buffered, up, hasty)
        /\ Precedes(delivered, flushing, hasty) /\ Precedes(held, flushing, hasty)
        /\ Precedes(buffered, flushing, hasty) /\ Precedes(up, flushing, hasty)
    BY DEF Inv, OneAfterTheOther
  <2>1. /\ Sorted(Tail(up), hasty) /\ Precedes(<<h>>, Tail(up), hasty)
        /\ Precedes(Tail(up), flushing, hasty) /\ Precedes(<<h>>, flushing, hasty)
        /\ Precedes(delivered, Tail(up), hasty) /\ Precedes(delivered, <<h>>, hasty)
        /\ Precedes(held, Tail(up), hasty) /\ Precedes(held, <<h>>, hasty)
        /\ Precedes(buffered, Tail(up), hasty) /\ Precedes(buffered, <<h>>, hasty)
    BY <1>1, <2>0, Typed, OrderTail DEF h
  <2>2. Tail(up) \in Seq(Nat)
    BY <1>2, Numbers
  <2>3. /\ Sorted(buffered', hasty) /\ Precedes(buffered', Tail(up), hasty)
        /\ Precedes(buffered', flushing, hasty)
    BY <1>1, <1>2, <2>0, <2>1, <2>2, Typed, OrderAppend
  <2> QED
    BY <1>1, <2>0, <2>1, <2>3 DEF OneAfterTheOther
<1>9. Conserved'
  BY <1>1, <1>4 DEF Inv, Conserved
<1>10. Answered'
  BY <1>1 DEF Inv, Answered
<1> QED
  BY <1>3, <1>5, <1>6, <1>7, <1>8, <1>9, <1>10 DEF Inv

(* DaemonOpens keeps the invariant: what was buffered is held, in order,   *)
(* and without the handshake frames.                                       *)
LEMMA DaemonOpensKeeps ==
  ASSUME TypeOK, Inv, DaemonOpens PROVE TypeOK' /\ Inv'
<1>1. /\ daemon = "replying" /\ daemon' = "open"
      /\ held' = Replayed(buffered) /\ buffered' = <<>>
      /\ UNCHANGED <<client, pending, flushing, asked, up, attached, served,
                     delivered, told, down, heard, replaced, hasty, evicted>>
  BY DEF DaemonOpens, clientVars
<1>2. /\ held' \in Seq(Nat)
      /\ \A m \in Messages : In(m, held') <=> In(m, buffered)
      /\ Sorted(buffered, hasty) => Sorted(held', hasty)
      /\ Precedes(buffered, up, hasty) => Precedes(held', up, hasty)
      /\ Precedes(buffered, flushing, hasty) => Precedes(held', flushing, hasty)
  BY <1>1, Typed, Numbers, ReplayedFacts DEF Sealed
<1>3. TypeOK'
  <2>1. \A i \in 1 .. Len(held') : held'[i] \in Messages
    <3> TAKE i \in 1 .. Len(held')
    <3>1. In(held'[i], held')
      BY DEF In
    <3>2. Sealed(held'[i]) /\ In(held'[i], buffered)
      BY <1>1, <3>1, Typed, ReplayedFacts
    <3> QED
      BY <3>2, Numbers DEF TypeOK, Hello, Sealed
  <2>2. held' \in Seq(Messages)
    BY <1>2, <2>1
  <2>3. buffered' \in Seq({Hello} \cup Messages)
    BY <1>1
  <2> QED
    BY <1>1, <2>2, <2>3 DEF TypeOK
<1>4. \A m : ~In(m, buffered') /\ ~In(m, held)
  BY <1>1, InFacts DEF Inv, Places
<1>5. Places'
  BY <1>1 DEF Inv, Places
<1>6. Sides'
  BY <1>1, <1>2, <1>4 DEF Inv, Sides
<1>7. OnceAsked'
  BY <1>1, <1>2, <1>4 DEF Inv, OnceAsked
<1>8. OneAfterTheOther'
  BY <1>1, <1>2, Typed, OrderTrivial DEF Inv, OneAfterTheOther
<1>9. Conserved'
  BY <1>1, <1>2, <1>4 DEF Inv, Conserved, TypeOK
<1>10. Answered'
  BY <1>1 DEF Inv, Answered
<1> QED
  BY <1>3, <1>5, <1>6, <1>7, <1>8, <1>9, <1>10 DEF Inv

(* SessionAttached keeps the invariant: what was held is delivered.        *)
LEMMA SessionAttachedKeeps ==
  ASSUME TypeOK, Inv, SessionAttached PROVE TypeOK' /\ Inv'
<1>1. /\ daemon = "open" /\ ~served /\ served' = TRUE /\ delivered = <<>>
      /\ delivered' = held /\ held' = <<>>
      /\ UNCHANGED <<client, pending, flushing, asked, up, attached, daemon, buffered,
                     told, down, heard, replaced, hasty, evicted>>
  <2>1. daemon = "open" /\ ~served /\ delivered = <<>>
    BY DEF SessionAttached, Inv, Places
  <2>2. <<>> \o held = held
    BY Typed
  <2> QED
    BY <2>1, <2>2 DEF SessionAttached, clientVars
<1>3. TypeOK'
  BY <1>1 DEF TypeOK
<1>4. \A m : ~In(m, <<>>)
  BY InFacts
<1>5. Places'
  BY <1>1 DEF Inv, Places
<1>6. Sides'
  BY <1>1, <1>4 DEF Inv, Sides
<1>7. OnceAsked'
  BY <1>1, <1>4 DEF Inv, OnceAsked
<1>8. OneAfterTheOther'
  BY <1>1 DEF Inv, OneAfterTheOther
<1>9. Conserved'
  BY <1>1, <1>4 DEF Inv, Conserved
<1>10. Answered'
  BY <1>1 DEF Inv, Answered
<1> QED
  BY <1>3, <1>5, <1>6, <1>7, <1>8, <1>9, <1>10 DEF Inv

(* DaemonReceives keeps the invariant: a message moves from up to held or  *)
(* delivered, a hello is answered once more.                               *)
LEMMA DaemonReceivesKeeps ==
  ASSUME TypeOK, Inv, DaemonReceives PROVE TypeOK' /\ Inv'
<1> DEFINE h == Head(up)
<1>1. /\ daemon = "open" /\ up # <<>> /\ up' = Tail(up)
      /\ UNCHANGED <<client, pending, flushing, asked, attached, daemon, buffered, served,
                     told, heard, replaced, hasty, evicted>>
  BY DEF DaemonReceives, clientVars
<1>2. Tail(up) \in Seq({0} \cup Messages) /\ h \in {0} \cup Messages /\ h \in Nat
  BY <1>1, Ends, Typed DEF TypeOK, Hello
<1>4. \A m : In(m, up) <=> m = h \/ In(m, up')
  BY <1>1, Typed, InFacts
<1>a. \/ h = 0 /\ down' = Append(down, 0) /\ UNCHANGED <<held, delivered>>
      \/ h # 0 /\ served /\ delivered' = Append(delivered, h) /\ UNCHANGED <<held, down>>
      \/ h # 0 /\ ~served /\ held' = Append(held, h) /\ UNCHANGED <<delivered, down>>
  BY DEF DaemonReceives, Sealed, Ready
<1> HIDE DEF h
<1>b. /\ \A m \in Messages :
           In(m, delivered') \/ In(m, held') \/ In(m, up')
             <=> In(m, delivered) \/ In(m, held) \/ In(m, up)
      /\ \A m \in Messages : In(m, down') <=> In(m, down)
  <2>1. \A s \in {held, delivered, down}, e \in Nat : \A m : In(m, Append(s, e)) <=> In(m, s) \/ m = e
    BY Typed, InFacts
  <2>2. \A m \in Messages : m # 0
    BY Numbers
  <2> QED
    BY <1>2, <1>4, <1>a, <2>1, <2>2
<1>3. TypeOK'
  <2>1. h # 0 => h \in Messages
    BY <1>2
  <2>2. /\ Append(down, 0) \in Seq({Ready} \cup Messages)
        /\ h # 0 => Append(delivered, h) \in Seq(Messages) /\ Append(held, h) \in Seq(Messages)
    BY <2>1 DEF TypeOK, Ready
  <2>3. down' \in Seq({Ready} \cup Messages) /\ delivered' \in Seq(Messages)
        /\ held' \in Seq(Messages)
    BY <1>a, <2>2 DEF TypeOK
  <2> QED
    BY <1>1, <1>2, <2>3 DEF TypeOK, Hello
<1>5. Places'
  BY <1>1, <1>a DEF Inv, Places
<1>6. Sides'
  <2>1. client # "closed"
    BY <1>1 DEF Inv, Sides
  <2> QED
    BY <1>1, <1>b, <2>1 DEF Inv, Sides
<1>7. OnceAsked'
  BY <1>1, <1>b DEF Inv, OnceAsked
<1>8. OneAfterTheOther'
  <2>0. /\ Sorted(delivered, hasty) /\ Sorted(held, hasty) /\ Sorted(buffered, hasty)
        /\ Sorted(up, hasty) /\ Sorted(flushing, hasty) /\ Sorted(pending, hasty)
        /\ Precedes(delivered, up, hasty) /\ Precedes(held, up, hasty)
        /\ Precedes(buffered, up, hasty)
        /\ Precedes(delivered, flushing, hasty) /\ Precedes(held, flushing, hasty)
        /\ Precedes(buffered, flushing, hasty) /\ Precedes(up, flushing, hasty)
    BY DEF Inv, OneAfterTheOther
  <2>1. /\ Sorted(Tail(up), hasty) /\ Precedes(<<h>>, Tail(up), hasty)
        /\ Precedes(Tail(up), flushing, hasty) /\ Precedes(<<h>>, flushing, hasty)
        /\ Precedes(delivered, Tail(up), hasty) /\ Precedes(delivered, <<h>>, hasty)
        /\ Precedes(held, Tail(up), hasty) /\ Precedes(held, <<h>>, hasty)
        /\ Precedes(buffered, Tail(up), hasty) /\ Precedes(buffered, <<h>>, hasty)
    BY <1>1, <2>0, Typed, OrderTail DEF h
  <2>2. Tail(up) \in Seq(Nat)
    BY <1>2, Numbers
  <2>3. \A s \in {held, delivered} :
           s \in Seq(Nat) /\ Sorted(s, hasty) /\ Precedes(s, <<h>>, hasty)
             /\ Precedes(s, Tail(up), hasty) /\ Precedes(s, flushing, hasty)
    BY <2>0, <2>1, Typed
  <2>4. \A s \in {held, delivered} :
           /\ Sorted(Append(s, h), hasty) /\ Precedes(Append(s, h), Tail(up), hasty)
           /\ Precedes(Append(s, h), flushing, hasty)
    BY <1>2, <2>1, <2>2, <2>3, Typed, OrderAppend
  <2>5. \A s \in {held', delivered'} :
           /\ Sorted(s, hasty) /\ Precedes(s, Tail(up), hasty) /\ Precedes(s, flushing, hasty)
    BY <1>a, <2>3, <2>4
  <2> QED
    BY <1>1, <2>0, <2>1, <2>5 DEF OneAfterTheOther
<1>9. Conserved'
  BY <1>1, <1>b DEF Inv, Conserved, TypeOK
<1>10. Answered'
  <2> SUFFICES ASSUME ~replaced PROVE Answered'
    BY <1>1 DEF Answered
  <2>1. Sorted(down, {}) => Sorted(down', {})
    <3>1. down \in Seq(Nat) /\ 0 \in Nat
      BY Typed
    <3>2. Sorted(down, {}) => Sorted(Append(down, 0), {})
      BY <3>1, OrderTrivial, OrderAppend
    <3> QED
      BY <1>a, <3>2
  <2>2. \A m \in (Len(heard) + 1) .. told : m \in Messages
    BY Typed, ChannelAssumption DEF TypeOK, Messages
  <2>3. down # <<>> => down' # <<>> /\ Head(down') = Head(down)
    <3>1. \A s \in Seq(Nat) : s # <<>> => Append(s, 0) # <<>> /\ Head(Append(s, 0)) = Head(s)
      OBVIOUS
    <3> QED
      BY <1>a, <3>1, Typed
  <2> QED
    BY <1>1, <1>b, <2>1, <2>2, <2>3 DEF Inv, Answered
<1> QED
  BY <1>3, <1>5, <1>6, <1>7, <1>8, <1>9, <1>10 DEF Inv

(* DaemonSends keeps the invariant.                                        *)
LEMMA DaemonSendsKeeps ==
  ASSUME TypeOK, Inv, DaemonSends PROVE TypeOK' /\ Inv'
<1> DEFINE n == told + 1
<1>1. /\ daemon = "open" /\ served /\ told < MaxMessages /\ told' = n /\ down' = Append(down, n)
      /\ UNCHANGED <<client, pending, flushing, asked, up, attached, daemon, buffered, held,
                     served, delivered, heard, replaced, hasty, evicted>>
  BY DEF DaemonSends, clientVars
<1>2. n \in Messages /\ n \in Nat \ {0} /\ told \in Nat /\ n \in 0 .. MaxMessages
  BY <1>1, ChannelAssumption DEF TypeOK, Messages
<1>3. TypeOK'
  <2>1. down' \in Seq({Ready} \cup Messages)
    BY <1>1, <1>2 DEF TypeOK
  <2> QED
    BY <1>1, <1>2, <2>1 DEF TypeOK
<1>4. \A m : In(m, down') <=> In(m, down) \/ m = n
  BY <1>1, <1>2, Typed, InFacts
<1>5. Places'
  BY <1>1 DEF Inv, Places
<1>6. Sides'
  BY <1>1 DEF Inv, Sides
<1>7. OnceAsked'
  BY <1>1 DEF Inv, OnceAsked
<1>8. OneAfterTheOther'
  BY <1>1 DEF Inv, OneAfterTheOther
<1>9. Conserved'
  BY <1>1 DEF Inv, Conserved
<1>10. Answered'
  <2> SUFFICES ASSUME ~replaced PROVE Answered'
    BY <1>1 DEF Answered
  <2>1. /\ Len(heard) <= told /\ \A i \in 1 .. Len(heard) : heard[i] = i
        /\ Sorted(down, {})
        /\ \A m \in Messages : In(m, down) => m \in (Len(heard) + 1) .. told
        /\ client # "closed" => \A m \in (Len(heard) + 1) .. told : In(m, down)
        /\ client = "handshaking" => heard = <<>> /\ down # <<>> /\ Head(down) = Ready
    BY <1>1 DEF Inv, Answered
  <2>2. Len(heard) \in Nat /\ down \in Seq(Nat)
    BY Typed
  <2>3. Sorted(down', {})
    <3>1. \A m \in Nat \ {0} : In(m, down) => m < n
      BY <1>2, <2>1, <2>2, Typed
    <3> QED
      BY <1>1, <1>2, <2>1, <2>2, <3>1, OrderTrivial, OrderAppend
  <2>4. /\ \A m \in (Len(heard) + 1) .. n : m \in (Len(heard) + 1) .. told \/ m = n
        /\ \A m \in (Len(heard) + 1) .. told : m \in (Len(heard) + 1) .. n
        /\ n \in (Len(heard) + 1) .. n /\ Len(heard) <= n
    BY <1>2, <2>1, <2>2
  <2>5. down # <<>> => down' # <<>> /\ Head(down') = Head(down)
    BY <1>1, <2>2
  <2> QED
    BY <1>1, <1>4, <2>1, <2>3, <2>4, <2>5 DEF Answered
<1> QED
  BY <1>3, <1>5, <1>6, <1>7, <1>8, <1>9, <1>10 DEF Inv

-----------------------------------------------------------------------------
(* The theorems.                                                           *)

(* The invariant holds at the start.                                       *)
LEMMA InitHolds == Init => TypeOK /\ Inv
<1> SUFFICES ASSUME Init PROVE TypeOK /\ Inv
  OBVIOUS
<1>1. TypeOK
  <2>1. up \in Seq({Hello} \cup Messages)
    BY DEF Init
  <2>2. <<>> \in Seq({Hello} \cup Messages) /\ <<>> \in Seq(Messages) /\ Len(<<>>) <= PendingLimit
    BY ChannelAssumption
  <2>3. 0 \in 0 .. MaxMessages
    BY ChannelAssumption
  <2> QED
    BY <2>1, <2>2, <2>3 DEF Init, TypeOK, Hello, Ready
<1>2. \A m \in Messages : ~In(m, up)
  BY Numbers DEF Init, Hello, In
<1>3. \A m : ~In(m, <<>>)
  BY InFacts
<1>4. \A m \in Nat \ {0} : ~In(m, up)
  BY <1>1, <1>2, Typed
<1>5. Places /\ Sides
  BY <1>2, <1>3 DEF Init, Places, Sides
<1>6. OnceAsked
  BY <1>2, <1>3 DEF Init, OnceAsked
<1>7. OneAfterTheOther
  BY <1>1, <1>4, Typed, OrderTrivial DEF Init, OneAfterTheOther
<1>8. Conserved
  BY Numbers DEF Init, Conserved
<1>9. Answered
  <2>1. Len(heard) = 0 /\ told = 0 /\ heard = <<>> /\ down = <<>> /\ client = "handshaking"
        /\ daemon = "waiting"
    BY DEF Init
  <2>2. Sorted(<<>>, {})
    BY DEF Sorted
  <2> QED
    BY <1>3, <2>1, <2>2 DEF Answered
<1> QED
  BY <1>1, <1>5, <1>6, <1>7, <1>8, <1>9 DEF Inv

(* Every step keeps the invariant.                                         *)
LEMMA NextKeeps == TypeOK /\ Inv /\ [Next]_vars => TypeOK' /\ Inv'
<1> SUFFICES ASSUME TypeOK, Inv, [Next]_vars PROVE TypeOK' /\ Inv'
  OBVIOUS
<1>1. CASE UNCHANGED vars
  BY <1>1 DEF vars, TypeOK, Inv, Places, Sides, OnceAsked, OneAfterTheOther, Conserved, Answered
<1>2. CASE Next
  BY <1>2, SendHelloKeeps, SendPendingKeeps, SendNowKeeps, FlushNextKeeps, ClientOpensKeeps,
     ClientReceivesKeeps, AttachKeeps, ReplaceKeeps, CloseKeeps, HandleHelloKeeps,
     InvalidHelloKeeps, BufferNextKeeps, DaemonOpensKeeps, SessionAttachedKeeps,
     DaemonReceivesKeeps, DaemonSendsKeeps
     DEF Next, ClientStep, DaemonStep
<1> QED
  BY <1>1, <1>2

LEMMA InvHolds == Spec => [](TypeOK /\ Inv)
BY InitHolds, NextKeeps, PTL DEF Spec

(* Types of the channel's state: pendingSends stays within its limit.      *)
THEOREM TypeCorrect == Spec => []TypeOK
BY InvHolds, PTL

(* The session gets the messages of a client in the order in which the     *)
(* application sent them, except that one sent while flushPendingSends is  *)
(* under way may overtake what is still to be flushed.                     *)
THEOREM OnlyFlushOvertakes == Spec => []OnlyFlushIsOvertaken
<1>1. TypeOK /\ Inv => OnlyFlushIsOvertaken
  <2> SUFFICES ASSUME TypeOK, Inv PROVE OnlyFlushIsOvertaken
    OBVIOUS
  <2>1. \A i \in 1 .. Len(delivered) : Sealed(delivered[i])
    BY Numbers DEF TypeOK, Sealed
  <2> QED
    BY <2>1 DEF Inv, OneAfterTheOther, Sorted, OnlyFlushIsOvertaken
<1> QED
  BY <1>1, InvHolds, PTL

(* A channel that has kept its data socket has lost nothing once           *)
(* everything has arrived: the session has every message that was not      *)
(* evicted from pendingSends, the client every message of the daemon, in   *)
(* order.                                                                  *)
THEOREM OpenChannelLosesNothing == Spec => []NothingLost
<1>1. TypeOK /\ Inv => NothingLost
  <2> SUFFICES ASSUME TypeOK, Inv, Settled, ~replaced
               PROVE  /\ ToSet(delivered) = (1 .. asked) \ evicted
                      /\ heard = [i \in 1 .. told |-> i]
    BY DEF NothingLost
  <2>1. /\ client = "open" /\ up = <<>> /\ down = <<>> /\ flushing = <<>>
        /\ pending = <<>> /\ buffered = <<>> /\ held = <<>>
    BY DEF Settled, Inv, Places, Sides
  <2>2. \A m : In(m, delivered) <=> m \in ToSet(delivered)
    BY DEF In, ToSet
  <2>3. \A m : ~In(m, <<>>)
    BY InFacts
  <2>4. ASSUME NEW m PROVE m \in ToSet(delivered) <=> m \in (1 .. asked) \ evicted
    <3>1. m \in ToSet(delivered) => m \in Messages
      BY DEF TypeOK, ToSet
    <3>2. m \in 1 .. asked <=> m \in Messages /\ m <= asked
      BY ChannelAssumption DEF TypeOK, Messages
    <3>3. m \in Messages => (In(m, delivered) <=> m <= asked /\ m \notin evicted)
      BY <2>1, <2>3 DEF Inv, OnceAsked, Conserved
    <3> QED
      BY <2>2, <3>1, <3>2, <3>3
  <2>5. heard = [i \in 1 .. told |-> i]
    <3>1. /\ Len(heard) <= told /\ \A i \in 1 .. Len(heard) : heard[i] = i
          /\ \A m \in (Len(heard) + 1) .. told : In(m, down)
      BY <2>1 DEF Inv, Answered
    <3>2. Len(heard) \in Nat /\ told \in Nat /\ heard \in Seq(Nat)
      BY Typed
    <3>3. Len(heard) = told
      <4>1. Len(heard) # told => Len(heard) + 1 \in (Len(heard) + 1) .. told
        BY <3>1, <3>2
      <4> QED
        BY <2>1, <2>3, <3>1, <4>1
    <3>4. heard = [i \in 1 .. Len(heard) |-> heard[i]]
      BY <3>2
    <3> QED
      BY <3>1, <3>3, <3>4
  <2> QED
    BY <2>4, <2>5
<1> QED
  BY <1>1, InvHolds, PTL
=============================================================================
