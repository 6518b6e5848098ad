------------------------- MODULE DirectoryLiveProofs -------------------------
(***************************************************************************)
(* Proofs about DirectoryLive, for any agents and any bounds: types, that  *)
(* the replica of a living agent goes backwards only where a page brought  *)
(* it forward, and that only what a live update's cursor passed over can   *)
(* be missing from it.                                                     *)
(***************************************************************************)
EXTENDS DirectoryLive, FiniteSetTheorems, WellFoundedInduction, TLAPS

Living == {a \in Agents : deletedBy[a] = "nobody"}
Message == Update \cup Deleted \cup Page \cup Failure \cup Answer

\* Message m is an update of agent a.
Tells(m, a) == m.type = "update" /\ m.agent = a
\* Message m is the answer to request r.
Answers(m, r) == m.type = "response" /\ m.request = r
\* The sequence number to which a message can move the cursor.
Reach(m) == IF m.type = "update" THEN m.seq ELSE IF m.type = "response" THEN m.headSeq ELSE 0
\* What the replica has of agent a when answer m is committed to old.
Leaves(m, a, old) ==
  IF a \in m.removals THEN 0
  ELSE IF m.mode = "changes" /\ m.values[a] = 0 THEN old ELSE m.values[a]

\* The queue of a living agent ends with its version; a job that runs is no removal.
Queues ==
  /\ \A a \in Agents : captured[a] # Idle => tail[a] # <<>> /\ tail[a][1] # 0
  /\ \A a \in Living :
       /\ \A i \in 1 .. Len(tail[a]) : tail[a][i] \in 1 .. version[a]
       /\ tail[a] # <<>> => tail[a][Len(tail[a])] = version[a]

\* Whatever is said of a living agent is a version that it has had, and carries a
\* sequence number that was given.
Known ==
  /\ \A a \in Living : view[a] <= version[a] /\ \A l \in listings : l.list[a] <= version[a]
  /\ cursor <= head /\ \A a \in Agents : seq[a] <= head
  /\ \A l \in listings : l.after <= cursor
  /\ \A i \in 1 .. Len(requests) : requests[i].after <= cursor

TrueUpdate == {u \in Update : u.seq <= head /\ (u.agent \in Living => u.ver \in 1 .. version[u.agent])}
TrueMessage ==
  {m \in Message :
     /\ m.type = "update" => m \in TrueUpdate
     /\ m.type = "deleted" => m.agent \notin Living
     /\ m.type = "page" => (m.agent \in Living => m.ver \in 1 .. version[m.agent])
     /\ m.type = "response" => m.headSeq <= head /\ \A a \in Living : m.values[a] <= version[a]}
Told == pending \in Seq(TrueUpdate) /\ deltas \in Seq(TrueUpdate) /\ wire \in Seq(TrueMessage)

\* Refreshes are served in the order of their numbers, and the last one decides
\* about the subscription.
Stages ==
  /\ transaction \in {0, fetches}
  /\ transaction # 0 \/ satisfied => connected
  /\ ~connected => requests = <<>> /\ wire = <<>>
  /\ subscription <= fetches /\ \A b \in bootstrapping : b <= fetches
  /\ \A l \in listings :
       /\ l.request \in bootstrapping
       /\ l.request = fetches => subscription = fetches
       /\ \A k \in listings : k.request = l.request => k = l
  /\ satisfied /\ transaction = 0 => requests = <<>> /\ subscription \notin bootstrapping
InOrder ==
  \A i \in 1 .. Len(requests) :
    /\ requests[i].request <= fetches /\ subscription < requests[i].request
    /\ \A b \in bootstrapping : b < requests[i].request
    /\ \A j \in 1 .. Len(requests) : j < i => requests[j].request < requests[i].request
Decided ==
  {m \in Message : m.type \in {"response", "error"} =>
     /\ m.request <= fetches
     /\ \A i \in 1 .. Len(requests) : m.request < requests[i].request
     /\ m.type = "response" /\ m.request = fetches =>
          subscription = fetches /\ fetches \notin bootstrapping
     /\ m.type = "error" /\ m.request = fetches => subscription = 0}
Served == Stages /\ InOrder /\ wire \in Seq(Decided)

\* While a refresh is under way the replica waits, at most as far as its answer.
Frozen ==
  /\ \A a \in Living \ paged, l \in listings : l.request = transaction => view[a] <= l.list[a]
  /\ \A a \in Living \ Exposed, i \in 1 .. Len(wire) :
       Answers(wire[i], transaction) => view[a] <= Leaves(wire[i], a, Carried(a))

\* The cursor and what is recorded and on the wire up to i are older than the
\* collection's entry of a.
Newer(a, i) ==
  /\ seq[a] > cursor
  /\ \A j \in 1 .. Len(deltas) : seq[a] > deltas[j].seq
  /\ \A j \in 1 .. i : seq[a] > Reach(wire[j])

\* What the cursor has passed is in the replica or skipped, and stays so with
\* every message on its way.
Passed == \A a \in Living \ skipped : seq[a] <= cursor => view[a] >= value[a]
\* An agent without a project that the cursor has passed is ahead of its entry,
\* and the answer of the refresh under way brings it, or a page did meanwhile.
Apart ==
  \A a \in (Living \ skipped) \cap unplaced :
    /\ seq[a] <= cursor => value[a] < view[a]
    /\ \A l \in listings : l.request = transaction /\ seq[a] <= l.after =>
         value[a] < l.list[a] \/ (value[a] = 0 /\ a \in paged)
Buffered ==
  \A i \in 1 .. Len(pending) : pending[i].agent \in Living =>
    \/ pending[i].ver >= value[pending[i].agent]
    \/ \A l \in listings : l.request = subscription => seq[pending[i].agent] > l.after
Sent ==
  \A a \in Living, i \in 1 .. Len(wire) :
    /\ Tells(wire[i], a) => wire[i].ver >= value[a] \/ Newer(a, i)
    /\ Answers(wire[i], transaction) =>
         a \in skipped \/ Leaves(wire[i], a, Carried(a)) >= value[a] \/ Newer(a, i)

\* An update that the session will still publish to the client.
Coming(a) ==
  tail[a] # <<>> /\ ~(Len(tail[a]) = 1 /\ captured[a] \notin {Idle, subscription})

\* The last update of a on the wire behind i, if there is one, tells its version.
LastTells(a, i) ==
  \A j \in 1 .. Len(wire) :
    j > i /\ Tells(wire[j], a) /\ (\A k \in 1 .. Len(wire) : k > j => ~Tells(wire[k], a)) =>
      wire[j].ver = version[a]
NoneTells(a, i) == \A j \in 1 .. Len(wire) : j > i => ~Tells(wire[j], a)

\* Where the newest version of a living agent is while the last refresh is
\* listing, answered, and done.
Listed(a) ==
  \A l \in listings : l.request = transaction =>
    /\ \A i \in 1 .. Len(pending) : pending[i].agent = a => pending[i].ver = version[a]
    /\ (\A i \in 1 .. Len(pending) : pending[i].agent # a) => l.list[a] = version[a]
Answered(a) ==
  \A i \in 1 .. Len(wire) : Answers(wire[i], transaction) =>
    /\ LastTells(a, i)
    /\ NoneTells(a, i) => Leaves(wire[i], a, Carried(a)) = version[a] \/ a \in skipped
Settled(a) ==
  satisfied /\ transaction = 0 /\ subscription # 0 =>
    /\ LastTells(a, 0)
    /\ NoneTells(a, 0) => view[a] = version[a] \/ a \in skipped
Placed(a) == Listed(a) /\ Answered(a) /\ Settled(a)
Covered == \A a \in Living : Coming(a) \/ Placed(a)

Inv == Queues /\ Known /\ Told /\ Served /\ Frozen /\ Passed /\ Apart /\ Buffered /\ Sent /\ Covered

-----------------------------------------------------------------------------
(* Induction, and what the loops compute.                                   *)

(* A set of natural numbers that is not empty has a least element.         *)
LEMMA LeastElement ==
  ASSUME NEW T \in SUBSET Nat, T # {}
  PROVE  \E m \in T : \A k \in T : m <= k
<1> DEFINE R == OpToRel(<, Nat)
<1>1. \E m \in T : \A k \in T : ~(<<k, m>> \in R)
  BY NatLessThanWellFounded, WFMin, Zenon
<1>2. \A m, k \in T : k < m => <<k, m>> \in R
  BY DEF OpToRel
<1> HIDE DEF R
<1>3. PICK m \in T : \A k \in T : ~(<<k, m>> \in R)
  BY <1>1
<1>4. \A k \in T : ~(k < m)
  BY <1>2, <1>3, Zenon
<1>5. \A k \in T : m <= k
  <2> TAKE k \in T
  <2>1. k \in Nat /\ m \in Nat /\ ~(k < m)
    BY <1>4
  <2> QED
    BY <2>1
<1> QED
  BY <1>5

(* Induction up to N, for a set instead of a predicate.                    *)
LEMMA InductionUpTo ==
  ASSUME NEW N \in Nat, NEW S,
         0 \in S, \A n \in 0 .. N : n \in S /\ n < N => n + 1 \in S
  PROVE  0 .. N \subseteq S
<1> DEFINE T == {n \in 0 .. N : n \notin S}
<1> SUFFICES ASSUME T # {} PROVE FALSE
  OBVIOUS
<1>1. T \in SUBSET Nat
  OBVIOUS
<1>2. PICK m \in T : \A k \in T : m <= k
  <2> HIDE DEF T
  <2> QED
    BY <1>1, LeastElement
<1>3. m # 0 /\ m - 1 \in 0 .. N
  BY <1>2
<1>4. m - 1 \in S
  BY <1>2, <1>3
<1> QED
  BY <1>2, <1>3, <1>4

\* A loop over 1 .. n that computes in X, and the record of its turns.
Loop(X, n) == [X \X (1 .. n) -> X]
Records(g, X, base, n, step) ==
  /\ g \in [0 .. n -> X]
  /\ \A i \in 0 .. n : g[i] = IF i = 0 THEN base ELSE step[<<g[i - 1], i>>]

(* Every loop has a record.                                                 *)
LEMMA LoopExists ==
  ASSUME NEW X, NEW base \in X, NEW n \in Nat, NEW step \in Loop(X, n)
  PROVE  \E g : Records(g, X, base, n, step)
<1> DEFINE P(m) == \E g \in [0 .. m -> X] :
                     \A i \in 0 .. m : g[i] = IF i = 0 THEN base ELSE step[<<g[i - 1], i>>]
           G == {m \in 0 .. n : P(m)}
<1>1. P(0)
  <2> DEFINE g == [i \in 0 .. 0 |-> base]
  <2>1. g \in [0 .. 0 -> X] /\ \A i \in 0 .. 0 : i = 0 /\ g[i] = base
    OBVIOUS
  <2> QED
    BY <2>1
<1>2. ASSUME NEW m \in 0 .. n, P(m), m < n
      PROVE  P(m + 1)
  <2>1. PICK g \in [0 .. m -> X] :
          \A i \in 0 .. m : g[i] = IF i = 0 THEN base ELSE step[<<g[i - 1], i>>]
    BY <1>2
  <2> DEFINE h == [i \in 0 .. m + 1 |-> IF i = m + 1 THEN step[<<g[m], m + 1>>] ELSE g[i]]
  <2>2. m \in 0 .. m /\ m + 1 \in 1 .. n
    BY <1>2
  <2>3. step[<<g[m], m + 1>>] \in X
    BY <2>2 DEF Loop
  <2>4. h \in [0 .. m + 1 -> X]
    BY <2>3
  <2>5. \A i \in 0 .. m + 1 : h[i] = IF i = 0 THEN base ELSE step[<<h[i - 1], i>>]
    <3> TAKE i \in 0 .. m + 1
    <3>1. CASE i = m + 1
      <4>1. i # 0 /\ i - 1 = m /\ m \in 0 .. m + 1 /\ m # m + 1
        BY <3>1
      <4>2. h[i] = step[<<g[m], i>>] /\ h[m] = g[m]
        BY <3>1, <4>1
      <4> QED
        BY <4>1, <4>2
    <3>2. CASE i # m + 1
      <4>1. i \in 0 .. m /\ (i = 0 \/ i - 1 \in 0 .. m)
        BY <3>2
      <4>2. h[i] = g[i] /\ (i = 0 \/ h[i - 1] = g[i - 1])
        BY <4>1
      <4> HIDE DEF h
      <4> QED
        BY <2>1, <4>1, <4>2
    <3> QED
      BY <3>1, <3>2
  <2> QED
    BY <2>4, <2>5
<1>3. 0 \in G /\ \A m \in 0 .. n : m \in G /\ m < n => m + 1 \in G
  <2> HIDE DEF P
  <2> QED
    BY <1>1, <1>2
<1>4. n \in G
  <2> HIDE DEF G
  <2>1. 0 .. n \subseteq G
    BY <1>3, InductionUpTo
  <2> QED
    BY <2>1
<1> QED
  BY <1>4 DEF Records

(* The update comes through flushBootstrapped.                              *)
Passes(u, resp) == u.ver = 0 \/ u.ver >= resp.values[u.agent]

(* The flush keeps the updates that pass and adds none.                     *)
LEMMA FlushedKeeps ==
  ASSUME NEW resp, pending \in Seq(Update)
  PROVE  /\ Flushed(resp) \in Seq(Update)
         /\ \A k \in 1 .. Len(Flushed(resp)) : \E i \in 1 .. Len(pending) :
              Flushed(resp)[k] = pending[i] /\ Passes(pending[i], resp)
         /\ \A i \in 1 .. Len(pending) : Passes(pending[i], resp) =>
              \E k \in 1 .. Len(Flushed(resp)) : Flushed(resp)[k] = pending[i]
<1> DEFINE n == Len(pending)
           T(r, i) == IF Passes(pending[i], resp) THEN Append(r, pending[i]) ELSE r
           step == [p \in Seq(Update) \X (1 .. n) |-> T(p[1], p[2])]
           Turn(g) == [i \in 0 .. n |-> IF i = 0 THEN <<>> ELSE T(g[i - 1], i)]
<1>0. n \in Nat /\ \A i \in 1 .. n : pending[i] \in Update
  OBVIOUS
<1>1. <<>> \in Seq(Update) /\ step \in Loop(Seq(Update), n)
  BY <1>0 DEF Loop
<1>2. PICK g0 : /\ g0 \in [0 .. n -> Seq(Update)]
                /\ \A i \in 0 .. n : g0[i] = IF i = 0 THEN <<>> ELSE step[<<g0[i - 1], i>>]
  <2> HIDE DEF step, n
  <2>1. \E g0 : Records(g0, Seq(Update), <<>>, n, step)
    BY <1>0, <1>1, LoopExists
  <2> QED
    BY <2>1 DEF Records
<1>3. g0 = Turn(g0)
  <2>1. ASSUME NEW i \in 0 .. n PROVE g0[i] = IF i = 0 THEN <<>> ELSE T(g0[i - 1], i)
    <3>1. CASE i = 0
      BY <1>2, <3>1
    <3>2. CASE i # 0
      <4>1. i - 1 \in 0 .. n /\ i \in 1 .. n
        BY <1>0, <3>2
      <4>2. <<g0[i - 1], i>> \in Seq(Update) \X (1 .. n)
        BY <1>2, <4>1
      <4>3. step[<<g0[i - 1], i>>] = T(g0[i - 1], i)
        BY <4>2
      <4> HIDE DEF step, T
      <4> QED
        BY <1>2, <3>2, <4>3
    <3> QED
      BY <3>1, <3>2
  <2> HIDE DEF T, step
  <2> QED
    BY <1>2, <2>1
<1>4. PICK g : g = Turn(g) /\ Flushed(resp) = g[n]
  BY <1>3 DEF Flushed, Passes
<1> DEFINE Kept(r, m) ==
             /\ r \in Seq(Update)
             /\ \A k \in 1 .. Len(r) : \E i \in 1 .. m : r[k] = pending[i] /\ Passes(pending[i], resp)
             /\ \A i \in 1 .. m : Passes(pending[i], resp) => \E k \in 1 .. Len(r) : r[k] = pending[i]
           G == {m \in 0 .. n : Kept(g[m], m)}
<1>5. 0 \in G
  <2>1. g[0] = <<>>
    BY <1>0, <1>4
  <2>2. Kept(<<>>, 0)
    OBVIOUS
  <2> HIDE DEF Kept
  <2> QED
    BY <1>0, <2>1, <2>2
<1>6. ASSUME NEW m \in 0 .. n, Kept(g[m], m), m < n PROVE Kept(g[m + 1], m + 1)
  <2> DEFINE r == g[m]
             u == pending[m + 1]
  <2>1. m + 1 \in 0 .. n /\ m + 1 # 0 /\ (m + 1) - 1 = m /\ m + 1 \in 1 .. n /\ m \in Nat
    BY <1>0, <1>6
  <2>2. g[m + 1] = T(r, m + 1)
    <3> HIDE DEF T
    <3> QED
      BY <1>4, <2>1
  <2>3. u \in Update
    BY <1>0, <2>1
  <2>a. /\ r \in Seq(Update)
        /\ \A k \in 1 .. Len(r) : \E i \in 1 .. m : r[k] = pending[i] /\ Passes(pending[i], resp)
        /\ \A i \in 1 .. m : Passes(pending[i], resp) => \E k \in 1 .. Len(r) : r[k] = pending[i]
    BY <1>6
  <2>4. CASE ~Passes(u, resp)
    <3>1. g[m + 1] = r
      BY <2>2, <2>4
    <3> HIDE DEF r
    <3>2. \A i \in 1 .. m + 1 : i \in 1 .. m \/ i = m + 1
      BY <2>1
    <3>3. \A i \in 1 .. m : i \in 1 .. m + 1
      BY <2>1
    <3> QED
      BY <2>4, <2>a, <3>1, <3>2, <3>3
  <2>5. CASE Passes(u, resp)
    <3> DEFINE t == Append(r, u)
    <3>1. g[m + 1] = t
      BY <2>2, <2>5
    <3>2. /\ t \in Seq(Update) /\ Len(t) = Len(r) + 1 /\ t[Len(r) + 1] = u /\ Len(r) \in Nat
          /\ \A k \in 1 .. Len(r) : t[k] = r[k]
      BY <2>3, <2>a
    <3> HIDE DEF r, t, u
    <3>3. \A i \in 1 .. m + 1 : i \in 1 .. m \/ i = m + 1
      BY <2>1
    <3>4. \A k \in 1 .. Len(t) : k \in 1 .. Len(r) \/ k = Len(r) + 1
      BY <3>2
    <3>5. \A k \in 1 .. Len(r) : k \in 1 .. Len(t)
      BY <3>2
    <3>6. Len(r) + 1 \in 1 .. Len(t) /\ m + 1 \in 1 .. m + 1 /\ \A i \in 1 .. m : i \in 1 .. m + 1
      BY <2>1, <3>2
    <3>7. ASSUME NEW k \in 1 .. Len(t)
          PROVE  \E i \in 1 .. m + 1 : t[k] = pending[i] /\ Passes(pending[i], resp)
      <4>1. CASE k = Len(r) + 1
        BY <2>5, <3>2, <3>6, <4>1 DEF u
      <4>2. CASE k \in 1 .. Len(r)
        BY <2>a, <3>2, <3>6, <4>2
      <4> QED
        BY <3>4, <4>1, <4>2
    <3>8. ASSUME NEW i \in 1 .. m + 1, Passes(pending[i], resp)
          PROVE  \E k \in 1 .. Len(t) : t[k] = pending[i]
      <4>1. CASE i = m + 1
        BY <3>2, <3>6, <4>1 DEF u
      <4>2. CASE i \in 1 .. m
        BY <2>a, <3>2, <3>5, <3>8, <4>2
      <4> QED
        BY <3>3, <4>1, <4>2
    <3> QED
      BY <3>1, <3>2, <3>7, <3>8
  <2> QED
    BY <2>4, <2>5
<1>7. n \in G
  <2>1. \A m \in 0 .. n : m \in G /\ m < n => m + 1 \in G
    <3> HIDE DEF Kept
    <3> QED
      BY <1>0, <1>6
  <2> HIDE DEF G
  <2>2. 0 .. n \subseteq G
    BY <1>0, <1>5, <2>1, InductionUpTo
  <2> QED
    BY <1>0, <2>2
<1>8. Kept(Flushed(resp), n)
  <2> HIDE DEF Kept
  <2> QED
    BY <1>4, <1>7
<1> QED
  BY <1>8

(* Applying updates: an agent that none of them removes never goes back, and *)
(* it goes no further than the updates.                                     *)
LEMMA AcceptAllBounds ==
  ASSUME NEW content \in Content, NEW updates \in Seq(Update)
  PROVE  /\ AcceptAll(content, updates) \in Content
         /\ \A a \in Agents :
              (\A i \in 1 .. Len(updates) : updates[i].agent = a => updates[i].ver # 0)
                => AcceptAll(content, updates)[a] >= content[a]
         /\ \A a \in Agents, N \in Versions :
              content[a] <= N
                /\ (\A i \in 1 .. Len(updates) : updates[i].agent = a => updates[i].ver <= N)
                => AcceptAll(content, updates)[a] <= N
<1> DEFINE n == Len(updates)
           T(c, i) == Accept(c, updates[i])
           step == [p \in Content \X (1 .. n) |-> T(p[1], p[2])]
           Turn(g) == [i \in 0 .. n |-> IF i = 0 THEN content ELSE T(g[i - 1], i)]
<1>0. n \in Nat /\ \A i \in 1 .. n : updates[i] \in Update
  OBVIOUS
<1>a. ASSUME NEW c \in Content, NEW u \in Update
      PROVE  /\ Accept(c, u) \in Content
             /\ \A a \in Agents : Accept(c, u)[a] =
                  IF a = u.agent /\ (u.ver = 0 \/ u.ver >= c[a]) THEN u.ver ELSE c[a]
  BY DEF Accept, Content, Update
<1>1. step \in Loop(Content, n)
  <2>1. \A p \in Content \X (1 .. n) : T(p[1], p[2]) \in Content
    BY <1>0, <1>a
  <2> HIDE DEF T
  <2> QED
    BY <2>1 DEF Loop
<1>2. PICK g0 : /\ g0 \in [0 .. n -> Content]
                /\ \A i \in 0 .. n : g0[i] = IF i = 0 THEN content ELSE step[<<g0[i - 1], i>>]
  <2> HIDE DEF step, n
  <2>1. \E g0 : Records(g0, Content, content, n, step)
    BY <1>0, <1>1, LoopExists
  <2> QED
    BY <2>1 DEF Records
<1>3. g0 = Turn(g0)
  <2>1. ASSUME NEW i \in 0 .. n PROVE g0[i] = IF i = 0 THEN content ELSE T(g0[i - 1], i)
    <3>1. CASE i = 0
      BY <1>2, <3>1
    <3>2. CASE i # 0
      <4>1. i - 1 \in 0 .. n /\ i \in 1 .. n
        BY <1>0, <3>2
      <4>2. <<g0[i - 1], i>> \in Content \X (1 .. n)
        BY <1>2, <4>1
      <4> HIDE DEF T
      <4>3. step[<<g0[i - 1], i>>] = T(g0[i - 1], i)
        BY <4>2
      <4> HIDE DEF step
      <4> QED
        BY <1>2, <3>2, <4>3
    <3> QED
      BY <3>1, <3>2
  <2> HIDE DEF T, step
  <2> QED
    BY <1>2, <2>1
<1>4. PICK g : g = Turn(g) /\ AcceptAll(content, updates) = g[n]
  BY <1>3 DEF AcceptAll
<1> DEFINE Bounded(c, m) ==
             /\ c \in Content
             /\ \A a \in Agents :
                  (\A i \in 1 .. m : updates[i].agent = a => updates[i].ver # 0)
                    => c[a] >= content[a]
             /\ \A a \in Agents, N \in Versions :
                  content[a] <= N /\ (\A i \in 1 .. m : updates[i].agent = a => updates[i].ver <= N)
                    => c[a] <= N
           G == {m \in 0 .. n : Bounded(g[m], m)}
<1>5. 0 \in G
  <2>1. g[0] = content
    BY <1>0, <1>4
  <2>2. Bounded(content, 0)
    BY BoundsAssumption DEF Content, Versions
  <2> HIDE DEF Bounded
  <2> QED
    BY <1>0, <2>1, <2>2
<1>6. ASSUME NEW m \in 0 .. n, Bounded(g[m], m), m < n PROVE Bounded(g[m + 1], m + 1)
  <2> DEFINE c == g[m]
             u == updates[m + 1]
  <2>1. m + 1 \in 0 .. n /\ m + 1 # 0 /\ (m + 1) - 1 = m /\ m + 1 \in 1 .. n /\ m \in Nat
    BY <1>0, <1>6
  <2>2. g[m + 1] = Accept(c, u)
    <3> HIDE DEF T
    <3>1. g[m + 1] = T(c, m + 1)
      BY <1>4, <2>1
    <3> QED
      BY <3>1 DEF T
  <2>3. u \in Update
    BY <1>0, <2>1
  <2>4. c \in Content
    BY <1>6
  <2>5. /\ g[m + 1] \in Content
        /\ \A a \in Agents : g[m + 1][a] =
             IF a = u.agent /\ (u.ver = 0 \/ u.ver >= c[a]) THEN u.ver ELSE c[a]
    <3> HIDE DEF c, u
    <3>1. /\ Accept(c, u) \in Content
          /\ \A a \in Agents : Accept(c, u)[a] =
               IF a = u.agent /\ (u.ver = 0 \/ u.ver >= c[a]) THEN u.ver ELSE c[a]
      BY <1>a, <2>3, <2>4
    <3> QED
      BY <2>2, <3>1
  <2>6. m + 1 \in 1 .. m + 1 /\ \A i \in 1 .. m : i \in 1 .. m + 1
    BY <2>1
  <2>7. ASSUME NEW a \in Agents,
               \A i \in 1 .. m + 1 : updates[i].agent = a => updates[i].ver # 0
        PROVE  g[m + 1][a] >= content[a]
    <3>1. c[a] >= content[a]
      BY <1>6, <2>6, <2>7
    <3>2. u.agent = a => u.ver # 0
      BY <2>6, <2>7
    <3>3. c[a] \in Nat /\ u.ver \in Nat /\ content[a] \in Nat
      BY <2>3, <2>4, BoundsAssumption DEF Content, Versions, Update
    <3> HIDE DEF u, c
    <3> QED
      BY <2>5, <3>1, <3>2, <3>3
  <2>8. ASSUME NEW a \in Agents, NEW N \in Versions, content[a] <= N,
               \A i \in 1 .. m + 1 : updates[i].agent = a => updates[i].ver <= N
        PROVE  g[m + 1][a] <= N
    <3>1. c[a] <= N
      BY <1>6, <2>6, <2>8
    <3>2. u.agent = a => u.ver <= N
      BY <2>6, <2>8
    <3> HIDE DEF u, c
    <3> QED
      BY <2>5, <3>1, <3>2
  <2> QED
    BY <2>5, <2>7, <2>8
<1>7. n \in G
  <2>1. \A m \in 0 .. n : m \in G /\ m < n => m + 1 \in G
    <3> HIDE DEF Bounded
    <3> QED
      BY <1>0, <1>6
  <2> HIDE DEF G
  <2>2. 0 .. n \subseteq G
    BY <1>0, <1>5, <2>1, InductionUpTo
  <2> QED
    BY <1>0, <2>2
<1>8. Bounded(AcceptAll(content, updates), n)
  <2> HIDE DEF Bounded
  <2> QED
    BY <1>4, <1>7
<1> QED
  BY <1>8

(* The cursor moves forwards, and no further than the updates.              *)
LEMMA NoteLiveCursorsBounds ==
  ASSUME NEW cur \in 0 .. MaxHead, NEW updates \in Seq(Update)
  PROVE  /\ NoteLiveCursors(cur, updates) \in 0 .. MaxHead
         /\ NoteLiveCursors(cur, updates) >= cur
         /\ \A N \in Int : cur <= N /\ (\A i \in 1 .. Len(updates) : updates[i].seq <= N)
              => NoteLiveCursors(cur, updates) <= N
<1> DEFINE n == Len(updates)
           X == 0 .. MaxHead
           T(c, i) == Larger(c, updates[i].seq)
           step == [p \in X \X (1 .. n) |-> T(p[1], p[2])]
           Turn(g) == [i \in 0 .. n |-> IF i = 0 THEN cur ELSE T(g[i - 1], i)]
<1>0. n \in Nat /\ \A i \in 1 .. n : updates[i] \in Update /\ updates[i].seq \in X
  <2>1. n \in Nat /\ \A i \in 1 .. n : updates[i] \in Update
    OBVIOUS
  <2>2. \A u \in Update : u.seq \in X
    BY DEF Update
  <2> QED
    BY <2>1, <2>2
<1>1. step \in Loop(X, n)
  <2>1. \A p \in X \X (1 .. n) : T(p[1], p[2]) \in X
    BY <1>0 DEF Larger
  <2> HIDE DEF T, X
  <2> QED
    BY <2>1 DEF Loop
<1>2. PICK g0 : /\ g0 \in [0 .. n -> X]
                /\ \A i \in 0 .. n : g0[i] = IF i = 0 THEN cur ELSE step[<<g0[i - 1], i>>]
  <2>0. cur \in X
    OBVIOUS
  <2> HIDE DEF step, n, X
  <2>1. \E g0 : Records(g0, X, cur, n, step)
    BY <1>0, <1>1, <2>0, LoopExists
  <2> QED
    BY <2>1 DEF Records
<1>3. g0 = Turn(g0)
  <2>1. ASSUME NEW i \in 0 .. n PROVE g0[i] = IF i = 0 THEN cur ELSE T(g0[i - 1], i)
    <3>1. CASE i = 0
      BY <1>2, <3>1
    <3>2. CASE i # 0
      <4>1. i - 1 \in 0 .. n /\ i \in 1 .. n
        BY <1>0, <3>2
      <4> HIDE DEF X
      <4>2. <<g0[i - 1], i>> \in X \X (1 .. n)
        BY <1>2, <4>1
      <4> HIDE DEF T
      <4>3. step[<<g0[i - 1], i>>] = T(g0[i - 1], i)
        BY <4>2
      <4> HIDE DEF step
      <4> QED
        BY <1>2, <3>2, <4>3
    <3> QED
      BY <3>1, <3>2
  <2> HIDE DEF T, step, X
  <2> QED
    BY <1>2, <2>1
<1>4. PICK g : g = Turn(g) /\ NoteLiveCursors(cur, updates) = g[n]
  BY <1>3 DEF NoteLiveCursors
<1> DEFINE Bounded(c, m) ==
             /\ c \in X /\ c >= cur
             /\ \A N \in Int : cur <= N /\ (\A i \in 1 .. m : updates[i].seq <= N) => c <= N
           G == {m \in 0 .. n : Bounded(g[m], m)}
<1>5. 0 \in G
  <2>1. g[0] = cur
    BY <1>0, <1>4
  <2>2. Bounded(cur, 0)
    OBVIOUS
  <2> HIDE DEF Bounded
  <2> QED
    BY <1>0, <2>1, <2>2
<1>6. ASSUME NEW m \in 0 .. n, Bounded(g[m], m), m < n PROVE Bounded(g[m + 1], m + 1)
  <2> DEFINE c == g[m]
             s == updates[m + 1].seq
  <2>1. m + 1 \in 0 .. n /\ m + 1 # 0 /\ (m + 1) - 1 = m /\ m + 1 \in 1 .. n /\ m \in Nat
    BY <1>0, <1>6
  <2>2. g[m + 1] = Larger(c, s)
    <3> HIDE DEF T
    <3>1. g[m + 1] = T(c, m + 1)
      BY <1>4, <2>1
    <3> QED
      BY <3>1 DEF T
  <2>3. s \in X /\ c \in X /\ c >= cur
    BY <1>0, <1>6, <2>1
  <2>4. m + 1 \in 1 .. m + 1 /\ \A i \in 1 .. m : i \in 1 .. m + 1
    BY <2>1
  <2>5. ASSUME NEW N \in Int, cur <= N, \A i \in 1 .. m + 1 : updates[i].seq <= N
        PROVE  c <= N /\ s <= N
    BY <1>6, <2>4, <2>5
  <2> HIDE DEF c, s
  <2>6. g[m + 1] \in X /\ g[m + 1] >= cur
    BY <2>2, <2>3 DEF Larger
  <2>7. ASSUME NEW N \in Int, cur <= N, \A i \in 1 .. m + 1 : updates[i].seq <= N
        PROVE  g[m + 1] <= N
    BY <2>2, <2>5, <2>7 DEF Larger
  <2> QED
    BY <2>6, <2>7
<1>7. n \in G
  <2>1. \A m \in 0 .. n : m \in G /\ m < n => m + 1 \in G
    <3> HIDE DEF Bounded
    <3> QED
      BY <1>0, <1>6
  <2> HIDE DEF G
  <2>2. 0 .. n \subseteq G
    BY <1>0, <1>5, <2>1, InductionUpTo
  <2> QED
    BY <1>0, <2>2
<1>8. Bounded(NoteLiveCursors(cur, updates), n)
  <2> HIDE DEF Bounded
  <2> QED
    BY <1>4, <1>7
<1> QED
  BY <1>8

-----------------------------------------------------------------------------
(* Messages and the wire.                                                   *)

(* The kinds of messages.                                                   *)
LEMMA MessageKinds ==
  /\ \A m \in Message :
       /\ m.type \in {"update", "deleted", "page", "error", "response"}
       /\ m.type = "update" => m \in Update
       /\ m.type = "deleted" => m \in Deleted
       /\ m.type = "page" => m \in Page
       /\ m.type = "error" => m \in Failure
       /\ m.type = "response" => m \in Answer
  /\ \A m \in Update : m.type = "update" /\ m \in Message
  /\ \A m \in Deleted : m.type = "deleted" /\ m \in Message
  /\ \A m \in Page : m.type = "page" /\ m \in Message
  /\ \A m \in Failure : m.type = "error" /\ m \in Message
  /\ \A m \in Answer : m.type = "response" /\ m \in Message
BY DEF Message, Update, Deleted, Page, Failure, Answer

(* Their fields.                                                            *)
LEMMA MessageFields ==
  /\ \A m \in Update : m.agent \in Agents /\ m.ver \in Versions /\ m.seq \in 0 .. MaxHead
  /\ \A m \in Deleted : m.agent \in Agents
  /\ \A m \in Page : m.agent \in Agents /\ m.ver \in Versions
  /\ \A m \in Failure : m.request \in Requests
  /\ \A m \in Answer :
       /\ m.request \in Requests /\ m.mode \in {"snapshot", "changes"} /\ m.values \in Content
       /\ m.removals \in SUBSET Agents /\ m.headSeq \in 0 .. MaxHead
BY DEF Update, Deleted, Page, Failure, Answer

(* Sending appends to the wire, or does nothing when there is no socket.    *)
LEMMA EmitFacts ==
  ASSUME wire \in Seq(Message), NEW ms \in Seq(Message), Emit(ms)
  PROVE  /\ wire' \in Seq(Message)
         /\ Len(wire) \in Nat /\ Len(wire') \in Nat /\ Len(wire) <= Len(wire')
         /\ \A i \in 1 .. Len(wire) : i \in 1 .. Len(wire') /\ wire'[i] = wire[i]
         /\ \A i \in 1 .. Len(wire') :
              \/ i \in 1 .. Len(wire)
              \/ connected /\ i - Len(wire) \in 1 .. Len(ms) /\ wire'[i] = ms[i - Len(wire)]
         /\ connected => \A k \in 1 .. Len(ms) :
              Len(wire) + k \in 1 .. Len(wire') /\ wire'[Len(wire) + k] = ms[k]
<1>1. Len(wire) \in Nat /\ Len(ms) \in Nat
  OBVIOUS
<1>2. CASE ~connected
  <2>1. wire' = wire
    BY <1>2 DEF Emit
  <2> QED
    BY <1>1, <1>2, <2>1
<1>3. CASE connected
  <2>1. wire' = wire \o ms
    BY <1>3 DEF Emit
  <2>2. wire' \in Seq(Message) /\ Len(wire') = Len(wire) + Len(ms)
    BY <2>1
  <2>3. \A i \in 1 .. Len(wire) + Len(ms) :
          wire'[i] = IF i <= Len(wire) THEN wire[i] ELSE ms[i - Len(wire)]
    BY <2>1
  <2>4. ASSUME NEW i \in 1 .. Len(wire) PROVE i \in 1 .. Len(wire') /\ wire'[i] = wire[i]
    BY <1>1, <2>2, <2>3
  <2>5. ASSUME NEW i \in 1 .. Len(wire'), i \notin 1 .. Len(wire)
        PROVE  i - Len(wire) \in 1 .. Len(ms) /\ wire'[i] = ms[i - Len(wire)]
    BY <1>1, <2>2, <2>3, <2>5
  <2>6. ASSUME NEW k \in 1 .. Len(ms)
        PROVE  Len(wire) + k \in 1 .. Len(wire') /\ wire'[Len(wire) + k] = ms[k]
    <3>1. Len(wire) + k \in 1 .. Len(wire) + Len(ms) /\ ~(Len(wire) + k <= Len(wire))
          /\ (Len(wire) + k) - Len(wire) = k
      BY <1>1
    <3> QED
      BY <2>2, <2>3, <3>1
  <2> QED
    BY <1>1, <1>3, <2>2, <2>4, <2>5, <2>6
<1> QED
  BY <1>2, <1>3

(* Receiving takes the oldest message.                                      *)
LEMMA TailFacts ==
  ASSUME NEW S, NEW s \in Seq(S), s # <<>>
  PROVE  /\ Head(s) = s[1] /\ Head(s) \in S /\ 1 \in 1 .. Len(s)
         /\ Tail(s) \in Seq(S) /\ Len(Tail(s)) = Len(s) - 1
         /\ \A i \in 1 .. Len(Tail(s)) : i + 1 \in 1 .. Len(s) /\ Tail(s)[i] = s[i + 1]
<1>1. Len(s) \in Nat /\ Len(s) # 0
  OBVIOUS
<1>2. Tail(s) \in Seq(S) /\ Len(Tail(s)) = Len(s) - 1 /\ Head(s) = s[1]
  OBVIOUS
<1>3. \A i \in 1 .. Len(s) - 1 : Tail(s)[i] = s[i + 1]
  OBVIOUS
<1>4. 1 \in 1 .. Len(s) /\ \A i \in 1 .. Len(s) - 1 : i + 1 \in 1 .. Len(s)
  BY <1>1
<1> QED
  BY <1>1, <1>2, <1>3, <1>4

(* An element of a sequence.                                                *)
LEMMA ElementOf ==
  ASSUME NEW S, NEW s \in Seq(S), NEW i \in 1 .. Len(s)
  PROVE  s[i] \in S
OBVIOUS

\* Buffer b is buffer p with update u in the place of the earlier ones of its agent.
Replaces(b, p, u) ==
  /\ \A i \in 1 .. Len(b) :
       b[i] = u \/ (b[i].agent # u.agent /\ \E j \in 1 .. Len(p) : b[i] = p[j])
  /\ \A j \in 1 .. Len(p) : p[j].agent # u.agent => \E i \in 1 .. Len(b) : b[i] = p[j]
  /\ \E i \in 1 .. Len(b) : b[i] = u

(* Buffering an update replaces the earlier ones of its agent.              *)
LEMMA BufferFacts ==
  ASSUME NEW p \in Seq(Update), NEW u \in Update
  PROVE  Buffer(p, u) \in Seq(Update) /\ Replaces(Buffer(p, u), p, u)
<1> DEFINE n == Len(p)
           b == Buffer(p, u)
<1>0. n \in Nat /\ DOMAIN p = 1 .. n /\ \A i \in 1 .. n : p[i] \in Update
  OBVIOUS
<1> SUFFICES b \in Seq(Update) /\ Replaces(b, p, u)
  OBVIOUS
<1>1. CASE \E i \in DOMAIN p : p[i].agent = u.agent
  <2>1. b = [i \in 1 .. n |-> IF p[i].agent = u.agent THEN u ELSE p[i]]
    BY <1>0, <1>1 DEF Buffer
  <2> HIDE DEF b
  <2>2. \A i \in 1 .. n : b[i] = IF p[i].agent = u.agent THEN u ELSE p[i]
    BY <2>1
  <2>3. b \in [1 .. n -> Update]
    BY <1>0, <2>1
  <2>4. b \in Seq(Update) /\ Len(b) = n
    BY <1>0, <2>3
  <2> HIDE DEF n
  <2>5. PICK i \in 1 .. n : p[i].agent = u.agent
    BY <1>0, <1>1
  <2>6. Len(p) = n
    BY DEF n
  <2> QED
    BY <2>2, <2>4, <2>5, <2>6 DEF Replaces
<1>2. CASE ~\E i \in DOMAIN p : p[i].agent = u.agent
  <2>1. b = Append(p, u)
    BY <1>0, <1>2 DEF Buffer
  <2> HIDE DEF b
  <2>2. /\ b \in Seq(Update) /\ Len(b) = n + 1 /\ b[n + 1] = u
        /\ \A i \in 1 .. n : b[i] = p[i]
    BY <2>1
  <2>3. \A i \in 1 .. n : p[i].agent # u.agent
    BY <1>0, <1>2
  <2>4. /\ \A i \in 1 .. n + 1 : i \in 1 .. n \/ i = n + 1
        /\ n + 1 \in 1 .. n + 1 /\ \A i \in 1 .. n : i \in 1 .. n + 1
    BY <1>0
  <2>5. Len(p) = n
    OBVIOUS
  <2> HIDE DEF n
  <2>6. \A i \in 1 .. Len(b) : b[i] = u \/ (b[i].agent # u.agent /\ \E j \in 1 .. n : b[i] = p[j])
    BY <2>2, <2>3, <2>4
  <2> QED
    BY <2>2, <2>4, <2>5, <2>6 DEF Replaces
<1> QED
  BY <1>1, <1>2

-----------------------------------------------------------------------------
(* The collection.                                                          *)

\* An entry of the collection either stays or gets a sequence number that was
\* not given before.
Moves ==
  /\ head' \in 0 .. MaxHead /\ head <= head'
  /\ \A a \in Agents :
       \/ value'[a] = value[a] /\ seq'[a] = seq[a]
       \/ seq'[a] \in (head + 1) .. head'

(* Sequencing one agent.                                                    *)
LEMMA SequenceMoves ==
  ASSUME TypeOK, NEW a \in Agents, NEW v \in Versions, Sequence(a, v)
  PROVE  /\ Moves /\ value' \in Content /\ seq' \in [Agents -> 0 .. MaxHead]
         /\ value'[a] = v
<1>0. /\ value \in Content /\ seq \in [Agents -> 0 .. MaxHead] /\ head \in 0 .. MaxHead
      /\ MaxHead \in Nat
  BY BoundsAssumption DEF TypeOK
<1>1. CASE value[a] = v
  BY <1>0, <1>1 DEF Sequence, Moves
<1>2. CASE value[a] # v
  <2>1. /\ head < MaxHead /\ head' = head + 1
        /\ value' = [value EXCEPT ![a] = v] /\ seq' = [seq EXCEPT ![a] = head + 1]
    BY <1>2 DEF Sequence
  <2>2. head' \in 0 .. MaxHead /\ head <= head' /\ head + 1 \in (head + 1) .. head'
        /\ head + 1 \in 0 .. MaxHead
    BY <1>0, <2>1
  <2>3. value' \in Content /\ seq' \in [Agents -> 0 .. MaxHead]
    BY <1>0, <2>1, <2>2 DEF Content
  <2>4. \A b \in Agents : IF b = a THEN value'[b] = v /\ seq'[b] = head + 1
                          ELSE value'[b] = value[b] /\ seq'[b] = seq[b]
    BY <1>0, <2>1 DEF Content
  <2> QED
    BY <2>2, <2>3, <2>4 DEF Moves
<1> QED
  BY <1>1, <1>2

(* Absorbing a listing.                                                     *)
LEMMA AbsorbMoves ==
  ASSUME TypeOK, NEW list \in Content, NEW order \in Orders(list), AbsorbListing(list, order)
  PROVE  /\ Moves /\ value' = list /\ seq' \in [Agents -> 0 .. MaxHead]
         /\ \A a \in Agents : list[a] # value[a] => seq'[a] > head
<1>0. /\ value \in Content /\ seq \in [Agents -> 0 .. MaxHead] /\ head \in 0 .. MaxHead
      /\ MaxHead \in Nat
  BY BoundsAssumption DEF TypeOK
<1> DEFINE n == Cardinality(Touched(list))
<1>1. n \in Nat
  <2>1. IsFiniteSet(Touched(list))
    BY FS_Subset, BoundsAssumption DEF Touched
  <2> QED
    BY <2>1, FS_CardinalityType
<1>2. /\ head' = head + n /\ head + n <= MaxHead /\ value' = list
      /\ seq' = [a \in Agents |-> IF a \in Touched(list) THEN order[a] ELSE seq[a]]
  BY DEF AbsorbListing
<1>3. order \in [Touched(list) -> (head + 1) .. (head + n)]
  BY DEF Orders
<1> HIDE DEF n
<1>4. head' \in 0 .. MaxHead /\ head <= head'
  BY <1>0, <1>1, <1>2
<1>5. ASSUME NEW a \in Agents, a \in Touched(list)
      PROVE  seq'[a] \in (head + 1) .. head' /\ seq'[a] \in 0 .. MaxHead /\ seq'[a] > head
  <2>1. seq'[a] = order[a] /\ order[a] \in (head + 1) .. (head + n)
    BY <1>2, <1>3, <1>5
  <2> QED
    BY <1>0, <1>1, <1>2, <2>1
<1>6. ASSUME NEW a \in Agents, a \notin Touched(list)
      PROVE  value'[a] = value[a] /\ seq'[a] = seq[a]
  BY <1>2, <1>6 DEF Touched
<1>7. \A a \in Agents : list[a] # value[a] => a \in Touched(list)
  BY DEF Touched
<1>8. seq' \in [Agents -> 0 .. MaxHead]
  <2>1. \A a \in Agents : seq'[a] \in 0 .. MaxHead
    BY <1>0, <1>5, <1>6
  <2> QED
    BY <1>2, <2>1
<1> QED
  BY <1>2, <1>4, <1>5, <1>6, <1>7, <1>8 DEF Moves

\* The update that a job publishes.
Published(a, v) == [type |-> "update", agent |-> a, ver |-> v, seq |-> seq'[a]]

(* Publishing: to nobody, into the buffer, into a buffer that is never      *)
(* flushed, or onto the wire.                                               *)
LEMMA PublishCases ==
  ASSUME TypeOK, NEW sub \in {0} \cup Requests, NEW a \in Agents, NEW v \in Versions,
         Publish(sub, a, v)
  PROVE  /\ Moves /\ value' \in Content /\ seq' \in [Agents -> 0 .. MaxHead]
         /\ sub # 0 => value'[a] = v /\ Published(a, v) \in Update
         /\ \/ sub = 0 /\ UNCHANGED <<value, seq, head, pending, wire>>
            \/ /\ sub # 0 /\ sub \in bootstrapping /\ sub = subscription
               /\ pending' = Buffer(pending, Published(a, v)) /\ wire' = wire
            \/ /\ sub # 0 /\ sub \in bootstrapping /\ sub # subscription
               /\ pending' = pending /\ wire' = wire
            \/ /\ sub # 0 /\ sub \notin bootstrapping
               /\ pending' = pending /\ Emit(<<Published(a, v)>>)
<1>1. CASE sub = 0
  BY <1>1, BoundsAssumption DEF Publish, Moves, TypeOK
<1>2. CASE sub # 0
  <2>1. Sequence(a, v) /\ BufferOrEmit(sub, Published(a, v))
    BY <1>2 DEF Publish, Published
  <2>2. /\ Moves /\ value' \in Content /\ seq' \in [Agents -> 0 .. MaxHead] /\ value'[a] = v
    BY <2>1, SequenceMoves
  <2>3. Published(a, v) \in Update
    BY <2>2 DEF Published, Update
  <2> QED
    BY <1>2, <2>1, <2>2, <2>3 DEF BufferOrEmit
<1> QED
  BY <1>1, <1>2

(* What committing an answer gives.                                         *)
LEMMA CommittedLeaves ==
  ASSUME view \in Content, NEW m \in Answer
  PROVE  /\ Committed(m) \in Content
         /\ \A a \in Agents : Committed(m)[a] = Leaves(m, a, Carried(a))
<1>1. \A a \in Agents : Leaves(m, a, Carried(a)) \in Versions
  BY MessageFields, BoundsAssumption DEF Leaves, Carried, Content, Versions
<1>2. Committed(m) = [a \in Agents |-> Leaves(m, a, Carried(a))]
  BY DEF Committed, Leaves
<1> HIDE DEF Leaves
<1> QED
  BY <1>1, <1>2 DEF Content

(* The answer to a listing: every agent that is fresh, and nothing else.    *)
LEMMA ResponseFacts ==
  ASSUME TypeOK, NEW l \in listings, value' = l.list, seq' \in [Agents -> 0 .. MaxHead],
         head' \in 0 .. MaxHead
  PROVE  LET m == Response(l)
         IN  /\ m \in Answer /\ m.type = "response" /\ m.request = l.request
             /\ m.headSeq = head' /\ l.request \in Requests /\ l.list \in Content
             /\ \A a \in Agents :
                  \/ m.values[a] = l.list[a] /\ \A old : Leaves(m, a, old) = l.list[a]
                  \/ /\ l.after # 0 /\ seq'[a] <= l.after
                     /\ m.values[a] = 0 /\ \A old : Leaves(m, a, old) = old
<1> DEFINE m == Response(l)
           fresh(a) == l.after = 0 \/ seq'[a] > l.after
<1>0. l.request \in Requests /\ l.after \in 0 .. MaxHead /\ l.list \in Content
  BY DEF TypeOK
<1>1. m = [type |-> "response", request |-> l.request,
           mode |-> IF l.after # 0 THEN "changes" ELSE "snapshot",
           values |-> [a \in Agents |-> IF fresh(a) THEN l.list[a] ELSE 0],
           removals |-> {a \in Agents : l.after # 0 /\ fresh(a) /\ l.list[a] = 0},
           headSeq |-> head']
  BY DEF Response
<1> HIDE DEF m
<1>2. [a \in Agents |-> IF fresh(a) THEN l.list[a] ELSE 0] \in Content
  BY <1>0, BoundsAssumption DEF Content, Versions
<1>3. m \in Answer
  BY <1>0, <1>1, <1>2 DEF Answer
<1>4. ASSUME NEW a \in Agents
      PROVE  \/ m.values[a] = l.list[a] /\ \A old : Leaves(m, a, old) = l.list[a]
             \/ /\ l.after # 0 /\ seq'[a] <= l.after
                /\ m.values[a] = 0 /\ \A old : Leaves(m, a, old) = old
  <2>1. CASE fresh(a)
    <3>1. m.values[a] = l.list[a]
      BY <1>1, <2>1
    <3>2. a \in m.removals <=> l.after # 0 /\ l.list[a] = 0
      BY <1>1, <2>1
    <3>3. m.mode = "changes" <=> l.after # 0
      BY <1>1
    <3> QED
      BY <3>1, <3>2, <3>3 DEF Leaves
  <2>2. CASE ~fresh(a)
    <3>1. m.values[a] = 0 /\ a \notin m.removals
      BY <1>1, <2>2
    <3>2. m.mode = "changes"
      BY <1>1, <2>2
    <3>3. seq'[a] <= l.after
      BY <1>0, <2>2
    <3> QED
      BY <2>2, <3>1, <3>2, <3>3 DEF Leaves
  <2> QED
    BY <2>1, <2>2
<1> QED
  BY <1>0, <1>1, <1>3, <1>4 DEF m

-----------------------------------------------------------------------------
(* The things that can come out of the wire.                                *)

Takes(m) == wire # <<>> /\ m = Head(wire) /\ wire' = Tail(wire)
Idles == UNCHANGED <<daemon, session, connected, requests, fetches, disconnects>>

Recorded(m) ==
  /\ Takes(m) /\ Idles /\ m.type = "update" /\ transaction # 0
  /\ deltas' = Append(deltas, m)
  /\ UNCHANGED <<view, cursor, transaction, satisfied, skipped, unplaced, paged, paging>>
Applied(m) ==
  /\ Takes(m) /\ Idles /\ m.type = "update" /\ transaction = 0
  /\ view' = Accept(view, m) /\ cursor' = NoteLiveCursors(cursor, <<m>>)
  /\ skipped' = (skipped \ {m.agent}) \cup
       {a \in Agents \ {m.agent} : /\ seq[a] \in (cursor + 1) .. m.seq
                                  /\ IF a \in unplaced THEN view[a] <= value[a]
                                                      ELSE view[a] < value[a]}
  /\ Place(<<m>>) /\ Advance(<<m>>)
  /\ UNCHANGED <<deltas, transaction, satisfied, paged>>
Removed(m) ==
  /\ Takes(m) /\ Idles /\ m.type = "deleted" /\ ReceiveDeleted(m)
Brought(m) ==
  /\ Takes(m) /\ Idles /\ m.type = "page" /\ ReceivePage(m)
Completed(m) == Takes(m) /\ Idles /\ m.type = "response" /\ ReceiveResponse(m)
Failed(m) == Takes(m) /\ Idles /\ m.type = "error" /\ ReceiveError(m)
Ignored(m) ==
  /\ Takes(m) /\ Idles /\ m.type \in {"response", "error"} /\ ReceiveStale(m)

(* Receive is one of them.                                                  *)
LEMMA ReceiveCases ==
  ASSUME Receive
  PROVE  \E m : Recorded(m) \/ Applied(m) \/ Removed(m) \/ Brought(m) \/ Completed(m) \/ Failed(m) \/ Ignored(m)
<1>1. Takes(Head(wire)) /\ Idles
  BY DEF Receive, Takes, Idles
<1>2. \/ Head(wire).type = "update" /\ ReceiveUpdate(Head(wire))
      \/ Head(wire).type = "deleted" /\ ReceiveDeleted(Head(wire))
      \/ Head(wire).type = "page" /\ ReceivePage(Head(wire))
      \/ Head(wire).type = "response" /\ ReceiveResponse(Head(wire))
      \/ Head(wire).type = "error" /\ ReceiveError(Head(wire))
      \/ Head(wire).type \in {"response", "error"} /\ ReceiveStale(Head(wire))
  BY DEF Receive
<1> QED
  BY <1>1, <1>2 DEF ReceiveUpdate, Recorded, Applied, Removed, Brought, Completed, Failed, Ignored

-----------------------------------------------------------------------------
(* Types.                                                                   *)

(* The constants and the types of the single variables.                     *)
LEMMA Typed ==
  ASSUME TypeOK
  PROVE  /\ MaxChanges \in Nat /\ MaxHead \in Nat /\ MaxFetches \in Nat
         /\ version \in Content /\ value \in Content /\ view \in Content
         /\ deletedBy \in [Agents -> {"nobody", "me", "other"}]
         /\ seq \in [Agents -> 0 .. MaxHead] /\ head \in 0 .. MaxHead /\ cursor \in 0 .. MaxHead
         /\ subscription \in {0} \cup Requests /\ bootstrapping \subseteq Requests
         /\ pending \in Seq(Update) /\ deltas \in Seq(Update)
         /\ tail \in [Agents -> Seq(Versions)] /\ captured \in [Agents -> {Idle, 0} \cup Requests]
         /\ \A l \in listings : l.request \in Requests /\ l.after \in 0 .. MaxHead /\ l.list \in Content
         /\ requests \in Seq([request : Requests, after : 0 .. MaxHead])
         /\ wire \in Seq(Message) /\ transaction \in {0} \cup Requests /\ fetches \in 0 .. MaxFetches
         /\ connected \in BOOLEAN /\ satisfied \in BOOLEAN /\ skipped \subseteq Agents
         /\ unplaced \subseteq Agents /\ paged \subseteq Agents
BY BoundsAssumption DEF TypeOK, Message

(* What a message leaves of the types.                                      *)
LEMMA ReceiveTyped ==
  ASSUME TypeOK, NEW m,
         Recorded(m) \/ Applied(m) \/ Removed(m) \/ Brought(m) \/ Completed(m) \/ Failed(m) \/ Ignored(m)
  PROVE  TypeOK'
<1>0. /\ wire \in Seq(Message) /\ deltas \in Seq(Update) /\ view \in Content
      /\ cursor \in 0 .. MaxHead /\ MaxHead \in Nat /\ skipped \subseteq Agents
      /\ transaction \in {0} \cup Requests
  BY Typed
<1>1. m \in Message /\ wire' \in Seq(Message) /\ Idles
  <2>1. Takes(m) /\ Idles
    BY DEF Recorded, Applied, Removed, Brought, Completed, Failed, Ignored
  <2> QED
    BY <1>0, <2>1, TailFacts DEF Takes
<1>2. /\ view' \in Content /\ cursor' \in 0 .. MaxHead /\ deltas' \in Seq(Update)
      /\ transaction' \in {0} \cup Requests /\ satisfied' \in BOOLEAN /\ skipped' \subseteq Agents
  <2>0. satisfied \in BOOLEAN
    BY DEF TypeOK
  <2>1. CASE Recorded(m)
    BY <1>0, <1>1, <2>0, <2>1, MessageKinds DEF Recorded
  <2>2. CASE Applied(m)
    <3>1. m \in Update /\ m.agent \in Agents /\ m.ver \in Versions
      BY <1>1, <2>2, MessageKinds, MessageFields DEF Applied
    <3>2. <<m>> \in Seq(Update)
      BY <3>1
    <3>3. NoteLiveCursors(cursor, <<m>>) \in 0 .. MaxHead
      BY <1>0, <3>2, NoteLiveCursorsBounds
    <3>4. Accept(view, m) \in Content
      BY <1>0, <3>1 DEF Accept, Content
    <3> QED
      BY <1>0, <2>0, <2>2, <3>3, <3>4 DEF Applied
  <2>3. CASE Removed(m)
    <3>0. m.agent \in Agents /\ 0 \in Versions
      BY <1>1, <2>3, MessageKinds, MessageFields, BoundsAssumption DEF Removed, Versions
    <3>1. [view EXCEPT ![m.agent] = 0] \in Content
      BY <1>0, <3>0 DEF Content
    <3> QED
      BY <1>0, <2>0, <2>3, <3>1 DEF Removed, ReceiveDeleted
  <2>7. CASE Brought(m)
    <3>1. m.agent \in Agents /\ m.ver \in Versions
      BY <1>1, <2>7, MessageKinds, MessageFields DEF Brought
    <3>2. Accept(view, m) \in Content
      BY <1>0, <3>1 DEF Accept, Content
    <3> QED
      BY <1>0, <2>0, <2>7, <3>2 DEF Brought, ReceivePage
  <2>4. CASE Completed(m)
    <3>1. m \in Answer /\ m.headSeq \in 0 .. MaxHead
      BY <1>1, <2>4, MessageKinds, MessageFields DEF Completed
    <3>2. Committed(m) \in Content
      BY <1>0, <3>1, CommittedLeaves
    <3>3. Larger(cursor, m.headSeq) \in 0 .. MaxHead
      BY <1>0, <3>1 DEF Larger
    <3>4. AcceptAll(Committed(m), deltas) \in Content
      BY <1>0, <3>2, AcceptAllBounds
    <3>5. NoteLiveCursors(Larger(cursor, m.headSeq), deltas) \in 0 .. MaxHead
      BY <1>0, <3>3, NoteLiveCursorsBounds
    <3>6. <<>> \in Seq(Update)
      OBVIOUS
    <3> QED
      BY <1>0, <2>4, <3>4, <3>5, <3>6 DEF Completed, ReceiveResponse
  <2>5. CASE Failed(m)
    <3>1. AcceptAll(view, deltas) \in Content
      BY <1>0, AcceptAllBounds
    <3>2. <<>> \in Seq(Update)
      OBVIOUS
    <3> QED
      BY <1>0, <2>0, <2>5, <3>1, <3>2 DEF Failed, ReceiveError
  <2>6. CASE Ignored(m)
    BY <1>0, <2>0, <2>6 DEF Ignored, ReceiveStale
  <2> QED
    BY <2>1, <2>2, <2>3, <2>4, <2>5, <2>6, <2>7
<1>3. unplaced' \subseteq Agents /\ paged' \subseteq Agents
  <2>1. unplaced \subseteq Agents /\ paged \subseteq Agents /\ (m.type = "page" => m.agent \in Agents)
    BY <1>1, MessageKinds, MessageFields DEF TypeOK
  <2> QED
    BY <2>1 DEF Recorded, Applied, Removed, ReceiveDeleted, Brought, ReceivePage, Completed,
       ReceiveResponse, Failed, ReceiveError, Ignored, ReceiveStale, Place
<1>4. tokens' \subseteq Agents /\ pages' \in 0 .. MaxExtras
  <2>1. tokens \subseteq Agents /\ pages \in 0 .. MaxExtras
    BY DEF TypeOK
  <2> QED
    BY <2>1 DEF Recorded, Applied, Removed, ReceiveDeleted, Brought, ReceivePage, Completed,
       ReceiveResponse, Failed, ReceiveError, Ignored, ReceiveStale, Advance, paging
<1> QED
  BY <1>1, <1>2, <1>3, <1>4 DEF TypeOK, Idles, daemon, session, Message

(* Every step keeps the types.                                              *)
LEMMA NextTyped ==
  ASSUME TypeOK, Queues, [Next]_vars
  PROVE  TypeOK'
<1> USE BoundsAssumption
<1>0. /\ MaxChanges \in Nat /\ MaxHead \in Nat /\ MaxFetches \in Nat
      /\ version \in Content /\ value \in Content /\ view \in Content
      /\ tail \in [Agents -> Seq(Versions)] /\ captured \in [Agents -> {Idle, 0} \cup Requests]
      /\ pending \in Seq(Update) /\ wire \in Seq(Message)
      /\ subscription \in {0} \cup Requests
      /\ requests \in Seq([request : Requests, after : 0 .. MaxHead])
  BY Typed
<1>a. \A a \in Agents : version[a] \in Versions /\ tail[a] \in Seq(Versions)
  BY <1>0 DEF Content
<1>1. ASSUME NEW a \in Agents, AgentChanges(a) PROVE TypeOK'
  <2>1. version[a] + 1 \in Versions
    BY <1>0, <1>a, <1>1 DEF AgentChanges, Versions
  <2>2. version' \in Content
    BY <1>0, <1>1, <2>1 DEF AgentChanges, Content
  <2>3. Append(tail[a], version[a] + 1) \in Seq(Versions)
    BY <1>a, <2>1
  <2>4. tail' \in [Agents -> Seq(Versions)]
    BY <1>0, <1>1, <2>3 DEF AgentChanges
  <2> QED
    BY <1>1, <2>2, <2>4 DEF AgentChanges, TypeOK, ui, paging
<1>2. ASSUME NEW a \in Agents, DeleteAgent(a) PROVE TypeOK'
  <2>1. 0 \in Versions
    BY <1>0 DEF Versions
  <2>2. Append(tail[a], 0) \in Seq(Versions)
    BY <1>a, <2>1
  <2>3. tail' \in [Agents -> Seq(Versions)]
    BY <1>0, <1>2, <2>2 DEF DeleteAgent
  <2>4. [type |-> "deleted", agent |-> a] \in Message
    BY DEF Message, Deleted
  <2>5. <<[type |-> "deleted", agent |-> a]>> \in Seq(Message)
    BY <2>4
  <2>6. wire' \in Seq(Message)
    BY <1>0, <1>2, <2>5, EmitFacts DEF DeleteAgent
  <2>7. deletedBy' \in [Agents -> {"nobody", "me", "other"}]
    BY <1>2 DEF DeleteAgent, TypeOK
  <2> QED
    BY <1>2, <2>3, <2>6, <2>7 DEF DeleteAgent, TypeOK, ui, paging, Message
<1>3. ASSUME NEW a \in Agents, OtherDeletes(a) PROVE TypeOK'
  BY <1>3 DEF OtherDeletes, TypeOK, ui, paging, session
<1>4. ASSUME NEW a \in Agents, StartUpdate(a) PROVE TypeOK'
  <2>1. captured' \in [Agents -> {Idle, 0} \cup Requests]
    BY <1>0, <1>4 DEF StartUpdate
  <2> QED
    BY <1>4, <2>1 DEF StartUpdate, TypeOK, ui, paging, daemon
<1>p. ASSUME NEW sub \in {0} \cup Requests, NEW a \in Agents, tail[a] # <<>>,
             Publish(sub, a, Head(tail[a])), tail' = [tail EXCEPT ![a] = Tail(@)]
      PROVE  /\ value' \in Content /\ seq' \in [Agents -> 0 .. MaxHead] /\ head' \in 0 .. MaxHead
             /\ pending' \in Seq(Update) /\ wire' \in Seq(Message)
             /\ tail' \in [Agents -> Seq(Versions)]
  <2> DEFINE v == Head(tail[a])
  <2>1. v \in Versions /\ Tail(tail[a]) \in Seq(Versions)
    BY <1>a, <1>p, TailFacts
  <2>2. tail' \in [Agents -> Seq(Versions)]
    BY <1>0, <1>p, <2>1
  <2>3. Publish(sub, a, v)
    BY <1>p
  <2> HIDE DEF v
  <2>4. /\ Moves /\ value' \in Content /\ seq' \in [Agents -> 0 .. MaxHead]
        /\ sub # 0 => Published(a, v) \in Update
        /\ \/ sub = 0 /\ pending' = pending /\ wire' = wire
           \/ sub # 0 /\ pending' = Buffer(pending, Published(a, v)) /\ wire' = wire
           \/ sub # 0 /\ pending' = pending /\ wire' = wire
           \/ sub # 0 /\ pending' = pending /\ Emit(<<Published(a, v)>>)
    BY <2>1, <2>3, PublishCases
  <2>5. pending' \in Seq(Update)
    BY <1>0, <2>4, BufferFacts
  <2>6. wire' \in Seq(Message)
    <3>1. CASE wire' = wire
      BY <1>0, <3>1
    <3>2. CASE sub # 0 /\ Emit(<<Published(a, v)>>)
      <4>1. Published(a, v) \in Message
        BY <2>4, <3>2, MessageKinds
      <4>2. <<Published(a, v)>> \in Seq(Message)
        BY <4>1
      <4> QED
        BY <1>0, <3>2, <4>2, EmitFacts
    <3> QED
      BY <2>4, <3>1, <3>2
  <2>7. head' \in 0 .. MaxHead
    BY <2>4 DEF Moves
  <2> QED
    BY <2>2, <2>4, <2>5, <2>6, <2>7
<1>5. ASSUME NEW a \in Agents, FinishUpdate(a) PROVE TypeOK'
  <2>0. tail[a] # <<>>
    BY <1>5 DEF FinishUpdate, Queues
  <2>1. captured[a] \in {0} \cup Requests
    BY <1>0, <1>5 DEF FinishUpdate
  <2>2. captured' \in [Agents -> {Idle, 0} \cup Requests]
    BY <1>0, <1>5 DEF FinishUpdate
  <2>3. /\ value' \in Content /\ seq' \in [Agents -> 0 .. MaxHead] /\ head' \in 0 .. MaxHead
        /\ pending' \in Seq(Update) /\ wire' \in Seq(Message)
        /\ tail' \in [Agents -> Seq(Versions)]
    BY <1>5, <1>p, <2>0, <2>1 DEF FinishUpdate
  <2> QED
    BY <1>5, <2>2, <2>3 DEF FinishUpdate, TypeOK, ui, paging, Message
<1>6. ASSUME NEW a \in Agents, RunRemoval(a) PROVE TypeOK'
  <2>1. tail[a] # <<>> /\ Publish(subscription, a, Head(tail[a])) /\ tail' = [tail EXCEPT ![a] = Tail(@)]
    BY <1>6 DEF RunRemoval
  <2>2. /\ value' \in Content /\ seq' \in [Agents -> 0 .. MaxHead] /\ head' \in 0 .. MaxHead
        /\ pending' \in Seq(Update) /\ wire' \in Seq(Message)
        /\ tail' \in [Agents -> Seq(Versions)]
    BY <1>0, <1>p, <2>1
  <2> QED
    BY <1>6, <2>2 DEF RunRemoval, TypeOK, ui, paging, Message
<1>7. ASSUME NEW a \in Agents, NEW v \in Versions, OtherSequences(a, v) PROVE TypeOK'
  <2>1. Moves /\ value' \in Content /\ seq' \in [Agents -> 0 .. MaxHead]
    BY <1>7, SequenceMoves DEF OtherSequences
  <2>2. head' \in 0 .. MaxHead
    BY <2>1 DEF Moves
  <2> QED
    BY <1>7, <2>1, <2>2 DEF OtherSequences, TypeOK, ui, paging, session
<1>8. ASSUME FetchAgents PROVE TypeOK'
  <2>1. /\ Head(requests) \in [request : Requests, after : 0 .. MaxHead]
        /\ Tail(requests) \in Seq([request : Requests, after : 0 .. MaxHead])
    BY <1>0, <1>8, TailFacts DEF FetchAgents
  <2>2. Current \in Content
    BY <1>0 DEF Current, Truth, Content, Versions
  <2>3. [request |-> Head(requests).request, after |-> Head(requests).after, list |-> Current]
          \in [request : Requests, after : 0 .. MaxHead, list : Content]
    BY <2>1, <2>2
  <2>4. <<>> \in Seq(Update)
    OBVIOUS
  <2>5. subscription' \in {0} \cup Requests /\ bootstrapping' \subseteq Requests
    BY <1>8, <2>1 DEF FetchAgents, TypeOK
  <2>6. listings' \subseteq [request : Requests, after : 0 .. MaxHead, list : Content]
    BY <1>8, <2>3 DEF FetchAgents, TypeOK
  <2> QED
    BY <1>8, <2>1, <2>4, <2>5, <2>6 DEF FetchAgents, TypeOK, ui, paging, daemon
<1>9. ASSUME NEW l \in listings, FetchFails(l) PROVE TypeOK'
  <2>1. l.request \in Requests
    BY DEF TypeOK
  <2>2. [type |-> "error", request |-> l.request] \in Message
    BY <2>1 DEF Message, Failure
  <2>3. <<[type |-> "error", request |-> l.request]>> \in Seq(Message)
    BY <2>2
  <2>4. wire' \in Seq(Message)
    BY <1>0, <1>9, <2>3, EmitFacts DEF FetchFails
  <2>5. <<>> \in Seq(Update)
    OBVIOUS
  <2>6. pending' \in Seq(Update) /\ subscription' \in {0} \cup Requests
    BY <1>0, <1>9, <2>5 DEF FetchFails
  <2>7. listings' \subseteq [request : Requests, after : 0 .. MaxHead, list : Content]
    BY <1>9 DEF FetchFails, TypeOK
  <2> QED
    BY <1>9, <2>4, <2>6, <2>7 DEF FetchFails, TypeOK, ui, paging, daemon, Message
<1>10. ASSUME NEW l \in listings, NEW order \in Orders(l.list), FetchReplies(l, order) PROVE TypeOK'
  <2>1. l.list \in Content
    BY DEF TypeOK
  <2>2. AbsorbListing(l.list, order)
    BY <1>10 DEF FetchReplies
  <2>3. /\ Moves /\ value' = l.list /\ seq' \in [Agents -> 0 .. MaxHead]
    BY <2>1, <2>2, AbsorbMoves
  <2>4. head' \in 0 .. MaxHead
    BY <2>3 DEF Moves
  <2>5. Response(l) \in Answer
    BY <2>3, <2>4, ResponseFacts
  <2>6. Flushed(Response(l)) \in Seq(Update)
    BY <1>0, FlushedKeeps
  <2> DEFINE ms == <<Response(l)>> \o
                     (IF l.request = subscription THEN Flushed(Response(l)) ELSE <<>>)
  <2>7. ms \in Seq(Message)
    <3>1. Response(l) \in Message /\ Flushed(Response(l)) \in Seq(Message)
      BY <2>5, <2>6, MessageKinds
    <3>2. <<Response(l)>> \in Seq(Message) /\ <<>> \in Seq(Message)
      BY <3>1
    <3> QED
      BY <3>1, <3>2
  <2>8. Emit(ms)
    BY <1>10 DEF FetchReplies
  <2> HIDE DEF ms
  <2>9. wire' \in Seq(Message)
    BY <1>0, <2>7, <2>8, EmitFacts
  <2>10. <<>> \in Seq(Update)
    OBVIOUS
  <2>11. pending' \in Seq(Update) /\ bootstrapping' \subseteq Requests
    BY <1>0, <1>10, <2>10 DEF FetchReplies, TypeOK
  <2>12. listings' \subseteq [request : Requests, after : 0 .. MaxHead, list : Content]
    BY <1>10 DEF FetchReplies, TypeOK
  <2> QED
    BY <1>10, <2>1, <2>3, <2>4, <2>9, <2>11, <2>12 DEF FetchReplies, TypeOK, ui, paging, Message
<1>11. CASE Refresh
  <2>1. fetches + 1 \in Requests /\ fetches + 1 \in 0 .. MaxFetches
    BY <1>11, BoundsAssumption, SMTT(60) DEF Refresh, TypeOK, Requests
  <2>2. [request |-> fetches + 1, after |-> cursor] \in [request : Requests, after : 0 .. MaxHead]
    BY <2>1 DEF TypeOK
  <2>3. requests' \in Seq([request : Requests, after : 0 .. MaxHead])
    BY <1>0, <1>11, <2>2 DEF Refresh
  <2> QED
    BY <1>11, <2>1, <2>3 DEF Refresh, TypeOK, daemon, session, paging
<1>12. CASE Receive
  BY <1>12, ReceiveCases, ReceiveTyped
<1>13. CASE Disconnect
  <2>1. AcceptAll(view, deltas) \in Content
    BY AcceptAllBounds DEF TypeOK
  <2>2. disconnects' \in 0 .. MaxDisconnects
    BY <1>13 DEF Disconnect, TypeOK
  <2>3. /\ <<>> \in Seq(Update) /\ <<>> \in Seq([request : Requests, after : 0 .. MaxHead])
        /\ <<>> \in Seq(Message)
    OBVIOUS
  <2> QED
    BY <1>13, <2>1, <2>2, <2>3 DEF Disconnect, Place, TypeOK, daemon, session, Message
<1>14. CASE Resume
  BY <1>14 DEF Resume, TypeOK, daemon, session, ui, paging
<1>15. CASE GraceEnds
  <2>1. <<>> \in Seq(Update) /\ <<>> \in Seq(Versions)
    OBVIOUS
  <2> QED
    BY <1>15, <2>1 DEF GraceEnds, TypeOK, daemon, ui, paging
<1>t. ASSUME NEW a \in Agents, FetchTimeline(a) PROVE TypeOK'
  <2>1. pages + 1 \in 0 .. MaxExtras
    <3>1. \A n \in Nat : pages + n < MaxExtras => pages + 1 \in 0 .. MaxExtras
      <4>1. pages \in Nat /\ MaxExtras \in Nat
        BY BoundsAssumption DEF TypeOK
      <4> QED
        BY <4>1
    <3>2. Cardinality({b \in Agents : deletedBy[b] # "nobody"}) \in Nat
      BY FS_Subset, FS_CardinalityType
    <3> QED
      BY <1>t, <3>1, <3>2 DEF FetchTimeline, Present
  <2>2. [type |-> "page", agent |-> a, ver |-> version[a]] \in Message
    BY <1>a DEF Message, Page
  <2>3. <<[type |-> "page", agent |-> a, ver |-> version[a]]>> \in Seq(Message)
    BY <2>2
  <2>4. wire' \in Seq(Message)
    BY <1>0, <1>t, <2>3, EmitFacts DEF FetchTimeline
  <2> QED
    BY <1>t, <2>1, <2>4 DEF FetchTimeline, TypeOK, daemon, session, Message
<1>16. CASE UNCHANGED vars
  BY <1>16 DEF vars, TypeOK
<1> QED
  BY <1>1, <1>2, <1>3, <1>4, <1>5, <1>6, <1>7, <1>8, <1>9, <1>10, <1>11, <1>12, <1>13, <1>14,
     <1>15, <1>16, <1>t DEF Next

-----------------------------------------------------------------------------
(* What only ever moves forwards.                                           *)

(* A sequence over a set is one over a larger set.                          *)
LEMMA SeqGrows ==
  ASSUME NEW S, NEW T, S \subseteq T, NEW s \in Seq(S)
  PROVE  s \in Seq(T)
OBVIOUS

(* A job that ends publishes the head of its agent's queue.                 *)
LEMMA JobFacts ==
  ASSUME TypeOK, Queues, NEW a \in Agents, FinishUpdate(a) \/ RunRemoval(a)
  PROVE  LET sub == IF captured[a] = Idle THEN subscription ELSE captured[a]
         IN  /\ tail[a] # <<>> /\ tail[a] \in Seq(Versions) /\ Head(tail[a]) = tail[a][1]
             /\ Head(tail[a]) \in Versions /\ sub \in {0} \cup Requests
             /\ Publish(sub, a, Head(tail[a]))
             /\ captured'[a] = Idle /\ \A b \in Agents \ {a} : captured'[b] = captured[b]
             /\ tail' = [tail EXCEPT ![a] = Tail(@)]
             /\ UNCHANGED <<version, deletedBy, subscription, bootstrapping, listings, connected,
                            requests, view, cursor, transaction, deltas, satisfied, skipped,
                            unplaced, paged, fetches, disconnects>>
<1>0. /\ tail \in [Agents -> Seq(Versions)] /\ captured \in [Agents -> {Idle, 0} \cup Requests]
      /\ subscription \in {0} \cup Requests
  BY Typed
<1>1. tail[a] # <<>> /\ tail[a] \in Seq(Versions)
  BY <1>0 DEF FinishUpdate, RunRemoval, Queues
<1>2. Head(tail[a]) = tail[a][1] /\ Head(tail[a]) \in Versions
  BY <1>1, TailFacts
<1>3. CASE FinishUpdate(a)
  <2>1. captured[a] \in {0} \cup Requests
    BY <1>0, <1>3 DEF FinishUpdate
  <2>2. captured[a] # Idle
    BY <1>3 DEF FinishUpdate
  <2>3. captured'[a] = Idle /\ \A b \in Agents \ {a} : captured'[b] = captured[b]
    BY <1>0, <1>3 DEF FinishUpdate
  <2> QED
    BY <1>1, <1>2, <1>3, <2>1, <2>2, <2>3 DEF FinishUpdate, ui
<1>4. CASE RunRemoval(a)
  <2>1. captured[a] = Idle
    BY <1>2, <1>4 DEF RunRemoval, Queues
  <2>2. Publish(subscription, a, Head(tail[a]))
    BY <1>4 DEF RunRemoval
  <2> QED
    BY <1>0, <1>1, <1>2, <1>4, <2>1, <2>2 DEF RunRemoval, ui
<1> QED
  BY <1>3, <1>4

(* Deleted agents stay deleted; versions, sequence numbers, the cursor and  *)
(* the numbers of the refreshes grow.                                       *)
LEMMA Forward ==
  ASSUME TypeOK, Queues, [Next]_vars
  PROVE  /\ Living \subseteq Agents /\ Living' \subseteq Living
         /\ \A a \in Agents : version[a] \in Nat /\ version'[a] \in Nat /\ version[a] <= version'[a]
         /\ head <= head' /\ cursor <= cursor' /\ fetches <= fetches'
         /\ \A a \in Agents :
              \/ value'[a] = value[a] /\ seq'[a] = seq[a]
              \/ seq'[a] \in (head + 1) .. head'
<1> DEFINE Ages == /\ Living' \subseteq Living
                   /\ \A a \in Agents : version[a] <= version'[a]
                   /\ head <= head' /\ cursor <= cursor' /\ fetches <= fetches'
                   /\ \A a \in Agents :
                        \/ value'[a] = value[a] /\ seq'[a] = seq[a]
                        \/ seq'[a] \in (head + 1) .. head'
<1>0. /\ version \in Content /\ head \in 0 .. MaxHead /\ cursor \in 0 .. MaxHead
      /\ fetches \in 0 .. MaxFetches /\ MaxChanges \in Nat /\ MaxHead \in Nat /\ MaxFetches \in Nat
      /\ deletedBy \in [Agents -> {"nobody", "me", "other"}]
      /\ wire \in Seq(Message) /\ deltas \in Seq(Update)
  BY Typed
<1>a. head <= head /\ cursor <= cursor /\ fetches <= fetches /\ \A a \in Agents : version[a] \in Nat
  BY <1>0 DEF Content, Versions
<1>b. version' \in Content
  BY NextTyped, Typed DEF TypeOK
<1>c. \A a \in Agents : version[a] <= version[a]
  BY <1>a
<1>1. ASSUME NEW a \in Agents, AgentChanges(a) PROVE Ages
  <2>1. \A b \in Agents : version'[b] = IF b = a THEN version[b] + 1 ELSE version[b]
    BY <1>0, <1>1 DEF AgentChanges, Content
  <2>2. \A b \in Agents : version[b] <= version'[b]
    BY <1>a, <2>1
  <2> QED
    BY <1>1, <1>a, <2>2 DEF AgentChanges, ui, Living
<1>2. ASSUME NEW a \in Agents, DeleteAgent(a) \/ OtherDeletes(a) PROVE Ages
  <2>1. Living' \subseteq Living
    BY <1>0, <1>2 DEF DeleteAgent, OtherDeletes, Living
  <2> QED
    BY <1>2, <1>a, <1>c, <2>1 DEF DeleteAgent, OtherDeletes, ui
<1>3. ASSUME NEW a \in Agents, StartUpdate(a) \/ FetchTimeline(a) PROVE Ages
  BY <1>3, <1>a, <1>c DEF StartUpdate, FetchTimeline, ui, daemon, Living
<1>4. ASSUME NEW a \in Agents, FinishUpdate(a) \/ RunRemoval(a) PROVE Ages
  <2> DEFINE sub == IF captured[a] = Idle THEN subscription ELSE captured[a]
  <2>1. /\ Publish(sub, a, Head(tail[a])) /\ Head(tail[a]) \in Versions /\ sub \in {0} \cup Requests
        /\ UNCHANGED <<version, deletedBy, cursor, fetches>>
    BY <1>4, JobFacts
  <2> HIDE DEF sub
  <2>2. Moves
    BY <2>1, PublishCases
  <2> QED
    BY <1>a, <1>c, <2>1, <2>2 DEF Moves, Living
<1>5. ASSUME NEW a \in Agents, NEW v \in Versions, OtherSequences(a, v) PROVE Ages
  <2>1. Moves
    BY <1>5, SequenceMoves DEF OtherSequences
  <2> QED
    BY <1>5, <1>a, <1>c, <2>1 DEF OtherSequences, Moves, Living, ui
<1>6. ASSUME FetchAgents \/ Refresh \/ Resume \/ GraceEnds \/ UNCHANGED vars PROVE Ages
  BY <1>6, <1>0, <1>a, <1>c DEF FetchAgents, Refresh, Resume, GraceEnds, vars, daemon, session, ui, Living
<1>7. ASSUME NEW l \in listings, FetchFails(l) PROVE Ages
  BY <1>7, <1>a, <1>c DEF FetchFails, daemon, ui, Living
<1>8. ASSUME NEW l \in listings, NEW order \in Orders(l.list), FetchReplies(l, order) PROVE Ages
  <2>1. l.list \in Content
    BY Typed
  <2>2. Moves
    BY <1>8, <2>1, AbsorbMoves DEF FetchReplies
  <2> QED
    BY <1>8, <1>a, <1>c, <2>2 DEF FetchReplies, Moves, Living, ui
<1>9. ASSUME Receive PROVE Ages
  <2>1. PICK m : Recorded(m) \/ Applied(m) \/ Removed(m) \/ Brought(m) \/ Completed(m) \/ Failed(m) \/ Ignored(m)
    BY <1>9, ReceiveCases
  <2>2. Takes(m) /\ Idles /\ m \in Message
    <3>1. Takes(m) /\ Idles
      BY <2>1 DEF Recorded, Applied, Removed, Brought, Completed, Failed, Ignored
    <3> QED
      BY <1>0, <3>1, TailFacts DEF Takes
  <2>3. cursor <= cursor'
    <3>1. CASE Applied(m)
      <4>1. <<m>> \in Seq(Update)
        BY <2>2, <3>1, MessageKinds DEF Applied
      <4> QED
        BY <1>0, <3>1, <4>1, NoteLiveCursorsBounds DEF Applied
    <3>2. CASE Completed(m)
      <4>1. m.headSeq \in 0 .. MaxHead
        BY <2>2, <3>2, MessageKinds, MessageFields DEF Completed
      <4>2. Larger(cursor, m.headSeq) \in 0 .. MaxHead /\ cursor <= Larger(cursor, m.headSeq)
        BY <1>0, <4>1 DEF Larger
      <4>3. /\ cursor' = NoteLiveCursors(Larger(cursor, m.headSeq), deltas)
            /\ cursor' \in 0 .. MaxHead /\ cursor' >= Larger(cursor, m.headSeq)
        BY <1>0, <3>2, <4>2, NoteLiveCursorsBounds DEF Completed, ReceiveResponse
      <4> QED
        BY <1>0, <4>2, <4>3
    <3>3. CASE Recorded(m) \/ Removed(m) \/ Brought(m) \/ Failed(m) \/ Ignored(m)
      BY <1>a, <3>3 DEF Recorded, Removed, Brought, Failed, Ignored, ReceiveDeleted, ReceivePage,
         ReceiveError, ReceiveStale
    <3> QED
      BY <2>1, <3>1, <3>2, <3>3
  <2> QED
    BY <1>a, <1>c, <2>2, <2>3 DEF Idles, daemon, Living
<1>10. ASSUME Disconnect PROVE Ages
  BY <1>10, <1>a, <1>c DEF Disconnect, daemon, Living
<1>11. Ages
  <2> HIDE DEF Ages
  <2> QED
    BY <1>1, <1>2, <1>3, <1>4, <1>5, <1>6, <1>7, <1>8, <1>9, <1>10 DEF Next
<1>12. \A a \in Agents : version'[a] \in Nat
  BY <1>0, <1>b DEF Content, Versions
<1>13. Living \subseteq Agents
  BY DEF Living
<1>14. \A a \in Agents : version[a] \in Nat /\ version'[a] \in Nat /\ version[a] <= version'[a]
  BY <1>a, <1>11, <1>12
<1> QED
  BY <1>11, <1>13, <1>14, Zenon

\* The page of an agent's timeline.
PageOf(a) == [type |-> "page", agent |-> a, ver |-> version[a]]

(* Fetching a timeline sends a page that tells the agent's version, and     *)
(* leaves everything else but the token alone.                              *)
LEMMA PageSent ==
  ASSUME TypeOK, NEW a \in Agents, FetchTimeline(a)
  PROVE  /\ PageOf(a) \in Message /\ PageOf(a).type = "page" /\ PageOf(a).agent = a
         /\ PageOf(a).ver \in 1 .. version[a] /\ connected /\ Emit(<<PageOf(a)>>)
         /\ UNCHANGED <<version, deletedBy, value, seq, head, subscription, bootstrapping,
                        pending, tail, captured, listings, connected, requests, view, cursor,
                        transaction, deltas, satisfied, skipped, unplaced, paged, fetches>>
<1>1. version[a] \in Versions /\ version[a] \in Nat /\ version[a] > 0
  BY BoundsAssumption DEF TypeOK, FetchTimeline, Present, Content, Versions
<1>2. PageOf(a) \in Page
  BY <1>1 DEF Page, PageOf
<1>3. PageOf(a) \in Message /\ PageOf(a).type = "page"
  BY <1>2, MessageKinds
<1>4. PageOf(a).agent = a /\ PageOf(a).ver \in 1 .. version[a]
  BY <1>1 DEF PageOf
<1> QED
  BY <1>3, <1>4 DEF FetchTimeline, PageOf, daemon, session

(* What was true stays true.                                                *)
LEMMA TrueStays ==
  ASSUME TypeOK, Queues, [Next]_vars
  PROVE  TrueUpdate \subseteq TrueUpdate' /\ TrueMessage \subseteq TrueMessage'
<1>0. /\ Living \subseteq Agents /\ Living' \subseteq Living /\ head <= head'
      /\ \A a \in Agents : version[a] \in Nat /\ version'[a] \in Nat /\ version[a] <= version'[a]
      /\ head \in Nat /\ head' \in Nat
  <2>1. TypeOK'
    BY NextTyped
  <2>2. head \in Nat /\ head' \in Nat
    BY <2>1, BoundsAssumption DEF TypeOK
  <2> QED
    BY <2>2, Forward
<1>1. ASSUME NEW u \in TrueUpdate PROVE u \in TrueUpdate'
  <2>1. u \in Update /\ u.seq <= head /\ u.seq \in Nat /\ u.ver \in Int
    BY MessageFields, BoundsAssumption DEF TrueUpdate, Versions
  <2>2. u.seq <= head'
    BY <1>0, <2>1
  <2>3. ASSUME u.agent \in Living' PROVE u.ver \in 1 .. version'[u.agent]
    <3>1. u.agent \in Living /\ u.ver \in 1 .. version[u.agent] /\ u.agent \in Agents
      BY <1>0, <2>3 DEF TrueUpdate
    <3> QED
      BY <1>0, <3>1
  <2> QED
    BY <2>1, <2>2, <2>3 DEF TrueUpdate
<1>2. ASSUME NEW m \in TrueMessage PROVE m \in TrueMessage'
  <2>1. m \in Message /\ (m.type = "update" => m \in TrueUpdate')
        /\ (m.type = "deleted" => m.agent \notin Living')
    BY <1>0, <1>1 DEF TrueMessage
  <2>3. ASSUME m.type = "page", m.agent \in Living' PROVE m.ver \in 1 .. version'[m.agent]
    <3>1. m.agent \in Living /\ m.ver \in 1 .. version[m.agent] /\ m.agent \in Agents
      BY <1>0, <2>3 DEF TrueMessage
    <3> QED
      BY <1>0, <3>1
  <2>2. ASSUME m.type = "response"
        PROVE  m.headSeq <= head' /\ \A a \in Living' : m.values[a] <= version'[a]
    <3>1. /\ m.headSeq \in Nat /\ \A a \in Agents : m.values[a] \in Nat
      BY <2>1, <2>2, MessageKinds, MessageFields, BoundsAssumption DEF Content, Versions
    <3>2. m.headSeq <= head /\ \A a \in Living : m.values[a] <= version[a]
      BY <2>2 DEF TrueMessage
    <3>3. m.headSeq <= head'
      BY <1>0, <3>1, <3>2
    <3>4. ASSUME NEW a \in Living' PROVE m.values[a] <= version'[a]
      <4>1. /\ a \in Agents /\ m.values[a] <= version[a] /\ version[a] <= version'[a]
            /\ m.values[a] \in Nat /\ version[a] \in Nat /\ version'[a] \in Nat
        BY <1>0, <3>1, <3>2
      <4> QED
        BY <4>1
    <3> QED
      BY <3>3, <3>4
  <2> QED
    BY <2>1, <2>2, <2>3 DEF TrueMessage
<1> QED
  BY <1>1, <1>2

-----------------------------------------------------------------------------
(* The queues.                                                              *)

(* Appending to a queue, and taking its head.                               *)
LEMMA QueueFacts ==
  ASSUME NEW S, NEW q \in Seq(S), NEW x \in S
  PROVE  /\ Len(q) \in Nat /\ \A i \in 1 .. Len(q) : q[i] \in S
         /\ Append(q, x) # <<>> /\ Len(Append(q, x)) = Len(q) + 1 /\ Append(q, x)[Len(q) + 1] = x
         /\ \A i \in 1 .. Len(q) : Append(q, x)[i] = q[i]
         /\ q # <<>> => 1 \in 1 .. Len(q) /\ Len(q) \in 1 .. Len(q)
<1>1. Len(q) \in Nat /\ \A i \in 1 .. Len(q) : q[i] \in S
  OBVIOUS
<1>2. /\ Append(q, x) # <<>> /\ Len(Append(q, x)) = Len(q) + 1 /\ Append(q, x)[Len(q) + 1] = x
      /\ \A i \in 1 .. Len(q) : Append(q, x)[i] = q[i]
  OBVIOUS
<1>3. q # <<>> => Len(q) # 0
  OBVIOUS
<1>4. q # <<>> => 1 \in 1 .. Len(q) /\ Len(q) \in 1 .. Len(q)
  BY <1>1, <1>3
<1> QED
  BY <1>1, <1>2, <1>4

(* Every step keeps the order of the queues.                                *)
LEMMA QueuesKept ==
  ASSUME TypeOK, Queues, [Next]_vars
  PROVE  Queues'
<1> DEFINE Ahead(b) == captured'[b] # Idle => tail'[b] # <<>> /\ tail'[b][1] # 0
           Newest(b) == /\ \A i \in 1 .. Len(tail'[b]) : tail'[b][i] \in 1 .. version'[b]
                        /\ tail'[b] # <<>> => tail'[b][Len(tail'[b])] = version'[b]
           Good == (\A b \in Agents : Ahead(b)) /\ (\A b \in Living' : Newest(b))
<1> SUFFICES Good
  BY DEF Queues
<1>0. /\ tail \in [Agents -> Seq(Versions)] /\ captured \in [Agents -> {Idle, 0} \cup Requests]
      /\ version \in Content /\ MaxChanges \in Nat
      /\ deletedBy \in [Agents -> {"nobody", "me", "other"}]
  BY Typed
<1>a. Living' \subseteq Living /\ Living \subseteq Agents
  BY Forward
<1>b. \A b \in Agents : version[b] \in Nat /\ tail[b] \in Seq(Versions)
  BY <1>0 DEF Content, Versions
<1>c. ASSUME UNCHANGED <<tail, captured, version>> PROVE Good
  BY <1>a, <1>c DEF Queues
<1>d. ASSUME NEW a \in Agents, NEW x \in Versions, tail' = [tail EXCEPT ![a] = Append(@, x)],
             captured' = captured
      PROVE  (\A b \in Agents : Ahead(b)) /\ (\A b \in Agents \ {a} : tail'[b] = tail[b])
             /\ tail'[a] = Append(tail[a], x)
  <2>1. tail'[a] = Append(tail[a], x) /\ \A b \in Agents \ {a} : tail'[b] = tail[b]
    BY <1>0, <1>d
  <2>2. Ahead(a)
    <3>1. captured[a] # Idle => tail[a] # <<>> /\ tail[a][1] # 0
      BY DEF Queues
    <3> QED
      BY <1>b, <1>d, <2>1, <3>1, QueueFacts
  <2>3. \A b \in Agents \ {a} : Ahead(b)
    BY <1>d, <2>1 DEF Queues
  <2> HIDE DEF Ahead
  <2> QED
    BY <2>1, <2>2, <2>3
<1>1. ASSUME NEW a \in Agents, AgentChanges(a) PROVE Good
  <2>1. version[a] + 1 \in Versions /\ a \in Living /\ captured' = captured
    BY <1>0, <1>1, <1>b DEF AgentChanges, Versions, Living
  <2>2. \A b \in Agents : version'[b] = IF b = a THEN version[a] + 1 ELSE version[b]
    BY <1>0, <1>1 DEF AgentChanges, Content
  <2>3. /\ \A b \in Agents : Ahead(b)
        /\ \A b \in Agents \ {a} : tail'[b] = tail[b]
        /\ tail'[a] = Append(tail[a], version[a] + 1)
    <3> HIDE DEF Ahead
    <3> QED
      BY <1>1, <1>d, <2>1 DEF AgentChanges
  <2>4. Newest(a)
    <3> DEFINE q == tail[a]
               n == Len(q)
    <3>1. /\ n \in Nat /\ tail'[a] # <<>> /\ Len(tail'[a]) = n + 1
          /\ tail'[a][n + 1] = version[a] + 1 /\ \A i \in 1 .. n : tail'[a][i] = q[i]
      BY <1>b, <2>1, <2>3, QueueFacts
    <3>2. \A i \in 1 .. n : q[i] \in 1 .. version[a]
      BY <2>1 DEF Queues
    <3> HIDE DEF q, n
    <3>3. version'[a] = version[a] + 1 /\ version[a] \in Nat
      BY <1>b, <2>2
    <3>4. \A i \in 1 .. n + 1 : tail'[a][i] \in 1 .. version'[a]
      <4> TAKE i \in 1 .. n + 1
      <4>1. CASE i = n + 1
        BY <3>1, <3>3, <4>1
      <4>2. CASE i \in 1 .. n
        <5>1. tail'[a][i] \in 1 .. version[a]
          BY <3>1, <3>2, <4>2
        <5> QED
          BY <3>3, <5>1
      <4> QED
        BY <3>1, <4>1, <4>2
    <3> QED
      BY <3>1, <3>3, <3>4
  <2>5. ASSUME NEW b \in Living', b # a PROVE Newest(b)
    BY <1>a, <2>2, <2>3, <2>5 DEF Queues
  <2> HIDE DEF Ahead, Newest
  <2> QED
    BY <2>3, <2>4, <2>5
<1>2. ASSUME NEW a \in Agents, DeleteAgent(a) PROVE Good
  <2>1. 0 \in Versions /\ captured' = captured /\ version' = version
    BY <1>0, <1>2 DEF DeleteAgent, Versions
  <2>2. a \notin Living'
    BY <1>0, <1>2 DEF DeleteAgent, Living
  <2>3. (\A b \in Agents : Ahead(b)) /\ (\A b \in Agents \ {a} : tail'[b] = tail[b])
    <3> HIDE DEF Ahead
    <3> QED
      BY <1>2, <1>d, <2>1 DEF DeleteAgent
  <2>4. ASSUME NEW b \in Living' PROVE Newest(b)
    BY <1>a, <2>1, <2>2, <2>3, <2>4 DEF Queues
  <2> HIDE DEF Ahead, Newest
  <2> QED
    BY <2>3, <2>4
<1>3. ASSUME NEW a \in Agents, StartUpdate(a) PROVE Good
  <2>1. tail' = tail /\ version' = version /\ \A b \in Agents \ {a} : captured'[b] = captured[b]
    BY <1>0, <1>3 DEF StartUpdate, daemon
  <2>2. tail[a] # <<>> /\ tail[a][1] # 0
    BY <1>b, <1>3, TailFacts DEF StartUpdate
  <2> QED
    BY <1>a, <2>1, <2>2 DEF Queues
<1>4. ASSUME NEW a \in Agents, FinishUpdate(a) \/ RunRemoval(a) PROVE Good
  <2>1. /\ tail[a] # <<>> /\ captured'[a] = Idle
        /\ \A b \in Agents \ {a} : captured'[b] = captured[b]
        /\ tail' = [tail EXCEPT ![a] = Tail(@)] /\ version' = version
    BY <1>4, JobFacts
  <2>2. tail'[a] = Tail(tail[a]) /\ \A b \in Agents \ {a} : tail'[b] = tail[b]
    BY <1>0, <2>1
  <2>3. \A b \in Agents : Ahead(b)
    BY <2>1, <2>2 DEF Queues
  <2>4. ASSUME NEW b \in Living', b # a PROVE Newest(b)
    BY <1>a, <2>1, <2>2, <2>4 DEF Queues
  <2>5. ASSUME a \in Living' PROVE Newest(a)
    <3> DEFINE q == tail[a]
               t == Tail(q)
    <3>1. /\ t \in Seq(Versions) /\ Len(t) = Len(q) - 1 /\ Len(q) \in Nat
          /\ \A i \in 1 .. Len(t) : i + 1 \in 1 .. Len(q) /\ t[i] = q[i + 1]
      BY <1>b, <2>1, TailFacts
    <3>2. /\ \A i \in 1 .. Len(q) : q[i] \in 1 .. version[a]
          /\ q[Len(q)] = version[a]
      BY <1>a, <2>1, <2>5 DEF Queues
    <3>3. t # <<>> => Len(t) \in 1 .. Len(t)
      BY <3>1
    <3> HIDE DEF q, t
    <3>4. \A i \in 1 .. Len(t) : t[i] \in 1 .. version[a]
      BY <3>1, <3>2
    <3>5. t # <<>> => t[Len(t)] = version[a]
      <4> SUFFICES ASSUME t # <<>> PROVE t[Len(t)] = version[a]
        OBVIOUS
      <4>1. Len(t) \in 1 .. Len(t)
        BY <3>3
      <4>2. t[Len(t)] = q[Len(t) + 1]
        BY <3>1, <4>1
      <4>3. Len(t) + 1 = Len(q)
        BY <3>1
      <4> QED
        BY <3>2, <4>2, <4>3
    <3> QED
      BY <2>1, <2>2, <3>4, <3>5 DEF q, t
  <2> HIDE DEF Ahead, Newest
  <2> QED
    BY <2>3, <2>4, <2>5
<1>5. ASSUME GraceEnds PROVE Good
  <2>1. \A b \in Agents : tail'[b] = <<>> /\ captured'[b] = Idle
    BY <1>5 DEF GraceEnds
  <2> QED
    BY <1>a, <2>1
<1>6. ASSUME NEW a \in Agents, OtherDeletes(a) \/ FetchTimeline(a)
      PROVE  UNCHANGED <<tail, captured, version>>
  BY <1>6 DEF OtherDeletes, FetchTimeline, daemon, session
<1>7. ASSUME NEW a \in Agents, NEW v \in Versions, OtherSequences(a, v)
      PROVE  UNCHANGED <<tail, captured, version>>
  BY <1>7 DEF OtherSequences, session
<1>8. ASSUME NEW l \in listings, FetchFails(l) PROVE UNCHANGED <<tail, captured, version>>
  BY <1>8 DEF FetchFails, daemon
<1>9. ASSUME NEW l \in listings, NEW order \in Orders(l.list), FetchReplies(l, order)
      PROVE  UNCHANGED <<tail, captured, version>>
  BY <1>9 DEF FetchReplies
<1>10. ASSUME FetchAgents \/ Refresh \/ Receive \/ Disconnect \/ Resume \/ UNCHANGED vars
       PROVE  UNCHANGED <<tail, captured, version>>
  BY <1>10 DEF FetchAgents, Refresh, Receive, Disconnect, Resume, vars, daemon, session
<1> HIDE DEF Good
<1> QED
  BY <1>c, <1>1, <1>2, <1>3, <1>4, <1>5, <1>6, <1>7, <1>8, <1>9, <1>10 DEF Next

-----------------------------------------------------------------------------
(* What is said of living agents.                                           *)

(* Applying recorded updates brings a living agent forwards only, and not   *)
(* beyond its version.                                                      *)
LEMMA DeltasApply ==
  ASSUME TypeOK, Told, NEW content \in Content, NEW a \in Living
  PROVE  /\ AcceptAll(content, deltas) \in Content
         /\ AcceptAll(content, deltas)[a] >= content[a]
         /\ content[a] <= version[a] => AcceptAll(content, deltas)[a] <= version[a]
<1>0. deltas \in Seq(Update) /\ version \in Content /\ a \in Agents
  BY Typed DEF Living
<1>1. deltas \in Seq(TrueUpdate)
  BY DEF Told
<1>2. \A i \in 1 .. Len(deltas) : deltas[i] \in TrueUpdate
  BY <1>1
<1>3. \A i \in 1 .. Len(deltas) : deltas[i].agent = a => deltas[i].ver \in 1 .. version[a]
  BY <1>2 DEF TrueUpdate
<1>4. version[a] \in Versions
  BY <1>0 DEF Content
<1>5. \A i \in 1 .. Len(deltas) : deltas[i].agent = a => deltas[i].ver # 0 /\ deltas[i].ver <= version[a]
  BY <1>3
<1> QED
  BY <1>0, <1>4, <1>5, AcceptAllBounds

(* What commitChanges carries over.                                         *)
LEMMA CarriedFacts ==
  ASSUME view \in Content, NEW a \in Agents
  PROVE  /\ view[a] \in Nat /\ Carried(a) \in Nat /\ Carried(a) <= view[a]
         /\ a \notin unplaced => Carried(a) = view[a]
         /\ a \in unplaced => Carried(a) = 0
BY BoundsAssumption DEF Carried, Content, Versions

(* What the kinds of messages, and a lost socket, do to the replica.        *)
LEMMA ReplicaMoves ==
  ASSUME TypeOK, Told, NEW a \in Living, view[a] <= version[a], NEW m
  PROVE  /\ Applied(m) => /\ m \in TrueUpdate /\ view'[a] \in Nat
                          /\ view[a] <= view'[a] /\ view'[a] <= version[a]
                          /\ m.agent = a => view'[a] >= m.ver
         /\ Removed(m) => view'[a] = view[a]
         /\ Brought(m) => /\ m \in TrueMessage /\ m.agent \in Agents /\ view'[a] \in Nat
                          /\ view[a] <= view'[a] /\ view'[a] <= version[a]
                          /\ \/ view'[a] = view[a] \/ m.agent # a
                             \/ m.agent = a /\ a \in tokens /\ view'[a] = m.ver
         /\ Completed(m) => /\ m \in Answer /\ m \in TrueMessage /\ view'[a] \in Nat
                            /\ Leaves(m, a, Carried(a)) \in Nat
                            /\ Leaves(m, a, Carried(a)) <= view'[a] /\ view'[a] <= version[a]
         /\ Failed(m) \/ Disconnect => view'[a] \in Nat /\ view[a] <= view'[a] /\ view'[a] <= version[a]
         /\ Recorded(m) \/ Ignored(m) => view'[a] = view[a]
<1>0. /\ wire \in Seq(TrueMessage) /\ view \in Content /\ version \in Content /\ a \in Agents
      /\ MaxChanges \in Nat
  BY Typed DEF Told, Living
<1>a. view[a] \in Nat /\ version[a] \in Nat /\ \A c \in Content : c[a] \in Nat
  BY <1>0 DEF Content, Versions
<1>b. Takes(m) => m \in TrueMessage /\ m \in Message
  BY <1>0, TailFacts DEF Takes, TrueMessage
<1>1. ASSUME Applied(m)
      PROVE  /\ m \in TrueUpdate /\ view'[a] \in Nat
             /\ view[a] <= view'[a] /\ view'[a] <= version[a]
             /\ m.agent = a => view'[a] >= m.ver
  <2>1. m \in TrueUpdate /\ m \in Update /\ m.agent \in Agents /\ m.ver \in Nat
    BY <1>0, <1>1, <1>b, MessageKinds, MessageFields DEF Applied, TrueMessage, Versions
  <2>2. m.agent = a => m.ver \in 1 .. version[a]
    BY <2>1 DEF TrueUpdate
  <2>3. view'[a] = IF a = m.agent /\ (m.ver = 0 \/ m.ver >= view[a]) THEN m.ver ELSE view[a]
    BY <1>0, <1>1, <2>1 DEF Applied, Accept, Content
  <2> QED
    BY <1>a, <2>1, <2>2, <2>3
<1>2. ASSUME Removed(m) PROVE view'[a] = view[a]
  <2>1. m.agent # a
    BY <1>2, <1>b DEF Removed, TrueMessage
  <2> QED
    BY <1>0, <1>2, <2>1 DEF Removed, ReceiveDeleted, Content
<1>6. ASSUME Brought(m)
      PROVE  /\ m \in TrueMessage /\ m.agent \in Agents /\ view'[a] \in Nat
             /\ view[a] <= view'[a] /\ view'[a] <= version[a]
             /\ \/ view'[a] = view[a] \/ m.agent # a
                \/ m.agent = a /\ a \in tokens /\ view'[a] = m.ver
  <2>1. m \in TrueMessage /\ m \in Page /\ m.agent \in Agents /\ m.ver \in Nat
    BY <1>0, <1>6, <1>b, MessageKinds, MessageFields DEF Brought, Versions
  <2>2. m.agent = a => m.ver \in 1 .. version[a]
    BY <1>6, <2>1 DEF Brought, TrueMessage
  <2>3. CASE m.agent \in tokens
    <3>1. view'[a] = IF a = m.agent /\ (m.ver = 0 \/ m.ver >= view[a]) THEN m.ver ELSE view[a]
      BY <1>0, <1>6, <2>1, <2>3 DEF Brought, ReceivePage, Accept, Content
    <3> QED
      BY <1>a, <2>1, <2>2, <2>3, <3>1
  <2>4. CASE m.agent \notin tokens
    <3>1. view'[a] = view[a]
      BY <1>6, <2>4 DEF Brought, ReceivePage
    <3>2. view[a] <= view[a]
      BY <1>a
    <3> QED
      BY <1>a, <2>1, <3>1, <3>2
  <2> QED
    BY <2>3, <2>4
<1>3. ASSUME Completed(m)
      PROVE  /\ m \in Answer /\ m \in TrueMessage /\ view'[a] \in Nat
             /\ Leaves(m, a, Carried(a)) \in Nat
             /\ Leaves(m, a, Carried(a)) <= view'[a] /\ view'[a] <= version[a]
  <2>1. m \in Answer /\ m \in TrueMessage
    BY <1>3, <1>b, MessageKinds DEF Completed
  <2>2. Committed(m) \in Content /\ Committed(m)[a] = Leaves(m, a, Carried(a))
    BY <1>0, <2>1, CommittedLeaves
  <2>3. m.values[a] <= version[a] /\ m.values[a] \in Nat
    BY <1>3, <1>a, <2>1, MessageFields DEF Completed, TrueMessage
  <2>4. Leaves(m, a, Carried(a)) <= version[a]
    <3>1. Carried(a) \in Nat /\ Carried(a) <= view[a]
      BY <1>0, CarriedFacts
    <3>2. Carried(a) <= version[a] /\ 0 <= version[a]
      BY <1>a, <3>1
    <3> QED
      BY <2>3, <3>2 DEF Leaves
  <2>5. view' = AcceptAll(Committed(m), deltas)
    BY <1>3 DEF Completed, ReceiveResponse
  <2>6. /\ view' \in Content /\ view'[a] >= Committed(m)[a]
        /\ Committed(m)[a] <= version[a] => view'[a] <= version[a]
    BY <2>2, <2>5, DeltasApply
  <2>7. view'[a] \in Nat /\ Committed(m)[a] \in Nat
    BY <1>a, <2>2, <2>6
  <2> QED
    BY <2>1, <2>2, <2>4, <2>6, <2>7
<1>4. ASSUME Failed(m) \/ Disconnect
      PROVE  view'[a] \in Nat /\ view[a] <= view'[a] /\ view'[a] <= version[a]
  <2>1. view' = AcceptAll(view, deltas)
    BY <1>4 DEF Failed, ReceiveError, Disconnect
  <2>2. view' \in Content /\ view'[a] >= view[a] /\ view'[a] <= version[a]
    BY <1>0, <2>1, DeltasApply
  <2> QED
    BY <1>a, <2>2
<1>5. Recorded(m) \/ Ignored(m) => view'[a] = view[a]
  BY DEF Recorded, Ignored, ReceiveStale
<1> QED
  BY <1>1, <1>2, <1>3, <1>4, <1>5, <1>6

(* How far the cursor moves.                                                *)
LEMMA CursorMoves ==
  ASSUME TypeOK, NEW m, NEW N \in Int, cursor <= N
  PROVE  /\ Applied(m) /\ m.seq <= N => cursor' <= N
         /\ Completed(m) /\ m.headSeq <= N /\ (\A i \in 1 .. Len(deltas) : deltas[i].seq <= N)
              => cursor' <= N
         /\ Recorded(m) \/ Removed(m) \/ Brought(m) \/ Failed(m) \/ Ignored(m) \/ Disconnect =>
              cursor' = cursor
<1>0. /\ wire \in Seq(Message) /\ cursor \in 0 .. MaxHead /\ MaxHead \in Nat /\ deltas \in Seq(Update)
  BY Typed
<1>a. Takes(m) => m \in Message
  BY <1>0, TailFacts DEF Takes
<1>1. ASSUME Applied(m), m.seq <= N PROVE cursor' <= N
  <2>1. m \in Update
    BY <1>1, <1>a, MessageKinds DEF Applied
  <2>2. <<m>> \in Seq(Update) /\ Len(<<m>>) = 1 /\ <<m>>[1] = m
    BY <2>1
  <2>3. \A i \in 1 .. Len(<<m>>) : <<m>>[i].seq <= N
    BY <1>1, <2>2
  <2>4. cursor' = NoteLiveCursors(cursor, <<m>>)
    BY <1>1 DEF Applied
  <2> DEFINE u == <<m>>
  <2> HIDE DEF u
  <2>5. u \in Seq(Update) /\ (\A i \in 1 .. Len(u) : u[i].seq <= N) /\ cursor' = NoteLiveCursors(cursor, u)
    BY <2>2, <2>3, <2>4 DEF u
  <2> QED
    BY <1>0, <2>5, NoteLiveCursorsBounds
<1>2. ASSUME Completed(m), m.headSeq <= N, \A i \in 1 .. Len(deltas) : deltas[i].seq <= N
      PROVE  cursor' <= N
  <2>1. m.headSeq \in 0 .. MaxHead
    BY <1>2, <1>a, MessageKinds, MessageFields DEF Completed
  <2>2. Larger(cursor, m.headSeq) \in 0 .. MaxHead /\ Larger(cursor, m.headSeq) <= N
    BY <1>0, <1>2, <2>1 DEF Larger
  <2>3. cursor' = NoteLiveCursors(Larger(cursor, m.headSeq), deltas)
    BY <1>2 DEF Completed, ReceiveResponse
  <2> QED
    BY <1>0, <1>2, <2>2, <2>3, NoteLiveCursorsBounds
<1>3. Recorded(m) \/ Removed(m) \/ Brought(m) \/ Failed(m) \/ Ignored(m) \/ Disconnect =>
        cursor' = cursor
  BY DEF Recorded, Removed, Brought, Failed, Ignored, ReceiveDeleted, ReceivePage, ReceiveError,
     ReceiveStale, Disconnect
<1> QED
  BY <1>1, <1>2, <1>3

(* Which steps change the replica, the listings and the requests.           *)
LEMMA WhoChanges ==
  ASSUME [Next]_vars
  PROVE  /\ UNCHANGED <<view, cursor, deltas, skipped>> \/ Receive \/ Disconnect
         /\ listings' \subseteq listings \/ FetchAgents
         /\ UNCHANGED requests \/ FetchAgents \/ Refresh \/ Disconnect
         /\ UNCHANGED <<value, seq, head>> \/ UNCHANGED <<view, cursor, deltas, skipped>>
<1>1. ASSUME NEW a \in Agents,
             AgentChanges(a) \/ DeleteAgent(a) \/ OtherDeletes(a) \/ StartUpdate(a) \/ FinishUpdate(a)
               \/ RunRemoval(a) \/ FetchTimeline(a) \/ \E v \in Versions : OtherSequences(a, v)
      PROVE  UNCHANGED <<view, cursor, deltas, skipped, listings, requests>>
  BY <1>1 DEF AgentChanges, DeleteAgent, OtherDeletes, StartUpdate, FinishUpdate, RunRemoval,
     FetchTimeline, OtherSequences, session, ui
<1>2. ASSUME NEW l \in listings, FetchFails(l) \/ \E order \in Orders(l.list) : FetchReplies(l, order)
      PROVE  UNCHANGED <<view, cursor, deltas, skipped, requests>> /\ listings' \subseteq listings
  BY <1>2 DEF FetchFails, FetchReplies, ui
<1>3. ASSUME FetchAgents PROVE UNCHANGED <<view, cursor, deltas, skipped>>
  BY <1>3 DEF FetchAgents, ui
<1>4. ASSUME Refresh PROVE UNCHANGED <<view, cursor, deltas, skipped, listings>>
  BY <1>4 DEF Refresh, session
<1>5. ASSUME Receive PROVE UNCHANGED <<value, seq, head, listings, requests>>
  BY <1>5 DEF Receive, daemon, session
<1>6. ASSUME Disconnect PROVE UNCHANGED <<value, seq, head, listings>>
  BY <1>6 DEF Disconnect, daemon, session
<1>7. ASSUME Resume \/ GraceEnds \/ UNCHANGED vars
      PROVE  UNCHANGED <<view, cursor, deltas, skipped, requests>> /\ listings' \subseteq listings
  BY <1>7 DEF Resume, GraceEnds, vars, session, ui
<1> QED
  BY <1>1, <1>2, <1>3, <1>4, <1>5, <1>6, <1>7 DEF Next

(* Receive and Disconnect, seen from the replica.                           *)
LEMMA ReplicaKept ==
  ASSUME TypeOK, Queues, Known, Told, [Next]_vars
  PROVE  /\ \A a \in Living : view'[a] \in Nat /\ view[a] \in Nat /\ view'[a] <= version[a]
         /\ cursor' <= head
<1>0. /\ view \in Content /\ cursor \in 0 .. MaxHead /\ head \in 0 .. MaxHead /\ MaxHead \in Nat
      /\ wire \in Seq(Message) /\ MaxChanges \in Nat
  BY Typed
<1>1. cursor <= head /\ \A a \in Living : view[a] <= version[a] /\ view[a] \in Nat /\ a \in Agents
  BY <1>0 DEF Known, Living, Content, Versions
<1>2. CASE UNCHANGED <<view, cursor, deltas, skipped>>
  BY <1>1, <1>2
<1>3. ASSUME Receive
      PROVE  /\ \A a \in Living : view'[a] \in Nat /\ view'[a] <= version[a]
             /\ cursor' <= head
  <2>1. PICK m : Recorded(m) \/ Applied(m) \/ Removed(m) \/ Brought(m) \/ Completed(m) \/ Failed(m) \/ Ignored(m)
    BY <1>3, ReceiveCases
  <2>2. ASSUME NEW a \in Living PROVE view'[a] \in Nat /\ view'[a] <= version[a]
    BY <1>1, <2>1, ReplicaMoves
  <2>3. cursor' <= head
    <3>1. Takes(m)
      BY <2>1 DEF Recorded, Applied, Removed, Brought, Completed, Failed, Ignored
    <3>2. m \in TrueMessage
      BY <3>1, TailFacts DEF Takes, Told
    <3>3. m.type = "update" => m.seq <= head
      BY <3>2 DEF TrueMessage, TrueUpdate
    <3>4. m.type = "response" => m.headSeq <= head
      BY <3>2 DEF TrueMessage
    <3>5. deltas \in Seq(TrueUpdate)
      BY DEF Told
    <3>6. \A i \in 1 .. Len(deltas) : deltas[i] \in TrueUpdate
      BY <3>5
    <3>7. \A i \in 1 .. Len(deltas) : deltas[i].seq <= head
      BY <3>6 DEF TrueUpdate
    <3>8. head \in Int
      BY <1>0
    <3>9. (Applied(m) => m.type = "update") /\ (Completed(m) => m.type = "response")
      BY DEF Applied, Completed
    <3> QED
      BY <1>1, <2>1, <3>3, <3>4, <3>7, <3>8, <3>9, CursorMoves
  <2> QED
    BY <2>2, <2>3
<1>4. ASSUME Disconnect
      PROVE  /\ \A a \in Living : view'[a] \in Nat /\ view'[a] <= version[a]
             /\ cursor' <= head
  <2>1. ASSUME NEW a \in Living PROVE view'[a] \in Nat /\ view'[a] <= version[a]
    BY <1>1, <1>4, ReplicaMoves
  <2> QED
    BY <1>1, <1>4, <2>1 DEF Disconnect
<1> QED
  BY <1>1, <1>2, <1>3, <1>4, WhoChanges

(* Every step keeps what is known.                                          *)
LEMMA KnownKept ==
  ASSUME TypeOK, Queues, Known, Told, [Next]_vars
  PROVE  Known'
<1>0. /\ version \in Content /\ cursor \in 0 .. MaxHead /\ head \in 0 .. MaxHead /\ MaxHead \in Nat
      /\ MaxChanges \in Nat /\ seq \in [Agents -> 0 .. MaxHead]
      /\ requests \in Seq([request : Requests, after : 0 .. MaxHead])
      /\ \A l \in listings : l.after \in 0 .. MaxHead /\ l.list \in Content
  BY Typed
<1>a. /\ Living \subseteq Agents /\ Living' \subseteq Living
      /\ \A a \in Agents : version[a] \in Nat /\ version'[a] \in Nat /\ version[a] <= version'[a]
      /\ head <= head' /\ cursor <= cursor'
      /\ \A a \in Agents :
           \/ value'[a] = value[a] /\ seq'[a] = seq[a]
           \/ seq'[a] \in (head + 1) .. head'
  BY Forward
<1>b. head' \in 0 .. MaxHead /\ cursor' \in 0 .. MaxHead
  BY NextTyped DEF TypeOK
<1>1. ASSUME NEW a \in Living' PROVE view'[a] <= version'[a]
  <2>1. /\ a \in Agents /\ version[a] <= version'[a] /\ version[a] \in Nat /\ version'[a] \in Nat
        /\ view'[a] \in Nat /\ view'[a] <= version[a]
    BY <1>a, ReplicaKept
  <2> QED
    BY <2>1
<1>2. cursor' <= head'
  <2>1. cursor' <= head
    BY ReplicaKept
  <2> QED
    BY <1>0, <1>a, <1>b, <2>1
<1>3. ASSUME NEW a \in Agents PROVE seq'[a] <= head'
  <2>1. seq[a] \in 0 .. MaxHead /\ seq[a] <= head
    BY <1>0 DEF Known
  <2> QED
    BY <1>0, <1>a, <1>b, <2>1
<1>4. ASSUME NEW l \in listings'
      PROVE  l.after <= cursor' /\ \A a \in Living' : l.list[a] <= version'[a]
  <2>1. CASE l \in listings
    <3>1. l.after <= cursor /\ \A a \in Living : l.list[a] <= version[a]
      BY <2>1 DEF Known
    <3>2. l.after \in 0 .. MaxHead /\ \A a \in Agents : l.list[a] \in Nat
      BY <1>0, <2>1 DEF Content, Versions
    <3>3. l.after <= cursor'
      BY <1>0, <1>a, <1>b, <3>1, <3>2
    <3>4. ASSUME NEW a \in Living' PROVE l.list[a] <= version'[a]
      <4>1. /\ a \in Agents /\ version[a] <= version'[a] /\ version[a] \in Nat /\ version'[a] \in Nat
            /\ l.list[a] \in Nat /\ l.list[a] <= version[a]
        BY <1>a, <3>1, <3>2
      <4> QED
        BY <4>1
    <3> QED
      BY <3>3, <3>4
  <2>2. CASE l \notin listings
    <3>1. FetchAgents
      BY <2>2, WhoChanges
    <3>2. l.after = Head(requests).after /\ l.list = Current /\ requests # <<>>
      BY <2>2, <3>1 DEF FetchAgents
    <3>3. Head(requests).after <= cursor
      BY <1>0, <3>2, TailFacts DEF Known
    <3>4. cursor' = cursor /\ version' = version
      BY <3>1 DEF FetchAgents, ui, daemon
    <3>5. ASSUME NEW a \in Living' PROVE l.list[a] <= version[a]
      BY <1>a, <3>2 DEF Current, Truth
    <3> QED
      BY <3>2, <3>3, <3>4, <3>5
  <2> QED
    BY <2>1, <2>2
<1>5. ASSUME NEW i \in 1 .. Len(requests') PROVE requests'[i].after <= cursor'
  <2>0. \A j \in 1 .. Len(requests) : requests[j].after <= cursor'
    <3> TAKE j \in 1 .. Len(requests)
    <3>0. requests \in Seq([request : Requests, after : 0 .. MaxHead])
      BY <1>0
    <3>1. requests[j].after \in 0 .. MaxHead
      <4>1. requests[j] \in [request : Requests, after : 0 .. MaxHead]
        BY <3>0, ElementOf
      <4> QED
        BY <4>1
    <3>2. requests[j].after <= cursor
      BY DEF Known
    <3> QED
      BY <1>0, <1>a, <1>b, <3>1, <3>2
  <2>1. CASE UNCHANGED requests
    BY <2>0, <2>1
  <2>2. CASE FetchAgents
    <3>1. requests # <<>> /\ requests' = Tail(requests)
      BY <2>2 DEF FetchAgents
    <3> QED
      BY <1>0, <2>0, <3>1, TailFacts
  <2>3. CASE Refresh
    <3> DEFINE r == [request |-> fetches + 1, after |-> cursor]
    <3>1. requests' = Append(requests, r) /\ cursor' = cursor /\ r.after = cursor
      BY <2>3 DEF Refresh
    <3> HIDE DEF r
    <3>2. Len(requests) \in Nat /\ Len(requests') = Len(requests) + 1
      BY <1>0, <3>1
    <3>3. requests'[Len(requests) + 1] = r /\ \A j \in 1 .. Len(requests) : requests'[j] = requests[j]
      BY <1>0, <3>1
    <3>4. i \in 1 .. Len(requests) \/ i = Len(requests) + 1
      BY <3>2
    <3>5. cursor <= cursor
      BY <1>0
    <3> QED
      BY <2>0, <3>1, <3>3, <3>4, <3>5
  <2>4. CASE Disconnect
    BY <2>4 DEF Disconnect
  <2> QED
    BY <2>1, <2>2, <2>3, <2>4, WhoChanges
<1> QED
  BY <1>1, <1>2, <1>3, <1>4, <1>5 DEF Known

(* A sequence whose elements are all in a set is one over that set.         *)
LEMMA SeqOver ==
  ASSUME NEW S, NEW T, NEW s \in Seq(S), \A i \in 1 .. Len(s) : s[i] \in T
  PROVE  s \in Seq(T)
<1>1. Len(s) \in Nat /\ s \in [1 .. Len(s) -> S]
  OBVIOUS
<1>2. s \in [1 .. Len(s) -> T]
  BY <1>1
<1> QED
  BY <1>1, <1>2

(* The update a job publishes is true.                                      *)
LEMMA PublishedTrue ==
  ASSUME TypeOK, Queues, Known, Told, [Next]_vars, NEW a \in Agents,
         FinishUpdate(a) \/ RunRemoval(a), Published(a, Head(tail[a])) \in Update
  PROVE  Published(a, Head(tail[a])) \in TrueUpdate'
<1> DEFINE u == Published(a, Head(tail[a]))
<1>1. u.agent = a /\ u.ver = Head(tail[a]) /\ u.seq = seq'[a]
  BY DEF Published
<1>2. tail[a] # <<>> /\ tail[a] \in Seq(Versions) /\ Head(tail[a]) = tail[a][1] /\ version' = version
  BY JobFacts
<1>3. u.seq <= head'
  BY <1>1, KnownKept DEF Known
<1>4. ASSUME a \in Living' PROVE u.ver \in 1 .. version'[a]
  <2>1. a \in Living
    BY <1>4, Forward
  <2>2. 1 \in 1 .. Len(tail[a])
    BY <1>2, TailFacts
  <2>3. tail[a][1] \in 1 .. version[a]
    BY <2>1, <2>2 DEF Queues
  <2> QED
    BY <1>1, <1>2, <2>3
<1> HIDE DEF u
<1> QED
  BY <1>1, <1>3, <1>4 DEF TrueUpdate, u

(* The answer to a listing is true, and so is what is flushed behind it.    *)
LEMMA AnswerTrue ==
  ASSUME TypeOK, Queues, Known, Told, [Next]_vars, NEW l \in listings,
         NEW order \in Orders(l.list), FetchReplies(l, order)
  PROVE  /\ Moves /\ value' = l.list /\ seq' \in [Agents -> 0 .. MaxHead]
         /\ head' \in 0 .. MaxHead /\ \A a \in Agents : l.list[a] # value[a] => seq'[a] > head
         /\ Response(l) \in TrueMessage' /\ Flushed(Response(l)) \in Seq(TrueUpdate')
<1>0. l.list \in Content /\ pending \in Seq(Update) /\ MaxHead \in Nat /\ MaxChanges \in Nat
  BY Typed
<1>1. /\ Moves /\ value' = l.list /\ seq' \in [Agents -> 0 .. MaxHead]
      /\ \A a \in Agents : l.list[a] # value[a] => seq'[a] > head
  BY <1>0, AbsorbMoves DEF FetchReplies
<1>2. head' \in 0 .. MaxHead
  BY <1>1 DEF Moves
<1>3. /\ Response(l) \in Answer /\ Response(l).type = "response" /\ Response(l).headSeq = head'
      /\ \A a \in Agents : Response(l).values[a] \in {l.list[a], 0}
  BY <1>1, <1>2, ResponseFacts
<1>4. Response(l) \in Message
  BY <1>3, MessageKinds
<1>5. ASSUME NEW a \in Living' PROVE Response(l).values[a] <= version'[a]
  <2>1. a \in Agents /\ a \in Living /\ version' = version /\ version[a] \in Nat
    BY Forward DEF FetchReplies
  <2>2. l.list[a] <= version[a]
    BY <2>1 DEF Known
  <2> QED
    BY <1>3, <2>1, <2>2
<1>6. head' <= head'
  BY <1>0, <1>2
<1>7. Response(l) \in TrueMessage'
  BY <1>3, <1>4, <1>5, <1>6 DEF TrueMessage
<1>8. pending \in Seq(TrueUpdate')
  BY TrueStays, SeqGrows DEF Told
<1>9. \A i \in 1 .. Len(pending) : pending[i] \in TrueUpdate'
  BY <1>8
<1>10. /\ Flushed(Response(l)) \in Seq(Update)
       /\ \A k \in 1 .. Len(Flushed(Response(l))) : Flushed(Response(l))[k] \in TrueUpdate'
  BY <1>0, <1>9, FlushedKeeps
<1>11. Flushed(Response(l)) \in Seq(TrueUpdate')
  BY <1>10, SeqOver
<1> QED
  BY <1>1, <1>2, <1>7, <1>11

(* Every step keeps what is told true.                                      *)
LEMMA ToldKept ==
  ASSUME TypeOK, Queues, Known, Told, [Next]_vars
  PROVE  Told'
<1>0. pending \in Seq(Update) /\ deltas \in Seq(Update) /\ wire \in Seq(Message)
  BY Typed
<1> DEFINE U == TrueUpdate'
           M == TrueMessage'
<1>1. pending \in Seq(U) /\ deltas \in Seq(U) /\ wire \in Seq(M)
  <2>1. TrueUpdate \subseteq U /\ TrueMessage \subseteq M
    BY TrueStays
  <2>2. pending \in Seq(TrueUpdate) /\ deltas \in Seq(TrueUpdate) /\ wire \in Seq(TrueMessage)
    BY DEF Told
  <2> HIDE DEF U, M
  <2> QED
    BY <2>1, <2>2, SeqGrows
<1>2. U \subseteq M /\ U \subseteq Update /\ M \subseteq Message
  BY MessageKinds DEF TrueUpdate, TrueMessage
<1>3. <<>> \in Seq(U) /\ <<>> \in Seq(M)
  OBVIOUS
<1> DEFINE Good == pending' \in Seq(U) /\ deltas' \in Seq(U) /\ wire' \in Seq(M)
<1> SUFFICES Good
  BY DEF Told
<1>e. ASSUME NEW ms \in Seq(M), Emit(ms) PROVE wire' \in Seq(M)
  <2> HIDE DEF M
  <2> QED
    BY <1>1, <1>e DEF Emit
<1>4. ASSUME UNCHANGED <<pending, deltas, wire>> PROVE Good
  BY <1>1, <1>4
<1>5. ASSUME NEW a \in Agents,
             AgentChanges(a) \/ OtherDeletes(a) \/ StartUpdate(a) \/ \E v \in Versions : OtherSequences(a, v)
      PROVE  Good
  BY <1>4, <1>5 DEF AgentChanges, OtherDeletes, StartUpdate, OtherSequences, session, ui
<1>6. ASSUME NEW a \in Agents, DeleteAgent(a) PROVE Good
  <2> DEFINE m == [type |-> "deleted", agent |-> a]
  <2>1. m \in Deleted /\ m.agent = a
    BY DEF Deleted
  <2>2. m \in Message /\ m.type = "deleted"
    BY <2>1, MessageKinds
  <2>3. a \notin Living'
    BY <1>6, Typed DEF DeleteAgent, Living
  <2> HIDE DEF m
  <2>4. m \in M
    BY <2>1, <2>2, <2>3 DEF TrueMessage
  <2> HIDE DEF M, U
  <2>5. <<m>> \in Seq(M)
    BY <2>4
  <2>6. Emit(<<m>>) /\ pending' = pending /\ deltas' = deltas
    BY <1>6 DEF DeleteAgent, m, ui
  <2> QED
    BY <1>1, <1>e, <2>5, <2>6
<1>t. ASSUME NEW a \in Agents, FetchTimeline(a) PROVE Good
  <2>1. /\ PageOf(a) \in Message /\ PageOf(a).type = "page" /\ PageOf(a).agent = a
        /\ PageOf(a).ver \in 1 .. version[a] /\ Emit(<<PageOf(a)>>)
        /\ UNCHANGED <<version, pending, deltas>>
    BY <1>t, PageSent
  <2>2. PageOf(a) \in M
    BY <2>1 DEF TrueMessage
  <2> HIDE DEF M, U
  <2>3. <<PageOf(a)>> \in Seq(M)
    BY <2>2
  <2> QED
    BY <1>1, <1>e, <2>1, <2>3
<1>7. ASSUME NEW a \in Agents, FinishUpdate(a) \/ RunRemoval(a) PROVE Good
  <2> DEFINE sub == IF captured[a] = Idle THEN subscription ELSE captured[a]
             v == Head(tail[a])
             u == Published(a, v)
  <2>1. /\ Publish(sub, a, v) /\ v \in Versions /\ sub \in {0} \cup Requests /\ deltas' = deltas
    BY <1>7, JobFacts
  <2>2. u \in Update => u \in U
    BY <1>7, PublishedTrue
  <2> HIDE DEF sub, v, U, M
  <2>3. /\ sub # 0 => u \in Update
        /\ \/ sub = 0 /\ pending' = pending /\ wire' = wire
           \/ sub # 0 /\ pending' = Buffer(pending, u) /\ wire' = wire
           \/ sub # 0 /\ pending' = pending /\ wire' = wire
           \/ sub # 0 /\ pending' = pending /\ Emit(<<u>>)
    BY <2>1, PublishCases
  <2>4. CASE pending' = pending /\ wire' = wire
    BY <1>4, <2>1, <2>4
  <2>5. CASE sub # 0 /\ pending' = Buffer(pending, u) /\ wire' = wire
    <3>1. u \in Update /\ u \in U
      BY <2>2, <2>3, <2>5
    <3>2. \A i \in 1 .. Len(pending) : pending[i] \in U
      BY <1>1
    <3>a. /\ pending' \in Seq(Update)
          /\ \A i \in 1 .. Len(pending') :
               \/ pending'[i] = u
               \/ pending'[i].agent # u.agent /\ \E j \in 1 .. Len(pending) : pending'[i] = pending[j]
      <4>1. u \in Update /\ pending' = Buffer(pending, u) /\ pending \in Seq(Update)
        BY <1>0, <2>5, <3>1
      <4>2. Replaces(pending', pending, u)
        BY <4>1, BufferFacts
      <4>3. pending' \in Seq(Update)
        BY <4>1, BufferFacts
      <4> QED
        BY <4>2, <4>3 DEF Replaces
    <3>3. pending' \in Seq(Update) /\ \A i \in 1 .. Len(pending') : pending'[i] \in U
      BY <3>1, <3>2, <3>a
    <3>4. pending' \in Seq(U)
      BY <3>3, SeqOver
    <3> QED
      BY <1>1, <2>1, <2>5, <3>4
  <2>6. CASE sub # 0 /\ pending' = pending /\ Emit(<<u>>)
    <3>1. u \in M
      BY <1>2, <2>2, <2>3, <2>6
    <3>2. <<u>> \in Seq(M)
      BY <3>1
    <3> QED
      BY <1>1, <1>e, <2>1, <2>6, <3>2
  <2> QED
    BY <2>3, <2>4, <2>5, <2>6
<1>8. ASSUME FetchAgents \/ GraceEnds PROVE Good
  BY <1>1, <1>3, <1>8 DEF FetchAgents, GraceEnds, ui
<1>9. ASSUME NEW l \in listings, FetchFails(l) PROVE Good
  <2> DEFINE m == [type |-> "error", request |-> l.request]
  <2>0. l.request \in Requests
    BY Typed
  <2>1. m \in Failure
    BY <2>0 DEF Failure
  <2>2. m \in Message /\ m.type = "error"
    BY <2>1, MessageKinds
  <2> HIDE DEF m
  <2>3. m \in M
    BY <2>2 DEF TrueMessage
  <2> HIDE DEF M, U
  <2>4. <<m>> \in Seq(M)
    BY <2>3
  <2>5. Emit(<<m>>) /\ pending' \in {pending, <<>>} /\ deltas' = deltas
    BY <1>9 DEF FetchFails, m, ui
  <2> QED
    BY <1>1, <1>3, <1>e, <2>4, <2>5
<1>10. ASSUME NEW l \in listings, NEW order \in Orders(l.list), FetchReplies(l, order) PROVE Good
  <2> DEFINE m == Response(l)
             f == Flushed(Response(l))
  <2>1. m \in M /\ f \in Seq(U)
    BY <1>10, AnswerTrue
  <2>2. /\ Emit(<<m>> \o (IF l.request = subscription THEN f ELSE <<>>))
        /\ pending' \in {pending, <<>>} /\ deltas' = deltas
    BY <1>10 DEF FetchReplies, ui
  <2> HIDE DEF M, U, m, f
  <2>3. <<m>> \in Seq(M) /\ f \in Seq(M)
    BY <1>2, <2>1, SeqGrows
  <2>4. <<m>> \o (IF l.request = subscription THEN f ELSE <<>>) \in Seq(M)
    BY <1>3, <2>3
  <2> QED
    BY <1>1, <1>3, <1>e, <2>2, <2>4
<1>11. ASSUME Refresh \/ Resume \/ UNCHANGED vars PROVE Good
  BY <1>4, <1>11 DEF Refresh, Resume, session, ui, vars
<1>12. ASSUME Receive PROVE Good
  <2>1. PICK m : Recorded(m) \/ Applied(m) \/ Removed(m) \/ Brought(m) \/ Completed(m) \/ Failed(m) \/ Ignored(m)
    BY <1>12, ReceiveCases
  <2>2. Takes(m) /\ pending' = pending
    BY <2>1 DEF Recorded, Applied, Removed, Brought, Completed, Failed, Ignored, Idles, session
  <2>3. wire' \in Seq(M) /\ m \in M
    <3> HIDE DEF M
    <3> QED
      BY <1>1, <2>2, TailFacts DEF Takes
  <2>4. deltas' \in Seq(U)
    <3>1. CASE Recorded(m)
      <4>1. m \in U
        BY <2>3, <3>1 DEF Recorded, TrueMessage
      <4> HIDE DEF U
      <4> QED
        BY <1>1, <3>1, <4>1 DEF Recorded
    <3>2. CASE ~Recorded(m)
      <4>1. deltas' \in {deltas, <<>>}
        BY <2>1, <3>2 DEF Applied, Removed, Brought, Completed, Failed, Ignored, ReceiveDeleted,
           ReceivePage, ReceiveResponse, ReceiveError, ReceiveStale
      <4> HIDE DEF U
      <4> QED
        BY <1>1, <1>3, <4>1
    <3> QED
      BY <3>1, <3>2
  <2> HIDE DEF U, M
  <2> QED
    BY <1>1, <2>2, <2>3, <2>4
<1>13. ASSUME Disconnect PROVE Good
  BY <1>1, <1>3, <1>13 DEF Disconnect, session
<1> HIDE DEF Good
<1> QED
  BY <1>5, <1>6, <1>t, <1>7, <1>8, <1>9, <1>10, <1>11, <1>12, <1>13 DEF Next

-----------------------------------------------------------------------------
(* The order of the refreshes.                                              *)

(* Numbers of refreshes, as integers.                                       *)
LEMMA RequestNumbers ==
  ASSUME TypeOK
  PROVE  /\ fetches \in Nat /\ subscription \in Nat /\ transaction \in Nat
         /\ \A b \in bootstrapping : b \in Nat /\ b # 0
         /\ \A l \in listings : l.request \in Nat /\ l.request # 0
         /\ Len(requests) \in Nat
         /\ \A i \in 1 .. Len(requests) : requests[i].request \in Nat /\ requests[i].request # 0
         /\ \A m \in Message : m.type \in {"response", "error"} => m.request \in Nat /\ m.request # 0
<1>1. MaxFetches \in Nat /\ \A r \in Requests : r \in Nat /\ r # 0
  BY BoundsAssumption DEF Requests
<1>2. \A m \in Message : m.type \in {"response", "error"} => m.request \in Requests
  BY MessageKinds, MessageFields
<1>3. requests \in Seq([request : Requests, after : 0 .. MaxHead])
  BY Typed
<1>4. \A i \in 1 .. Len(requests) : requests[i] \in [request : Requests, after : 0 .. MaxHead]
  BY <1>3, ElementOf
<1>5. \A i \in 1 .. Len(requests) : requests[i].request \in Requests
  BY <1>4
<1>6. Len(requests) \in Nat
  BY <1>3
<1>7. /\ fetches \in 0 .. MaxFetches /\ subscription \in {0} \cup Requests
      /\ transaction \in {0} \cup Requests /\ bootstrapping \subseteq Requests
      /\ \A l \in listings : l.request \in Requests
  BY Typed
<1>8. fetches \in Nat /\ subscription \in Nat /\ transaction \in Nat
  BY <1>1, <1>7
<1>9. \A m \in Message : m.type \in {"response", "error"} => m.request \in Nat /\ m.request # 0
  BY <1>1, <1>2
<1> QED
  BY <1>1, <1>5, <1>6, <1>7, <1>8, <1>9

(* Steps that leave the refreshes alone and send no answer.                 *)
LEMMA BystanderServed ==
  ASSUME TypeOK, Served, NEW ms \in Seq(Message), Emit(ms),
         \A k \in 1 .. Len(ms) : ms[k].type \notin {"response", "error"},
         UNCHANGED <<subscription, bootstrapping, listings, connected, requests, transaction,
                     satisfied, fetches>>
  PROVE  Served'
<1>0. wire \in Seq(Message)
  BY Typed
<1>1. wire' \in Seq(Message) /\ \A i \in 1 .. Len(wire') :
        wire'[i].type \notin {"response", "error"} \/ \E j \in 1 .. Len(wire) : wire'[i] = wire[j]
  BY <1>0, EmitFacts
<1>2. \A j \in 1 .. Len(wire) : wire[j] \in Decided
  BY ElementOf DEF Served
<1>3. Decided' = Decided
  BY DEF Decided, Message
<1>4. \A i \in 1 .. Len(wire') : wire'[i] \in Message
  BY <1>1, ElementOf
<1>5. \A i \in 1 .. Len(wire') : wire'[i] \in Decided
  BY <1>1, <1>2, <1>4 DEF Decided
<1>6. wire' \in Seq(Decided)
  BY <1>1, <1>5, SeqOver
<1>7. ~connected => wire' = wire
  BY DEF Emit
<1>8. Stages'
  BY <1>7 DEF Served, Stages
<1>9. InOrder'
  BY DEF Served, InOrder
<1> QED
  BY <1>3, <1>6, <1>8, <1>9 DEF Served

(* The session takes the oldest request.                                    *)
LEMMA FetchServed ==
  ASSUME TypeOK, Served, FetchAgents
  PROVE  Served'
<1> DEFINE r == requests[1]
           n == [request |-> r.request, after |-> r.after, list |-> Current]
<1>0. /\ wire \in Seq(Message) /\ requests \in Seq([request : Requests, after : 0 .. MaxHead])
      /\ requests # <<>>
  BY Typed DEF FetchAgents
<1>1. /\ Head(requests) = r /\ 1 \in 1 .. Len(requests) /\ Len(Tail(requests)) = Len(requests) - 1
      /\ \A i \in 1 .. Len(Tail(requests)) :
           i + 1 \in 1 .. Len(requests) /\ Tail(requests)[i] = requests[i + 1]
  BY <1>0, TailFacts
<1>2. /\ subscription' = r.request /\ bootstrapping' = bootstrapping \cup {r.request}
      /\ listings' = listings \cup {n} /\ requests' = Tail(requests)
      /\ UNCHANGED <<connected, wire, transaction, satisfied, fetches>>
  BY <1>1 DEF FetchAgents, ui
<1>3. n.request = r.request
  OBVIOUS
<1>4. /\ r.request <= fetches /\ subscription < r.request /\ r.request \in Nat
      /\ \A b \in bootstrapping : b < r.request /\ b \in Nat /\ b <= fetches
      /\ fetches \in Nat /\ Len(requests) \in Nat
  BY <1>1, RequestNumbers DEF Served, InOrder, Stages
<1> HIDE DEF n
<1>5. ASSUME NEW l \in listings
      PROVE  /\ l.request \in bootstrapping /\ l.request < r.request /\ l.request # fetches
             /\ l.request # r.request
  <2>1. l.request \in bootstrapping
    BY DEF Served, Stages
  <2> QED
    BY <1>4, <2>1
<1>6. Stages'
  <2>1. ~connected' => requests' = <<>> /\ wire' = <<>>
    BY <1>0, <1>2 DEF Served, Stages
  <2>2. ~(satisfied' /\ transaction' = 0)
    BY <1>0, <1>2 DEF Served, Stages
  <2>3. subscription' <= fetches' /\ \A b \in bootstrapping' : b <= fetches'
    BY <1>2, <1>4
  <2>4. \A l \in listings' :
          /\ l.request \in bootstrapping'
          /\ l.request = fetches' => subscription' = fetches'
          /\ \A k \in listings' : k.request = l.request => k = l
    <3>1. \A l \in listings : l.request \in bootstrapping' /\ l.request # fetches'
      BY <1>2, <1>5
    <3>2. n.request \in bootstrapping' /\ (n.request = fetches' => subscription' = fetches')
      BY <1>2, <1>3
    <3>3. \A l, k \in listings : k.request = l.request => k = l
      BY DEF Served, Stages
    <3>4. \A l \in listings : l.request # n.request
      BY <1>3, <1>5
    <3>5. \A l, k \in listings' : k.request = l.request => k = l
      BY <1>2, <3>3, <3>4
    <3> QED
      BY <1>2, <3>1, <3>2, <3>5
  <2>5. transaction' \in {0, fetches'} /\ (transaction' # 0 \/ satisfied' => connected')
    BY <1>2 DEF Served, Stages
  <2> QED
    BY <2>1, <2>2, <2>3, <2>4, <2>5 DEF Stages
<1>7. InOrder'
  <2> SUFFICES ASSUME NEW i \in 1 .. Len(requests')
               PROVE  /\ requests'[i].request <= fetches' /\ subscription' < requests'[i].request
                      /\ \A b \in bootstrapping' : b < requests'[i].request
                      /\ \A j \in 1 .. Len(requests') : j < i => requests'[j].request < requests'[i].request
    BY DEF InOrder
  <2>1. /\ i + 1 \in 1 .. Len(requests) /\ requests'[i] = requests[i + 1] /\ 1 < i + 1
        /\ i \in Nat
    BY <1>1, <1>2, <1>4
  <2>2. /\ requests[i + 1].request <= fetches /\ r.request < requests[i + 1].request
        /\ \A b \in bootstrapping : b < requests[i + 1].request
    BY <1>1, <2>1 DEF Served, InOrder
  <2>3. ASSUME NEW j \in 1 .. Len(requests'), j < i PROVE requests'[j].request < requests'[i].request
    <3>1. /\ j + 1 \in 1 .. Len(requests) /\ requests'[j] = requests[j + 1]
      BY <1>1, <1>2
    <3>2. j + 1 < i + 1
      BY <2>1, <2>3
    <3> QED
      BY <2>1, <3>1, <3>2 DEF Served, InOrder
  <2> QED
    BY <1>2, <2>1, <2>2, <2>3
<1>8. ASSUME NEW m \in Decided PROVE m \in Decided'
  <2>1. CASE m.type \notin {"response", "error"}
    BY <2>1 DEF Decided, Message
  <2>2. CASE m.type \in {"response", "error"}
    <3>1. m \in Message /\ m.request <= fetches /\ m.request < r.request
      BY <1>1, <2>2 DEF Decided
    <3>2. m.request # fetches
      BY <1>4, <2>2, <3>1, RequestNumbers
    <3>3. ASSUME NEW i \in 1 .. Len(requests') PROVE m.request < requests'[i].request
      BY <1>1, <1>2, <2>2 DEF Decided
    <3>4. m \in Message'
      BY <3>1 DEF Message
    <3> QED
      BY <1>2, <3>1, <3>2, <3>3, <3>4 DEF Decided
  <2> QED
    BY <2>1, <2>2
<1>9. wire' \in Seq(Decided')
  BY <1>2, <1>8, SeqGrows DEF Served
<1> QED
  BY <1>6, <1>7, <1>9 DEF Served

(* The refresh opens a transaction behind all others.                       *)
LEMMA RefreshServed ==
  ASSUME TypeOK, Served, Refresh
  PROVE  Served'
<1> DEFINE r == [request |-> fetches + 1, after |-> cursor]
<1>0. /\ wire \in Seq(Message) /\ requests \in Seq([request : Requests, after : 0 .. MaxHead])
      /\ fetches \in Nat /\ Len(requests) \in Nat
  BY Typed, RequestNumbers
<1>1. /\ connected /\ fetches' = fetches + 1 /\ transaction' = fetches + 1
      /\ requests' = Append(requests, r) /\ r.request = fetches + 1
      /\ UNCHANGED <<subscription, bootstrapping, listings, connected, wire, satisfied>>
  BY DEF Refresh, session
<1> HIDE DEF r
<1>2. /\ Len(requests') = Len(requests) + 1 /\ requests'[Len(requests) + 1] = r
      /\ \A i \in 1 .. Len(requests) : requests'[i] = requests[i]
  BY <1>0, <1>1
<1>3. /\ subscription <= fetches /\ subscription \in Nat
      /\ \A b \in bootstrapping : b <= fetches /\ b \in Nat
      /\ \A l \in listings : l.request \in bootstrapping
      /\ \A i \in 1 .. Len(requests) : requests[i].request <= fetches /\ requests[i].request \in Nat
  BY RequestNumbers DEF Served, Stages, InOrder
<1>4. /\ subscription < fetches + 1 /\ subscription <= fetches + 1
      /\ \A b \in bootstrapping : b < fetches + 1 /\ b <= fetches + 1 /\ b # fetches + 1
      /\ \A i \in 1 .. Len(requests) : requests[i].request <= fetches + 1 /\ requests[i].request < fetches + 1
      /\ fetches + 1 <= fetches + 1 /\ fetches + 1 # 0
  BY <1>0, <1>3
<1>5. Stages'
  BY <1>1, <1>3, <1>4 DEF Served, Stages
<1>6. InOrder'
  <2> SUFFICES ASSUME NEW i \in 1 .. Len(requests')
               PROVE  /\ requests'[i].request <= fetches' /\ subscription' < requests'[i].request
                      /\ \A b \in bootstrapping' : b < requests'[i].request
                      /\ \A j \in 1 .. Len(requests') : j < i => requests'[j].request < requests'[i].request
    BY DEF InOrder
  <2>1. CASE i \in 1 .. Len(requests)
    <3>1. \A j \in 1 .. Len(requests') : j < i => j \in 1 .. Len(requests)
      BY <1>0, <2>1
    <3> QED
      BY <1>1, <1>2, <1>4, <2>1, <3>1 DEF Served, InOrder
  <2>2. CASE i = Len(requests) + 1
    <3>1. \A j \in 1 .. Len(requests') : j < i => j \in 1 .. Len(requests)
      BY <1>0, <2>2
    <3> QED
      BY <1>1, <1>2, <1>4, <2>2, <3>1
  <2>3. i \in 1 .. Len(requests) \/ i = Len(requests) + 1
    BY <1>0, <1>2
  <2> QED
    BY <2>1, <2>2, <2>3
<1>7. ASSUME NEW m \in Decided PROVE m \in Decided'
  <2>1. CASE m.type \notin {"response", "error"}
    BY <2>1 DEF Decided, Message
  <2>2. CASE m.type \in {"response", "error"}
    <3>1. m \in Message /\ m.request <= fetches /\ m.request \in Nat
      BY <2>2, RequestNumbers DEF Decided
    <3>2. m.request <= fetches + 1 /\ m.request < fetches + 1 /\ m.request # fetches + 1
      BY <1>0, <3>1
    <3>3. ASSUME NEW i \in 1 .. Len(requests') PROVE m.request < requests'[i].request
      <4>1. i \in 1 .. Len(requests) \/ i = Len(requests) + 1
        BY <1>0, <1>2
      <4> QED
        BY <1>1, <1>2, <2>2, <3>2, <4>1 DEF Decided
    <3>4. m \in Message'
      BY <3>1 DEF Message
    <3> QED
      BY <1>1, <3>2, <3>3, <3>4 DEF Decided
  <2> QED
    BY <2>1, <2>2
<1>8. wire' \in Seq(Decided')
  BY <1>1, <1>7, SeqGrows DEF Served
<1> QED
  BY <1>5, <1>6, <1>8 DEF Served

(* A listing is answered or fails, and its messages go out.                 *)
LEMMA ListingServed ==
  ASSUME TypeOK, Served, NEW l \in listings, NEW m \in Message, NEW f \in Seq(Message),
         NEW mine, mine <=> l.request = subscription,
         m.type \in {"response", "error"}, m.request = l.request,
         \A k \in 1 .. Len(f) : f[k].type \notin {"response", "error"},
         Emit(<<m>> \o f), listings' = listings \ {l},
         subscription' = IF m.type = "error" /\ mine THEN 0 ELSE subscription,
         bootstrapping' = IF m.type = "response" /\ mine THEN bootstrapping \ {l.request} ELSE bootstrapping,
         UNCHANGED <<connected, requests, transaction, satisfied, fetches>>
  PROVE  Served'
<1>0. /\ wire \in Seq(Message) /\ fetches \in Nat /\ subscription \in Nat
      /\ \A b \in bootstrapping : b \in Nat /\ b # 0
      /\ \A i \in 1 .. Len(requests) : requests[i].request \in Nat /\ requests[i].request # 0
  BY Typed, RequestNumbers
<1>1. /\ l.request \in bootstrapping /\ l.request <= fetches
      /\ l.request = fetches => subscription = fetches
      /\ \A k \in listings' : k \in listings /\ k.request # l.request
  BY DEF Served, Stages
<1>2. bootstrapping' \subseteq bootstrapping /\ (mine => subscription' = 0 \/ subscription' \notin bootstrapping')
  OBVIOUS
<1>3. Stages'
  <2>1. ~connected' => requests' = <<>> /\ wire' = <<>>
    BY DEF Served, Stages, Emit
  <2>2. satisfied' /\ transaction' = 0 => requests' = <<>> /\ subscription' \notin bootstrapping'
    BY <1>0, <1>2 DEF Served, Stages
  <2>3. subscription' <= fetches' /\ \A b \in bootstrapping' : b <= fetches'
    BY <1>0, <1>2 DEF Served, Stages
  <2>4. ASSUME NEW k \in listings'
        PROVE  /\ k.request \in bootstrapping'
               /\ k.request = fetches' => subscription' = fetches'
               /\ \A j \in listings' : j.request = k.request => j = k
    BY <1>1 DEF Served, Stages
  <2>5. transaction' \in {0, fetches'} /\ (transaction' # 0 \/ satisfied' => connected')
    BY DEF Served, Stages
  <2> QED
    BY <2>1, <2>2, <2>3, <2>4, <2>5 DEF Stages
<1>4. InOrder'
  <2>1. \A i \in 1 .. Len(requests) : subscription' < requests[i].request
    BY <1>0 DEF Served, InOrder
  <2> QED
    BY <1>2, <2>1 DEF Served, InOrder
<1>5. ASSUME NEW d \in Decided PROVE d \in Decided'
  <2>1. CASE d.type \notin {"response", "error"}
    BY <2>1 DEF Decided, Message
  <2>2. CASE d.type = "response"
    <3>1. d \in Message /\ d.request <= fetches /\ (\A i \in 1 .. Len(requests) : d.request < requests[i].request)
          /\ (d.request = fetches => subscription = fetches /\ fetches \notin bootstrapping)
      BY <2>2 DEF Decided
    <3>2. d.request = fetches => ~mine
      BY <1>1, <3>1
    <3>3. d \in Message'
      BY <3>1 DEF Message
    <3> QED
      BY <1>2, <2>2, <3>1, <3>2, <3>3 DEF Decided
  <2>3. CASE d.type = "error"
    <3>1. d \in Message /\ d.request <= fetches /\ (\A i \in 1 .. Len(requests) : d.request < requests[i].request)
          /\ (d.request = fetches => subscription = 0)
      BY <2>3 DEF Decided
    <3>2. d \in Message'
      BY <3>1 DEF Message
    <3> QED
      BY <2>3, <3>1, <3>2 DEF Decided
  <2> QED
    BY <2>1, <2>2, <2>3
<1>6. m \in Decided'
  <2>1. \A i \in 1 .. Len(requests) : m.request < requests[i].request
    BY <1>1 DEF Served, InOrder
  <2>2. m \in Message'
    BY DEF Message
  <2>3. m.type = "response" /\ m.request = fetches =>
          subscription' = fetches' /\ fetches' \notin bootstrapping'
    BY <1>1
  <2>4. m.type = "error" /\ m.request = fetches => subscription' = 0
    BY <1>1
  <2> QED
    BY <1>1, <2>1, <2>2, <2>3, <2>4 DEF Decided
<1>7. \A k \in 1 .. Len(f) : f[k] \in Decided'
  <2>1. \A k \in 1 .. Len(f) : f[k] \in Message
    BY ElementOf
  <2> QED
    BY <2>1 DEF Decided, Message
<1>8. wire' \in Seq(Decided')
  <2> DEFINE D == Decided'
  <2>1. wire \in Seq(D) /\ f \in Seq(D) /\ m \in D
    BY <1>5, <1>6, <1>7, SeqGrows, SeqOver DEF Served
  <2> HIDE DEF D
  <2>2. <<m>> \in Seq(D)
    BY <2>1
  <2>3. <<m>> \o f \in Seq(D)
    BY <2>1, <2>2
  <2>4. wire' \in Seq(D)
    BY <2>1, <2>3 DEF Emit
  <2> QED
    BY <2>4 DEF D
<1> QED
  BY <1>3, <1>4, <1>8 DEF Served

(* A message is received.                                                   *)
LEMMA ReceiveServed ==
  ASSUME TypeOK, Served, NEW m,
         Recorded(m) \/ Applied(m) \/ Removed(m) \/ Brought(m) \/ Completed(m) \/ Failed(m) \/ Ignored(m)
  PROVE  Served'
<1>0. wire \in Seq(Message) /\ wire \in Seq(Decided) /\ fetches \in Nat /\ Len(requests) \in Nat
      /\ 0 \notin bootstrapping
  BY Typed, RequestNumbers DEF Served
<1>1. Takes(m) /\ Idles
  BY DEF Recorded, Applied, Removed, Brought, Completed, Failed, Ignored
<1>2. wire' \in Seq(Decided) /\ m \in Decided /\ wire # <<>>
  BY <1>0, <1>1, TailFacts DEF Takes
<1>3. UNCHANGED <<subscription, bootstrapping, listings, connected, requests, fetches>>
  BY <1>1 DEF Idles, session
<1>4. InOrder'
  BY <1>3 DEF Served, InOrder
<1>5. Decided' = Decided
  BY <1>3 DEF Decided, Message
<1>6. \/ UNCHANGED <<transaction, satisfied>>
      \/ Completed(m) \/ Failed(m)
  BY DEF Recorded, Applied, Removed, Brought, Ignored, ReceiveDeleted, ReceivePage, ReceiveStale
<1>7. connected
  BY <1>2 DEF Served, Stages
<1>8. ASSUME Completed(m) \/ Failed(m)
      PROVE  transaction' = 0 /\ requests = <<>> /\ subscription \notin bootstrapping
  <2>1. transaction' = 0 /\ m.request = transaction /\ m.type \in {"response", "error"}
    BY <1>8 DEF Completed, Failed, ReceiveResponse, ReceiveError
  <2>2. m \in Message
    BY <1>2 DEF Decided
  <2>3. m.request \in Nat /\ m.request # 0
    BY <2>1, <2>2, RequestNumbers
  <2>4. m.request = fetches
    BY <2>1, <2>3 DEF Served, Stages
  <2>5. \A i \in 1 .. Len(requests) : m.request < requests[i].request /\ requests[i].request <= fetches
    BY <1>2, <2>1 DEF Decided, Served, InOrder
  <2>6. \A i \in 1 .. Len(requests) : requests[i].request \in Nat
    BY RequestNumbers
  <2>7. Len(requests) = 0
    <3>1. 1 \notin 1 .. Len(requests)
      BY <1>0, <2>4, <2>5, <2>6
    <3> QED
      BY <1>0, <3>1
  <2>8. requests = <<>>
    <3>1. requests \in Seq([request : Requests, after : 0 .. MaxHead])
      BY Typed
    <3> QED
      BY <2>7, <3>1
  <2>9. subscription = 0 \/ subscription \notin bootstrapping
    BY <1>2, <2>1, <2>4 DEF Decided
  <2> QED
    BY <1>0, <2>1, <2>8, <2>9
<1>9. Stages'
  <2>1. CASE UNCHANGED <<transaction, satisfied>>
    BY <1>3, <1>7, <2>1 DEF Served, Stages
  <2>2. CASE Completed(m) \/ Failed(m)
    BY <1>3, <1>7, <1>8, <2>2 DEF Served, Stages
  <2> QED
    BY <1>6, <2>1, <2>2
<1> QED
  BY <1>2, <1>4, <1>5, <1>9 DEF Served

(* Every step keeps the order of the refreshes.                             *)
LEMMA ServedKept ==
  ASSUME TypeOK, Queues, Served, [Next]_vars
  PROVE  Served'
<1>0. /\ wire \in Seq(Message) /\ <<>> \in Seq(Message) /\ pending \in Seq(Update)
      /\ fetches \in Nat /\ subscription \in Nat
      /\ \A b \in bootstrapping : b \in Nat /\ b # 0
      /\ \A i \in 1 .. Len(requests) : requests[i].request \in Nat /\ requests[i].request # 0
  BY Typed, RequestNumbers
<1>e. wire' = wire => Emit(<<>>)
  BY <1>0 DEF Emit
<1>1. ASSUME wire' = wire,
             UNCHANGED <<subscription, bootstrapping, listings, connected, requests, transaction,
                         satisfied, fetches>>
      PROVE  Served'
  <2>1. \A k \in 1 .. Len(<<>>) : <<>>[k].type \notin {"response", "error"}
    OBVIOUS
  <2> DEFINE ms == <<>>
  <2>2. ms \in Seq(Message) /\ Emit(ms) /\ \A k \in 1 .. Len(ms) : ms[k].type \notin {"response", "error"}
    BY <1>0, <1>1, <1>e, <2>1
  <2> HIDE DEF ms
  <2> QED
    BY <1>1, <2>2, BystanderServed
<1>2. ASSUME NEW u \in Message, u.type \notin {"response", "error"}, Emit(<<u>>),
             UNCHANGED <<subscription, bootstrapping, listings, connected, requests, transaction,
                         satisfied, fetches>>
      PROVE  Served'
  <2> DEFINE ms == <<u>>
  <2>1. ms \in Seq(Message) /\ \A k \in 1 .. Len(ms) : ms[k].type \notin {"response", "error"}
    BY <1>2
  <2>2. Emit(ms)
    BY <1>2
  <2> HIDE DEF ms
  <2> QED
    BY <1>2, <2>1, <2>2, BystanderServed
<1>3. ASSUME NEW a \in Agents,
             AgentChanges(a) \/ OtherDeletes(a) \/ StartUpdate(a) \/ \E v \in Versions : OtherSequences(a, v)
      PROVE  Served'
  BY <1>1, <1>3 DEF AgentChanges, OtherDeletes, StartUpdate, OtherSequences, session, ui
<1>4. ASSUME NEW a \in Agents, DeleteAgent(a) PROVE Served'
  <2> DEFINE m == [type |-> "deleted", agent |-> a]
  <2>1. m \in Deleted
    BY DEF Deleted
  <2>2. m \in Message /\ m.type \notin {"response", "error"}
    BY <2>1, MessageKinds
  <2>3. Emit(<<m>>) /\ UNCHANGED <<subscription, bootstrapping, listings, connected, requests,
                                   transaction, satisfied, fetches>>
    BY <1>4 DEF DeleteAgent, ui
  <2> HIDE DEF m
  <2> QED
    BY <1>2, <2>2, <2>3
<1>t. ASSUME NEW a \in Agents, FetchTimeline(a) PROVE Served'
  BY <1>2, <1>t, PageSent
<1>5. ASSUME NEW a \in Agents, FinishUpdate(a) \/ RunRemoval(a) PROVE Served'
  <2> DEFINE sub == IF captured[a] = Idle THEN subscription ELSE captured[a]
             v == Head(tail[a])
  <2>1. /\ Publish(sub, a, v) /\ v \in Versions /\ sub \in {0} \cup Requests
        /\ UNCHANGED <<subscription, bootstrapping, listings, connected, requests, transaction,
                       satisfied, fetches>>
    BY <1>5, JobFacts
  <2> HIDE DEF sub, v
  <2>2. wire' = wire \/ (Emit(<<Published(a, v)>>) /\ Published(a, v) \in Update)
    BY <2>1, PublishCases
  <2>3. \A u \in Update : u \in Message /\ u.type \notin {"response", "error"}
    BY MessageKinds
  <2> QED
    BY <1>1, <1>2, <2>1, <2>2, <2>3
<1>6. ASSUME NEW l \in listings, FetchFails(l) PROVE Served'
  <2> DEFINE m == [type |-> "error", request |-> l.request]
             f == <<>>
  <2>0. l.request \in Requests
    BY Typed
  <2>1. m \in Failure /\ m.request = l.request
    BY <2>0 DEF Failure
  <2>2. m \in Message /\ m.type = "error"
    BY <2>1, MessageKinds
  <2>3. /\ Emit(<<m>>) /\ listings' = listings \ {l}
        /\ subscription' = IF l.request = subscription THEN 0 ELSE subscription
        /\ UNCHANGED <<bootstrapping, connected, requests, transaction, satisfied, fetches>>
    BY <1>6 DEF FetchFails, ui
  <2> HIDE DEF m
  <2>4. <<m>> \o f = <<m>> /\ f \in Seq(Message) /\ \A k \in 1 .. Len(f) : f[k].type \notin {"response", "error"}
    OBVIOUS
  <2>5. Emit(<<m>> \o f)
    BY <2>3, <2>4
  <2> HIDE DEF f
  <2> DEFINE mine == l.request = subscription
  <2>6. /\ mine <=> l.request = subscription
        /\ subscription' = IF m.type = "error" /\ mine THEN 0 ELSE subscription
        /\ bootstrapping' = IF m.type = "response" /\ mine THEN bootstrapping \ {l.request} ELSE bootstrapping
    BY <2>2, <2>3
  <2> HIDE DEF mine
  <2> QED
    BY <2>1, <2>2, <2>3, <2>4, <2>5, <2>6, ListingServed
<1>7. ASSUME NEW l \in listings, NEW order \in Orders(l.list), FetchReplies(l, order) PROVE Served'
  <2> DEFINE m == Response(l)
             f == IF l.request = subscription THEN Flushed(Response(l)) ELSE <<>>
  <2>0. l.list \in Content
    BY Typed
  <2>1. Moves /\ value' = l.list /\ seq' \in [Agents -> 0 .. MaxHead]
    BY <1>7, <2>0, AbsorbMoves DEF FetchReplies
  <2>2. m \in Answer /\ m.request = l.request
    BY <2>1, ResponseFacts DEF Moves
  <2>3. m \in Message /\ m.type = "response"
    BY <2>2, MessageKinds
  <2>4. /\ Emit(<<m>> \o f) /\ listings' = listings \ {l}
        /\ bootstrapping' = IF l.request = subscription THEN bootstrapping \ {l.request} ELSE bootstrapping
        /\ UNCHANGED <<subscription, connected, requests, transaction, satisfied, fetches>>
    BY <1>7 DEF FetchReplies, ui
  <2>5. Flushed(Response(l)) \in Seq(Update)
    BY <1>0, FlushedKeeps
  <2>6. f \in Seq(Update)
    BY <2>5
  <2> HIDE DEF m, f
  <2>7. \A k \in 1 .. Len(f) : f[k] \in Update
    BY <2>6, ElementOf
  <2>8. f \in Seq(Message) /\ \A k \in 1 .. Len(f) : f[k].type \notin {"response", "error"}
    BY <2>6, <2>7, MessageKinds, SeqOver
  <2> DEFINE mine == l.request = subscription
  <2>9. /\ mine <=> l.request = subscription
        /\ subscription' = IF m.type = "error" /\ mine THEN 0 ELSE subscription
        /\ bootstrapping' = IF m.type = "response" /\ mine THEN bootstrapping \ {l.request} ELSE bootstrapping
    BY <2>3, <2>4
  <2> HIDE DEF mine
  <2> QED
    BY <2>2, <2>3, <2>4, <2>8, <2>9, ListingServed
<1>8. ASSUME Receive PROVE Served'
  BY <1>8, ReceiveCases, ReceiveServed
<1>9. ASSUME Disconnect PROVE Served'
  <2>1. /\ ~connected' /\ requests' = <<>> /\ wire' = <<>> /\ transaction' = 0 /\ satisfied' = FALSE
        /\ UNCHANGED <<subscription, bootstrapping, listings, fetches>>
    BY <1>9 DEF Disconnect, session
  <2>2. Stages'
    BY <2>1 DEF Served, Stages
  <2>3. InOrder'
    BY <2>1 DEF InOrder
  <2>4. wire' \in Seq(Decided')
    BY <2>1
  <2> QED
    BY <2>2, <2>3, <2>4 DEF Served
<1>10. ASSUME Resume PROVE Served'
  <2>1. /\ connected' /\ ~connected
        /\ UNCHANGED <<subscription, bootstrapping, listings, fetches, requests, wire, transaction, satisfied>>
    BY <1>10 DEF Resume, session, ui
  <2>2. Stages'
    BY <2>1 DEF Served, Stages
  <2>3. InOrder'
    BY <2>1 DEF Served, InOrder
  <2>4. wire' \in Seq(Decided')
    BY <2>1 DEF Served, Stages
  <2> QED
    BY <2>2, <2>3, <2>4 DEF Served
<1>11. ASSUME GraceEnds PROVE Served'
  <2>1. /\ connected' /\ ~connected /\ subscription' = 0 /\ bootstrapping' = {} /\ listings' = {}
        /\ UNCHANGED <<fetches, requests, wire, transaction, satisfied>>
    BY <1>11 DEF GraceEnds, ui
  <2>2. requests = <<>> /\ wire = <<>> /\ ~satisfied /\ 0 <= fetches
    BY <1>0, <2>1 DEF Served, Stages
  <2>3. Stages'
    BY <2>1, <2>2 DEF Served, Stages
  <2>4. InOrder'
    BY <2>1, <2>2 DEF InOrder
  <2>5. wire' \in Seq(Decided')
    BY <2>1, <2>2
  <2> QED
    BY <2>3, <2>4, <2>5 DEF Served
<1>12. ASSUME UNCHANGED vars PROVE Served'
  BY <1>1, <1>12 DEF vars
<1> QED
  BY <1>3, <1>4, <1>t, <1>5, <1>6, <1>7, <1>8, <1>9, <1>10, <1>11, <1>12, FetchServed,
     RefreshServed DEF Next

-----------------------------------------------------------------------------
(* What is sent.                                                            *)

\* What was on the wire stays there, in its place.
Extends ==
  /\ wire' \in Seq(Message) /\ Len(wire) \in Nat /\ Len(wire') \in Nat /\ Len(wire) <= Len(wire')
  /\ \A i \in 1 .. Len(wire) : i \in 1 .. Len(wire') /\ wire'[i] = wire[i]
\* Message i is the update that the job of agent a publishes.
FromJob(i, a) ==
  /\ FinishUpdate(a) \/ RunRemoval(a)
  /\ i = Len(wire) + 1 /\ Len(wire') = i
  /\ Published(a, Head(tail[a])) \in Update /\ wire'[i] = Published(a, Head(tail[a]))
  /\ value'[a] = Head(tail[a])
\* Message i is the answer to listing l or an update flushed behind it.
FromListing(i, l) ==
  /\ \E order \in Orders(l.list) : FetchReplies(l, order)
  /\ Len(wire) + 1 \in 1 .. Len(wire') /\ wire'[Len(wire) + 1] = Response(l)
  /\ \/ i = Len(wire) + 1
     \/ /\ i > Len(wire) + 1 /\ l.request = subscription
        /\ \E k \in 1 .. Len(pending) : wire'[i] = pending[k] /\ Passes(pending[k], Response(l))

(* Sending one message.                                                     *)
LEMMA EmitOne ==
  ASSUME wire \in Seq(Message), NEW m \in Message, Emit(<<m>>)
  PROVE  /\ Extends
         /\ \A i \in 1 .. Len(wire') :
              i \in 1 .. Len(wire) \/ (i = Len(wire) + 1 /\ Len(wire') = i /\ wire'[i] = m)
<1> DEFINE ms == <<m>>
<1>1. ms \in Seq(Message) /\ Emit(ms) /\ Len(ms) = 1 /\ ms[1] = m
  OBVIOUS
<1> HIDE DEF ms
<1>2. Extends
  BY <1>1, EmitFacts DEF Extends
<1>3. CASE ~connected
  BY <1>2, <1>3 DEF Emit
<1>4. CASE connected
  <2>1. Len(wire') = Len(wire) + 1
    BY <1>1, <1>4 DEF Emit
  <2>2. wire'[Len(wire) + 1] = m
    <3>1. \A k \in 1 .. Len(ms) : wire'[Len(wire) + k] = ms[k]
      BY <1>1, <1>4, EmitFacts
    <3>2. 1 \in 1 .. Len(ms)
      BY <1>1
    <3> QED
      BY <1>1, <3>1, <3>2
  <2> QED
    BY <1>2, <2>1, <2>2 DEF Extends
<1> QED
  BY <1>3, <1>4

(* Answering a listing sends the answer and behind it what is flushed.      *)
LEMMA AnswerSent ==
  ASSUME TypeOK, NEW l \in listings, NEW order \in Orders(l.list), FetchReplies(l, order)
  PROVE  /\ Extends
         /\ \A i \in 1 .. Len(wire') : i \in 1 .. Len(wire) \/ FromListing(i, l)
         /\ connected /\ l.request = subscription =>
              \A k \in 1 .. Len(pending) : Passes(pending[k], Response(l)) =>
                \E j \in 1 .. Len(wire') : j > Len(wire) + 1 /\ wire'[j] = pending[k]
<1>a. wire \in Seq(Message) /\ pending \in Seq(Update) /\ Len(wire) \in Nat
  BY Typed
<1> DEFINE m == Response(l)
           f == IF l.request = subscription THEN Flushed(Response(l)) ELSE <<>>
           ms == <<m>> \o f
<1>0. l.list \in Content
  BY Typed
<1>1. Moves /\ value' = l.list /\ seq' \in [Agents -> 0 .. MaxHead]
  BY <1>0, AbsorbMoves DEF FetchReplies
<1>2. m \in Answer
  BY <1>1, ResponseFacts DEF Moves
<1>3. m \in Message
  BY <1>2, MessageKinds
<1>4. Emit(ms)
  BY DEF FetchReplies
<1>5. /\ Flushed(Response(l)) \in Seq(Update)
      /\ \A k \in 1 .. Len(Flushed(Response(l))) : \E i \in 1 .. Len(pending) :
            Flushed(Response(l))[k] = pending[i] /\ Passes(pending[i], Response(l))
  BY <1>a, FlushedKeeps
<1>6. f \in Seq(Update)
  BY <1>5
<1>7. \A k \in 1 .. Len(f) : /\ l.request = subscription
                             /\ \E i \in 1 .. Len(pending) : f[k] = pending[i] /\ Passes(pending[i], m)
  BY <1>5
<1>b. l.request = subscription => \A k \in 1 .. Len(pending) : Passes(pending[k], m) =>
        \E i \in 1 .. Len(f) : f[i] = pending[k]
  BY <1>a, FlushedKeeps
<1>8. \A k \in 1 .. Len(f) : f[k] \in Message
  BY <1>6, ElementOf, MessageKinds
<1> HIDE DEF m, f
<1>9. f \in Seq(Message)
  BY <1>6, <1>8, SeqOver
<1>10. /\ ms \in Seq(Message) /\ Len(ms) = 1 + Len(f) /\ Len(f) \in Nat /\ ms[1] = m
       /\ \A k \in 2 .. Len(ms) : ms[k] = f[k - 1]
  BY <1>3, <1>9
<1> HIDE DEF ms
<1>11. Extends
  BY <1>a, <1>4, <1>10, EmitFacts DEF Extends
<1>12. ASSUME NEW i \in 1 .. Len(wire'), i \notin 1 .. Len(wire) PROVE FromListing(i, l)
  <2>1. connected /\ i - Len(wire) \in 1 .. Len(ms) /\ wire'[i] = ms[i - Len(wire)]
    BY <1>a, <1>4, <1>10, <1>12, EmitFacts
  <2>2. 1 \in 1 .. Len(ms)
    BY <1>10
  <2>3. Len(wire) + 1 \in 1 .. Len(wire') /\ wire'[Len(wire) + 1] = m
    BY <1>a, <1>4, <1>10, <2>1, <2>2, EmitFacts
  <2>4. CASE i = Len(wire) + 1
    BY <2>3, <2>4 DEF FromListing, m
  <2>5. CASE i # Len(wire) + 1
    <3>1. i > Len(wire) + 1 /\ i - Len(wire) \in 2 .. Len(ms) /\ (i - Len(wire)) - 1 \in 1 .. Len(f)
      <4>1. i \in Nat /\ Len(wire') \in Nat /\ i # 0
        BY <1>11 DEF Extends
      <4>2. i > Len(wire)
        BY <1>a, <1>12, <4>1
      <4> QED
        BY <1>a, <1>10, <2>1, <2>5, <4>1, <4>2
    <3>2. wire'[i] = f[(i - Len(wire)) - 1]
      BY <1>10, <2>1, <3>1
    <3> QED
      BY <1>7, <2>3, <3>1, <3>2 DEF FromListing, m
  <2> QED
    BY <2>4, <2>5
<1>13. ASSUME connected, l.request = subscription, NEW k \in 1 .. Len(pending),
              Passes(pending[k], Response(l))
       PROVE  \E j \in 1 .. Len(wire') : j > Len(wire) + 1 /\ wire'[j] = pending[k]
  <2>1. PICK i \in 1 .. Len(f) : f[i] = pending[k]
    BY <1>b, <1>13 DEF m
  <2>2. i + 1 \in 1 .. Len(ms) /\ i + 1 \in 2 .. Len(ms) /\ (i + 1) - 1 = i
        /\ Len(wire) + (i + 1) > Len(wire) + 1
    BY <1>a, <1>10
  <2>3. ms[i + 1] = f[i]
    BY <1>10, <2>2
  <2>4. Len(wire) + (i + 1) \in 1 .. Len(wire') /\ wire'[Len(wire) + (i + 1)] = ms[i + 1]
    BY <1>a, <1>4, <1>10, <1>13, <2>2, EmitFacts
  <2> QED
    BY <2>1, <2>2, <2>3, <2>4
<1> QED
  BY <1>11, <1>12, <1>13

(* Every step but a delivery and the loss of the socket extends the wire.   *)
LEMMA WireGrows ==
  ASSUME TypeOK, Queues, [Next]_vars, ~Receive, ~Disconnect
  PROVE  /\ Extends
         /\ \A i \in 1 .. Len(wire') :
              \/ i \in 1 .. Len(wire)
              \/ wire'[i].type \in {"deleted", "page", "error"}
              \/ \E a \in Agents : FromJob(i, a)
              \/ \E l \in listings : FromListing(i, l)
<1> DEFINE Good == /\ Extends
                   /\ \A i \in 1 .. Len(wire') :
                        \/ i \in 1 .. Len(wire)
                        \/ wire'[i].type \in {"deleted", "page", "error"}
                        \/ \E a \in Agents : FromJob(i, a)
                        \/ \E l \in listings : FromListing(i, l)
<1>0. wire \in Seq(Message) /\ pending \in Seq(Update) /\ Len(wire) \in Nat /\ Len(wire) <= Len(wire)
  BY Typed
<1>1. ASSUME wire' = wire PROVE Good
  BY <1>0, <1>1 DEF Extends
<1>2. ASSUME NEW m \in Message, m.type \in {"deleted", "page", "error"}, Emit(<<m>>) PROVE Good
  BY <1>0, <1>2, EmitOne
<1>3. ASSUME NEW a \in Agents,
             AgentChanges(a) \/ OtherDeletes(a) \/ StartUpdate(a) \/ \E v \in Versions : OtherSequences(a, v)
      PROVE  Good
  BY <1>1, <1>3 DEF AgentChanges, OtherDeletes, StartUpdate, OtherSequences
<1>4. ASSUME NEW a \in Agents, DeleteAgent(a) PROVE Good
  <2> DEFINE m == [type |-> "deleted", agent |-> a]
  <2>1. m \in Deleted
    BY DEF Deleted
  <2>2. m \in Message /\ m.type = "deleted"
    BY <2>1, MessageKinds
  <2>3. Emit(<<m>>)
    BY <1>4 DEF DeleteAgent
  <2> HIDE DEF m, Good
  <2> QED
    BY <1>2, <2>2, <2>3
<1>t. ASSUME NEW a \in Agents, FetchTimeline(a) PROVE Good
  <2> HIDE DEF Good
  <2> QED
    BY <1>2, <1>t, PageSent
<1>5. ASSUME NEW a \in Agents, FinishUpdate(a) \/ RunRemoval(a) PROVE Good
  <2> DEFINE sub == IF captured[a] = Idle THEN subscription ELSE captured[a]
             v == Head(tail[a])
  <2>1. Publish(sub, a, v) /\ v \in Versions /\ sub \in {0} \cup Requests
    BY <1>5, JobFacts
  <2> HIDE DEF sub, v
  <2>2. wire' = wire \/ (Emit(<<Published(a, v)>>) /\ Published(a, v) \in Update /\ value'[a] = v)
    BY <2>1, PublishCases
  <2>3. CASE wire' = wire
    BY <1>1, <2>3
  <2>4. CASE Emit(<<Published(a, v)>>) /\ Published(a, v) \in Update /\ value'[a] = v
    <3>1. Published(a, v) \in Message
      BY <2>4, MessageKinds
    <3>2. /\ Extends
          /\ \A i \in 1 .. Len(wire') :
               i \in 1 .. Len(wire) \/ (i = Len(wire) + 1 /\ Len(wire') = i /\ wire'[i] = Published(a, v))
      BY <1>0, <2>4, <3>1, EmitOne
    <3> QED
      BY <1>5, <2>4, <3>2 DEF FromJob, v
  <2> QED
    BY <2>2, <2>3, <2>4
<1>6. ASSUME NEW l \in listings, FetchFails(l) PROVE Good
  <2> DEFINE m == [type |-> "error", request |-> l.request]
  <2>0. l.request \in Requests
    BY Typed
  <2>1. m \in Failure
    BY <2>0 DEF Failure
  <2>2. m \in Message /\ m.type = "error"
    BY <2>1, MessageKinds
  <2>3. Emit(<<m>>)
    BY <1>6 DEF FetchFails
  <2> HIDE DEF m, Good
  <2> QED
    BY <1>2, <2>2, <2>3
<1>7. ASSUME NEW l \in listings, NEW order \in Orders(l.list), FetchReplies(l, order) PROVE Good
  BY <1>7, AnswerSent
<1>8. ASSUME FetchAgents \/ Refresh \/ Resume \/ GraceEnds \/ UNCHANGED vars PROVE Good
  BY <1>1, <1>8 DEF FetchAgents, Refresh, Resume, GraceEnds, vars
<1> HIDE DEF Good
<1>9. Good
  BY <1>3, <1>4, <1>t, <1>5, <1>6, <1>7, <1>8 DEF Next
<1> QED
  BY <1>9 DEF Good

-----------------------------------------------------------------------------
(* The replica during a refresh.                                            *)

(* Which steps change the transaction.                                      *)
LEMMA TransactionMoves ==
  ASSUME [Next]_vars
  PROVE  UNCHANGED <<transaction, satisfied, fetches>> \/ Refresh \/ Receive \/ Disconnect
<1>1. ASSUME NEW a \in Agents,
             AgentChanges(a) \/ DeleteAgent(a) \/ OtherDeletes(a) \/ StartUpdate(a) \/ FinishUpdate(a)
               \/ RunRemoval(a) \/ FetchTimeline(a) \/ \E v \in Versions : OtherSequences(a, v)
      PROVE  UNCHANGED <<transaction, satisfied, fetches>>
  BY <1>1 DEF AgentChanges, DeleteAgent, OtherDeletes, StartUpdate, FinishUpdate, RunRemoval,
     FetchTimeline, OtherSequences, session, ui
<1>2. ASSUME NEW l \in listings, FetchFails(l) \/ \E order \in Orders(l.list) : FetchReplies(l, order)
      PROVE  UNCHANGED <<transaction, satisfied, fetches>>
  BY <1>2 DEF FetchFails, FetchReplies, ui
<1>3. ASSUME FetchAgents \/ Resume \/ GraceEnds \/ UNCHANGED vars
      PROVE  UNCHANGED <<transaction, satisfied, fetches>>
  BY <1>3 DEF FetchAgents, Resume, GraceEnds, ui, vars
<1> QED
  BY <1>1, <1>2, <1>3 DEF Next

(* Receiving shifts the wire.                                               *)
LEMMA WireShifts ==
  ASSUME TypeOK, NEW m, Takes(m)
  PROVE  /\ m \in Message /\ m = wire[1] /\ 1 \in 1 .. Len(wire) /\ Len(wire) \in Nat
         /\ wire' \in Seq(Message) /\ Len(wire') = Len(wire) - 1
         /\ \A i \in 1 .. Len(wire') : i + 1 \in 1 .. Len(wire) /\ wire'[i] = wire[i + 1]
<1>1. wire \in Seq(Message) /\ Len(wire) \in Nat
  BY Typed
<1> QED
  BY <1>1, TailFacts DEF Takes

(* No message and no listing belongs to transaction 0 or to a request that  *)
(* was not sent.                                                            *)
LEMMA NobodysTransaction ==
  ASSUME TypeOK, Served, NEW t, t = 0 \/ t = fetches + 1
  PROVE  /\ \A l \in listings : l.request # t
         /\ \A i \in 1 .. Len(wire) : ~Answers(wire[i], t)
<1>0. fetches \in Nat /\ wire \in Seq(Decided)
  BY RequestNumbers DEF Served
<1>1. ASSUME NEW l \in listings PROVE l.request # t
  <2>1. l.request \in bootstrapping /\ l.request <= fetches /\ l.request \in Nat /\ l.request # 0
    BY RequestNumbers DEF Served, Stages
  <2> QED
    BY <1>0, <2>1
<1>2. ASSUME NEW i \in 1 .. Len(wire) PROVE ~Answers(wire[i], t)
  <2>1. wire[i] \in Decided
    BY <1>0, ElementOf
  <2>2. wire[i].type = "response" =>
          wire[i].request <= fetches /\ wire[i].request \in Nat /\ wire[i].request # 0
    BY <2>1, RequestNumbers DEF Decided
  <2> QED
    BY <1>0, <2>2 DEF Answers
<1> QED
  BY <1>1, <1>2

(* Nothing reaches beyond the head of the collection.                       *)
LEMMA Reaches ==
  ASSUME TypeOK, Known, Told
  PROVE  /\ cursor <= head /\ cursor \in Nat /\ head \in Nat
         /\ \A j \in 1 .. Len(deltas) : deltas[j].seq <= head /\ deltas[j].seq \in Nat
         /\ \A j \in 1 .. Len(wire) : Reach(wire[j]) <= head /\ Reach(wire[j]) \in Nat
         /\ \A l \in listings : l.after <= cursor /\ l.after \in Nat
         /\ \A a \in Agents : seq[a] \in Nat /\ value[a] \in Nat /\ version[a] \in Nat
<1>0. /\ cursor \in Nat /\ head \in Nat /\ deltas \in Seq(TrueUpdate) /\ wire \in Seq(TrueMessage)
      /\ MaxHead \in Nat /\ MaxChanges \in Nat
      /\ seq \in [Agents -> 0 .. MaxHead] /\ value \in Content /\ version \in Content
  BY Typed DEF Told
<1>1. ASSUME NEW j \in 1 .. Len(deltas) PROVE deltas[j].seq <= head /\ deltas[j].seq \in Nat
  <2>1. deltas[j] \in TrueUpdate
    BY <1>0, ElementOf
  <2> QED
    BY <1>0, <2>1, MessageFields DEF TrueUpdate
<1>2. ASSUME NEW j \in 1 .. Len(wire) PROVE Reach(wire[j]) <= head /\ Reach(wire[j]) \in Nat
  <2>1. wire[j] \in TrueMessage /\ wire[j] \in Message
    BY <1>0, ElementOf DEF TrueMessage
  <2>2. CASE wire[j].type = "update"
    <3>1. wire[j] \in TrueUpdate /\ wire[j] \in Update
      BY <2>1, <2>2 DEF TrueMessage, TrueUpdate
    <3> QED
      BY <1>0, <2>2, <3>1, MessageFields DEF TrueUpdate, Reach
  <2>3. CASE wire[j].type = "response"
    <3>1. wire[j] \in Answer /\ wire[j].headSeq <= head
      BY <2>1, <2>3, MessageKinds DEF TrueMessage
    <3>2. wire[j].headSeq \in Nat
      BY <1>0, <3>1, MessageFields
    <3>3. Reach(wire[j]) = wire[j].headSeq
      BY <2>3 DEF Reach
    <3> QED
      BY <3>1, <3>2, <3>3
  <2>4. CASE wire[j].type \notin {"update", "response"}
    BY <1>0, <2>4 DEF Reach
  <2> QED
    BY <2>2, <2>3, <2>4
<1>3. \A l \in listings : l.after <= cursor /\ l.after \in Nat
  BY <1>0, Typed DEF Known
<1>4. \A a \in Agents : seq[a] \in Nat /\ value[a] \in Nat /\ version[a] \in Nat
  BY <1>0 DEF Content, Versions
<1>5. cursor <= head
  BY DEF Known
<1> QED
  BY <1>0, <1>1, <1>2, <1>3, <1>4, <1>5

(* What does not end the transaction brings an agent forward only, and in   *)
(* a transaction only when a page does.                                     *)
LEMMA OpenMoves ==
  ASSUME TypeOK, Told, NEW a \in Living, view[a] <= version[a], NEW m,
         Recorded(m) \/ Removed(m) \/ Brought(m) \/ Ignored(m)
  PROVE  /\ UNCHANGED <<cursor, transaction, satisfied, skipped>> /\ paged \subseteq paged'
         /\ view[a] \in Nat /\ view'[a] \in Nat /\ view[a] <= view'[a] /\ view'[a] <= version[a]
         /\ Carried(a) \in Nat /\ Carried(a)' \in Nat
         /\ Carried(a) <= Carried(a)' /\ Carried(a)' <= version[a]
         /\ a \in unplaced => a \in unplaced'
         /\ a \in unplaced' => a \in unplaced \/ (view[a] = 0 /\ view'[a] > 0)
         /\ transaction # 0 =>
              \/ a \in paged'
              \/ /\ view'[a] = view[a] /\ Carried(a)' = Carried(a)
                 /\ a \in unplaced' => a \in unplaced
<1>0. /\ view \in Content /\ view' \in Content /\ a \in Agents /\ version[a] \in Nat
  <2>1. view' \in Content
    BY ReceiveTyped DEF TypeOK
  <2>2. version \in Content /\ view \in Content /\ a \in Agents /\ MaxChanges \in Nat
    BY Typed DEF Living
  <2>3. version[a] \in Nat
    BY <2>2 DEF Content, Versions
  <2> QED
    BY <2>1, <2>2, <2>3
<1>1. /\ view[a] \in Nat /\ Carried(a) \in Nat /\ Carried(a) <= view[a]
      /\ view'[a] \in Nat /\ Carried(a)' \in Nat
      /\ a \notin unplaced' => Carried(a)' = view'[a]
      /\ a \in unplaced' => Carried(a)' = 0
      /\ a \in unplaced => Carried(a) = 0
      /\ a \notin unplaced => Carried(a) = view[a]
  BY <1>0, BoundsAssumption DEF Carried, Content, Versions
<1>2. UNCHANGED <<cursor, transaction, satisfied, skipped>> /\ paged \subseteq paged'
  BY DEF Recorded, Removed, Brought, Ignored, ReceiveDeleted, ReceivePage, ReceiveStale
<1>3. CASE Recorded(m) \/ Ignored(m)
  <2>1. UNCHANGED <<view, unplaced>>
    BY <1>3 DEF Recorded, Ignored, ReceiveStale
  <2> QED
    BY <1>0, <1>1, <1>2, <2>1
<1>4. CASE Removed(m)
  <2>1. view'[a] = view[a]
    BY <1>4, ReplicaMoves
  <2>2. m.agent # a
    <3>1. m \in TrueMessage
      BY <1>4, TailFacts DEF Removed, Takes, Told
    <3> QED
      BY <1>4, <3>1 DEF Removed, TrueMessage
  <2>3. a \in unplaced' <=> a \in unplaced
    BY <1>4, <2>2 DEF Removed, ReceiveDeleted
  <2> QED
    BY <1>0, <1>1, <1>2, <2>1, <2>3
<1>5. CASE Brought(m)
  <2>1. /\ m \in TrueMessage /\ view[a] <= view'[a] /\ view'[a] <= version[a]
        /\ \/ view'[a] = view[a] \/ m.agent # a
           \/ m.agent = a /\ a \in tokens /\ view'[a] = m.ver
    BY <1>5, ReplicaMoves
  <2>2. m.agent = a => m.ver \in 1 .. version[a]
    BY <1>5, <2>1 DEF Brought, TrueMessage
  <2>3. CASE m.agent = a /\ a \in tokens
    <3>1. /\ unplaced' = IF view[a] = 0 THEN unplaced \cup {a} ELSE unplaced
          /\ paged' = IF transaction # 0 /\ m.ver > view[a] THEN paged \cup {a} ELSE paged
      BY <1>5, <2>3 DEF Brought, ReceivePage
    <3>2. view'[a] = IF m.ver = 0 \/ m.ver >= view[a] THEN m.ver ELSE view[a]
      BY <1>0, <1>5, <2>3 DEF Brought, ReceivePage, Accept, Content
    <3>3. m.ver \in Nat /\ m.ver > 0
      BY <2>2, <2>3
    <3>4. view[a] = 0 => view'[a] > 0 /\ m.ver > view[a]
      BY <3>2, <3>3
    <3>5. ~(m.ver > view[a]) => view'[a] = view[a]
      BY <1>1, <3>2, <3>3
    <3>6. view[a] = 0 => Carried(a) = 0
      BY <1>1
    <3>7. view[a] # 0 => unplaced' = unplaced
      BY <3>1
    <3>8. Carried(a) <= Carried(a)' /\ Carried(a)' <= version[a]
      BY <1>0, <1>1, <2>1, <3>6, <3>7
    <3>9. a \in unplaced => a \in unplaced'
      BY <3>1
    <3>10. a \in unplaced' => a \in unplaced \/ (view[a] = 0 /\ view'[a] > 0)
      BY <3>4, <3>7
    <3>11. CASE transaction # 0 /\ m.ver > view[a]
      <4>1. a \in paged'
        BY <3>1, <3>11
      <4> QED
        BY <1>1, <1>2, <2>1, <3>8, <3>9, <3>10, <4>1
    <3>12. CASE ~(m.ver > view[a])
      <4>1. view'[a] = view[a] /\ unplaced' = unplaced
        BY <3>4, <3>5, <3>7, <3>12
      <4>2. Carried(a)' = Carried(a)
        BY <1>1, <4>1
      <4> QED
        BY <1>1, <1>2, <2>1, <3>8, <3>9, <3>10, <4>1, <4>2
    <3>13. CASE transaction = 0
      BY <1>1, <1>2, <2>1, <3>8, <3>9, <3>10, <3>13
    <3> QED
      BY <3>11, <3>12, <3>13
  <2>4. CASE ~(m.agent = a /\ a \in tokens)
    <3>1. a \in unplaced' <=> a \in unplaced
      BY <1>5, <2>4 DEF Brought, ReceivePage
    <3>2. view'[a] = view[a]
      BY <1>0, <1>5, <2>4 DEF Brought, ReceivePage, Accept, Content
    <3>3. Carried(a)' = Carried(a)
      BY <1>1, <3>1, <3>2
    <3> QED
      BY <1>0, <1>1, <1>2, <2>1, <3>1, <3>2, <3>3
  <2> QED
    BY <2>3, <2>4
<1> QED
  BY <1>3, <1>4, <1>5

(* Which steps change what the replica knows only from a page.              *)
LEMMA WhoPlaces ==
  ASSUME [Next]_vars, ~Receive, ~Disconnect
  PROVE  UNCHANGED unplaced /\ (UNCHANGED paged \/ Refresh)
<1>1. ASSUME NEW a \in Agents,
             AgentChanges(a) \/ DeleteAgent(a) \/ OtherDeletes(a) \/ StartUpdate(a) \/ FinishUpdate(a)
               \/ RunRemoval(a) \/ FetchTimeline(a) \/ \E v \in Versions : OtherSequences(a, v)
      PROVE  UNCHANGED <<unplaced, paged>>
  BY <1>1 DEF AgentChanges, DeleteAgent, OtherDeletes, StartUpdate, FinishUpdate, RunRemoval,
     FetchTimeline, OtherSequences, ui
<1>2. ASSUME NEW l \in listings, FetchFails(l) \/ \E order \in Orders(l.list) : FetchReplies(l, order)
      PROVE  UNCHANGED <<unplaced, paged>>
  BY <1>2 DEF FetchFails, FetchReplies, ui
<1>3. ASSUME FetchAgents \/ Resume \/ GraceEnds \/ UNCHANGED vars PROVE UNCHANGED <<unplaced, paged>>
  BY <1>3 DEF FetchAgents, Resume, GraceEnds, ui, vars
<1>4. ASSUME Refresh PROVE UNCHANGED unplaced
  BY <1>4 DEF Refresh
<1> QED
  BY <1>1, <1>2, <1>3, <1>4 DEF Next

(* Every step keeps the replica waiting.                                    *)
LEMMA FrozenKept ==
  ASSUME TypeOK, Queues, Known, Told, Served, Frozen, Apart, [Next]_vars
  PROVE  Frozen'
<1>0. /\ Living \subseteq Agents /\ Living' \subseteq Living
  BY Forward
<1>1. Served'
  BY ServedKept
<1>2. ASSUME transaction' = 0 PROVE Frozen'
  <2>1. TypeOK'
    BY NextTyped
  <2>2. /\ \A l \in listings' : l.request # transaction'
        /\ \A i \in 1 .. Len(wire') : ~Answers(wire'[i], transaction')
    <3>a. wire' \in Seq(Message) /\ \A l \in listings' : l.request \in Requests
      BY <2>1 DEF TypeOK, Message
    <3>b. 0 \notin Requests
      BY BoundsAssumption DEF Requests
    <3>1. wire' \in Seq(Message) /\ \A l \in listings' : l.request # 0
      BY <3>a, <3>b
    <3>2. \A i \in 1 .. Len(wire') : wire'[i] \in Message
      BY <3>1, ElementOf
    <3>3. \A i \in 1 .. Len(wire') : wire'[i].type = "response" => wire'[i].request # 0
      BY <3>2, RequestNumbers
    <3> QED
      BY <1>2, <3>1, <3>3 DEF Answers
  <2> QED
    BY <2>2 DEF Frozen
<1>3. CASE Receive
  <2>1. PICK m : Recorded(m) \/ Applied(m) \/ Removed(m) \/ Brought(m) \/ Completed(m) \/ Failed(m) \/ Ignored(m)
    BY <1>3, ReceiveCases
  <2>2. CASE transaction' = 0
    BY <1>2, <2>2
  <2>3. CASE transaction' # 0
    <3>1. Recorded(m) \/ Removed(m) \/ Brought(m) \/ Ignored(m)
      BY <2>1, <2>3 DEF Applied, Completed, Failed, ReceiveResponse, ReceiveError
    <3>2. Takes(m) /\ Idles
      BY <3>1 DEF Recorded, Removed, Brought, Ignored
    <3>3. ASSUME NEW a \in Living, a \notin paged'
          PROVE  /\ UNCHANGED <<transaction, skipped>> /\ a \notin paged
                 /\ view'[a] = view[a] /\ Carried(a)' = Carried(a)
                 /\ a \in unplaced => a \in unplaced'
      <4>1. view[a] <= version[a]
        BY DEF Known
      <4>2. transaction' = transaction
        BY <3>1, <4>1, OpenMoves
      <4> QED
        BY <2>3, <3>1, <3>3, <4>1, <4>2, OpenMoves
    <3>4. listings' = listings
      BY <3>2 DEF Idles, session
    <3>5. \A i \in 1 .. Len(wire') : i + 1 \in 1 .. Len(wire) /\ wire'[i] = wire[i + 1]
      BY <3>2, WireShifts
    <3>6. ASSUME NEW a \in Living' \ paged', NEW l \in listings', l.request = transaction'
          PROVE  view'[a] <= l.list[a]
      BY <1>0, <3>3, <3>4, <3>6 DEF Frozen
    <3>7. ASSUME NEW a \in Living' \ Exposed', NEW i \in 1 .. Len(wire'),
                 Answers(wire'[i], transaction')
          PROVE  view'[a] <= Leaves(wire'[i], a, Carried(a)')
      <4>1. /\ a \in Living /\ a \notin paged' /\ i + 1 \in 1 .. Len(wire)
            /\ wire'[i] = wire[i + 1]
        BY <1>0, <3>5 DEF Exposed
      <4>2. /\ transaction' = transaction /\ view'[a] = view[a] /\ Carried(a)' = Carried(a)
            /\ a \notin Exposed
        BY <3>3, <4>1 DEF Exposed
      <4> QED
        BY <3>7, <4>1, <4>2 DEF Frozen
    <3> QED
      BY <3>6, <3>7 DEF Frozen
  <2> QED
    BY <2>2, <2>3
<1>4. CASE Disconnect
  BY <1>2, <1>4 DEF Disconnect
<1>5. CASE ~Receive /\ ~Disconnect
  <2>1. UNCHANGED view
    BY <1>5, WhoChanges
  <2>2. /\ Extends
        /\ \A i \in 1 .. Len(wire') :
             \/ i \in 1 .. Len(wire)
             \/ wire'[i].type \in {"deleted", "page", "error"}
             \/ \E a \in Agents : FromJob(i, a)
             \/ \E l \in listings : FromListing(i, l)
    BY <1>5, WireGrows
  <2>3. CASE Refresh
    <3>1. transaction' = fetches + 1 /\ listings' = listings /\ wire' = wire
      BY <2>3 DEF Refresh, session
    <3>2. /\ \A l \in listings : l.request # transaction'
          /\ \A i \in 1 .. Len(wire) : ~Answers(wire[i], transaction')
      BY <3>1, NobodysTransaction
    <3> QED
      BY <3>1, <3>2 DEF Frozen
  <2>4. CASE ~Refresh
    <3>1. transaction' = transaction
      BY <1>5, <2>4, TransactionMoves
    <3>a. UNCHANGED <<unplaced, paged, skipped>> /\ Exposed' = Exposed
      BY <1>5, <2>4, WhoPlaces, WhoChanges DEF Exposed
    <3>2. ASSUME NEW a \in Living' \ paged', NEW l \in listings', l.request = transaction'
          PROVE  view'[a] <= l.list[a]
      <4>1. CASE l \in listings
        BY <1>0, <2>1, <3>1, <3>a, <3>2, <4>1 DEF Frozen
      <4>2. CASE l \notin listings
        <5>1. FetchAgents
          BY <4>2, WhoChanges
        <5>2. l.list = Current
          BY <4>2, <5>1 DEF FetchAgents
        <5>3. l.list[a] = version[a] /\ a \in Living
          BY <1>0, <5>2 DEF Current, Truth, Living
        <5> QED
          BY <2>1, <5>3 DEF Known
      <4> QED
        BY <4>1, <4>2
    <3>3. ASSUME NEW a \in Living' \ Exposed', NEW i \in 1 .. Len(wire'),
                 Answers(wire'[i], transaction')
          PROVE  view'[a] <= Leaves(wire'[i], a, Carried(a)')
      <4>0. a \in Living /\ a \in Agents /\ a \notin Exposed /\ Carried(a)' = Carried(a)
        BY <1>0, <2>1, <3>a DEF Carried
      <4>1. CASE i \in 1 .. Len(wire)
        BY <2>1, <2>2, <3>1, <3>3, <4>0, <4>1 DEF Frozen, Extends
      <4>2. CASE i \notin 1 .. Len(wire)
        <5>1. wire'[i].type = "response" /\ wire'[i].request = transaction
          BY <3>1, <3>3 DEF Answers
        <5>2. ASSUME NEW b \in Agents, FromJob(i, b) PROVE FALSE
          BY <5>1, <5>2, MessageKinds DEF FromJob
        <5>3. PICK l \in listings : FromListing(i, l)
          BY <2>2, <4>2, <5>1, <5>2
        <5>4. wire'[i] = Response(l)
          <6>1. \A k \in 1 .. Len(pending) : pending[k].type = "update"
            BY Typed, ElementOf, MessageKinds
          <6> QED
            BY <5>1, <5>3, <6>1 DEF FromListing
        <5>5. PICK order \in Orders(l.list) : FetchReplies(l, order)
          BY <5>3 DEF FromListing
        <5>6. /\ Moves /\ value' = l.list /\ seq' \in [Agents -> 0 .. MaxHead]
              /\ head' \in 0 .. MaxHead
              /\ l.list[a] # value[a] => seq'[a] > head
          BY <4>0, <5>5, AnswerTrue
        <5>7. /\ Response(l).request = l.request
              /\ \/ Leaves(Response(l), a, Carried(a)) = l.list[a]
                 \/ seq'[a] <= l.after /\ Leaves(Response(l), a, Carried(a)) = Carried(a)
          <6>1. /\ value' = l.list /\ seq' \in [Agents -> 0 .. MaxHead]
                /\ head' \in 0 .. MaxHead /\ a \in Agents
            BY <4>0, <5>6
          <6> DEFINE c == Carried(a)
          <6> HIDE DEF c
          <6>2. /\ Response(l).request = l.request
                /\ \/ Leaves(Response(l), a, c) = l.list[a]
                   \/ seq'[a] <= l.after /\ Leaves(Response(l), a, c) = c
            BY <6>1, ResponseFacts
          <6> QED
            BY <6>2 DEF c
        <5>8. view[a] <= l.list[a] /\ l.request = transaction
          BY <4>0, <5>1, <5>4, <5>7 DEF Frozen, Exposed
        <5>9. view[a] \in Nat /\ view[a] <= view[a] /\ (a \notin unplaced => Carried(a) = view[a])
          <6>1. view \in Content
            BY Typed
          <6>2. view[a] \in Nat /\ (a \notin unplaced => Carried(a) = view[a])
            BY <4>0, <6>1, CarriedFacts
          <6> QED
            BY <6>2
        <5>10. ASSUME seq'[a] <= l.after, a \in unplaced PROVE FALSE
          <6>1. /\ l.after <= cursor /\ cursor <= head /\ l.after \in Nat /\ cursor \in Nat
                /\ head \in Nat /\ seq[a] \in Nat /\ value[a] \in Nat
            BY <4>0, Reaches
          <6>2. seq'[a] \in 0 .. MaxHead /\ MaxHead \in Nat
            BY <4>0, <5>6, BoundsAssumption
          <6>3. ~(seq'[a] > head) /\ seq'[a] \notin (head + 1) .. head'
            BY <5>10, <6>1, <6>2
          <6>4. value[a] = l.list[a] /\ seq'[a] = seq[a]
            BY <4>0, <5>6, <6>3 DEF Moves
          <6>5. a \in (Living \ skipped) \cap unplaced /\ a \notin paged
            BY <4>0, <5>10 DEF Exposed
          <6>6. value[a] < l.list[a]
            BY <5>8, <5>10, <6>4, <6>5 DEF Apart
          <6> QED
            BY <6>1, <6>4, <6>6
        <5> QED
          BY <2>1, <4>0, <5>4, <5>7, <5>8, <5>9, <5>10
      <4> QED
        BY <4>1, <4>2
    <3> QED
      BY <3>2, <3>3 DEF Frozen
  <2> QED
    BY <2>3, <2>4
<1> QED
  BY <1>3, <1>4, <1>5

(* No step takes the replica of a living agent back that is not exposed.    *)
LEMMA ReplicaForwards ==
  ASSUME TypeOK, Queues, Known, Told, Served, Frozen, [Next]_vars, NEW a \in Living \ Exposed
  PROVE  view'[a] >= view[a] /\ view'[a] \in Nat /\ view[a] \in Nat
<1>0. view[a] \in Nat /\ view'[a] \in Nat
  BY ReplicaKept
<1>1. view[a] <= version[a]
  BY DEF Known
<1>2. ASSUME NEW m, Completed(m) PROVE view[a] <= view'[a]
  <2>1. Takes(m) /\ Answers(m, transaction)
    BY <1>2 DEF Completed, ReceiveResponse, Answers
  <2>2. 1 \in 1 .. Len(wire) /\ m = wire[1]
    BY <2>1, WireShifts
  <2>3. view[a] <= Leaves(m, a, Carried(a))
    BY <2>1, <2>2 DEF Frozen
  <2>4. Leaves(m, a, Carried(a)) <= view'[a] /\ Leaves(m, a, Carried(a)) \in Nat
    BY <1>1, <1>2, ReplicaMoves
  <2> QED
    BY <1>0, <2>3, <2>4
<1>3. CASE Receive
  <2>1. PICK m : Recorded(m) \/ Applied(m) \/ Removed(m) \/ Brought(m) \/ Completed(m) \/ Failed(m) \/ Ignored(m)
    BY <1>3, ReceiveCases
  <2>2. Completed(m) \/ view[a] <= view'[a] \/ view'[a] = view[a]
    BY <1>1, <2>1, ReplicaMoves
  <2> QED
    BY <1>0, <1>2, <2>2
<1>4. CASE Disconnect
  BY <1>0, <1>1, <1>4, ReplicaMoves
<1>5. CASE UNCHANGED view
  BY <1>0, <1>5
<1> QED
  BY <1>0, <1>3, <1>4, <1>5, WhoChanges

-----------------------------------------------------------------------------
(* The cursor and the collection.                                           *)

(* A message that reaches less far than the entry of an agent leaves the    *)
(* cursor behind that entry.                                                *)
LEMMA StaysBehind ==
  ASSUME TypeOK, Known, Told, NEW a \in Agents, NEW m,
         Recorded(m) \/ Applied(m) \/ Removed(m) \/ Brought(m) \/ Completed(m) \/ Failed(m) \/ Ignored(m),
         Newer(a, 1)
  PROVE  seq[a] > cursor'
<1>0. /\ cursor \in Nat /\ seq[a] \in Nat
      /\ \A j \in 1 .. Len(deltas) : deltas[j].seq \in Nat
      /\ \A j \in 1 .. Len(wire) : Reach(wire[j]) \in Nat
  BY Reaches
<1>1. Takes(m)
  BY DEF Recorded, Applied, Removed, Brought, Completed, Failed, Ignored
<1>2. m = wire[1] /\ 1 \in 1 .. Len(wire)
  BY <1>1, WireShifts
<1>3. /\ seq[a] > cursor /\ seq[a] > Reach(wire[1])
      /\ \A j \in 1 .. Len(deltas) : seq[a] > deltas[j].seq
  BY DEF Newer
<1> DEFINE N == seq[a] - 1
<1>4. /\ N \in Int /\ cursor <= N /\ \A j \in 1 .. Len(deltas) : deltas[j].seq <= N
      /\ Reach(m) <= N
  BY <1>0, <1>2, <1>3
<1>5. (Applied(m) => m.seq = Reach(m)) /\ (Completed(m) => m.headSeq = Reach(m))
  BY DEF Applied, Completed, Reach
<1> HIDE DEF N
<1>6. cursor' <= N \/ cursor' = cursor
  BY <1>4, <1>5, CursorMoves
<1>7. cursor' \in Nat
  <2>1. TypeOK'
    BY ReceiveTyped
  <2> QED
    BY <2>1, BoundsAssumption DEF TypeOK
<1> QED
  BY <1>0, <1>3, <1>6, <1>7 DEF N

(* Every step keeps what the cursor passed.                                 *)
LEMMA PassedKept ==
  ASSUME TypeOK, Queues, Known, Told, Served, Frozen, Passed, Sent, [Next]_vars
  PROVE  Passed'
<1> SUFFICES ASSUME NEW a \in Living', a \notin skipped', seq'[a] <= cursor'
             PROVE  view'[a] >= value'[a]
  BY DEF Passed
<1>0. /\ a \in Living /\ a \in Agents
      /\ \/ value'[a] = value[a] /\ seq'[a] = seq[a]
         \/ seq'[a] \in (head + 1) .. head'
  BY Forward
<1>1. /\ cursor <= head /\ cursor \in Nat /\ head \in Nat /\ seq[a] \in Nat /\ value[a] \in Nat
  BY <1>0, Reaches
<1>2. view'[a] \in Nat /\ view[a] \in Nat /\ view[a] <= version[a]
  BY <1>0, ReplicaKept DEF Known
<1>3. CASE UNCHANGED <<view, cursor, deltas, skipped>>
  <2>1. seq'[a] \notin (head + 1) .. head'
    BY <1>1, <1>3
  <2> QED
    BY <1>0, <1>3, <2>1 DEF Passed
<1>4. ASSUME UNCHANGED <<value, seq, head>>, cursor' = cursor, skipped' = skipped, view[a] <= view'[a]
      PROVE  view'[a] >= value'[a]
  <2>1. view[a] >= value[a]
    BY <1>0, <1>4 DEF Passed
  <2> QED
    BY <1>1, <1>2, <1>4, <2>1
<1>5. CASE Disconnect
  <2>1. view[a] <= view'[a]
    BY <1>0, <1>2, <1>5, ReplicaMoves
  <2> QED
    BY <1>4, <1>5, <2>1 DEF Disconnect, daemon
<1>6. CASE Receive
  <2>1. PICK m : Recorded(m) \/ Applied(m) \/ Removed(m) \/ Brought(m) \/ Completed(m) \/ Failed(m) \/ Ignored(m)
    BY <1>6, ReceiveCases
  <2>2. Takes(m) /\ value' = value /\ seq' = seq /\ head' = head
    BY <2>1 DEF Recorded, Applied, Removed, Brought, Completed, Failed, Ignored, Idles, daemon
  <2>3. CASE Recorded(m) \/ Removed(m) \/ Brought(m) \/ Failed(m) \/ Ignored(m)
    <3>1. cursor' = cursor /\ skipped' = skipped
      BY <2>3 DEF Recorded, Removed, Brought, Failed, Ignored, ReceiveDeleted, ReceivePage,
         ReceiveError, ReceiveStale
    <3>2. view[a] <= view'[a] \/ view'[a] = view[a]
      BY <1>0, <1>2, <2>3, ReplicaMoves
    <3>3. view[a] <= view'[a]
      BY <1>2, <3>2
    <3> QED
      BY <1>4, <2>2, <3>1, <3>3
  <2>4. m = wire[1] /\ 1 \in 1 .. Len(wire) /\ m \in Message
    BY <2>2, WireShifts
  <2>5. cursor' \in Nat
    <3>1. TypeOK'
      BY NextTyped
    <3> QED
      BY <3>1, BoundsAssumption DEF TypeOK
  <2>6. ~Newer(a, 1)
    <3>1. ~(seq[a] > cursor')
      BY <1>1, <2>2, <2>5
    <3> QED
      BY <1>0, <2>1, <3>1, StaysBehind
  <2>7. view[a] <= version[a]
    BY <1>0 DEF Known
  <2>8. CASE Applied(m) /\ m.agent = a
    <3>1. Tells(m, a)
      BY <2>8 DEF Applied, Tells
    <3>2. m.ver >= value[a]
      BY <1>0, <2>4, <2>6, <3>1 DEF Sent
    <3>3. view'[a] >= m.ver /\ m \in TrueUpdate
      BY <1>0, <2>7, <2>8, ReplicaMoves
    <3>4. m.ver \in Nat
      BY <3>3, MessageFields, BoundsAssumption DEF TrueUpdate, Versions
    <3> QED
      BY <1>1, <1>2, <2>2, <3>2, <3>3, <3>4
  <2>9. CASE Applied(m) /\ m.agent # a
    <3>1. a \notin skipped /\ ~(seq[a] \in (cursor + 1) .. m.seq /\ view[a] < value[a])
      <4>1. ~(view[a] <= value[a]) => ~(view[a] < value[a])
        BY <1>1, <1>2
      <4>2. /\ a \notin skipped
            /\ seq[a] \in (cursor + 1) .. m.seq =>
                 ~(IF a \in unplaced THEN view[a] <= value[a] ELSE view[a] < value[a])
        BY <1>0, <2>9 DEF Applied
      <4> QED
        BY <4>1, <4>2
    <3>0. view[a] <= view'[a]
      BY <1>0, <1>2, <2>9, ReplicaMoves
    <3>2. m.seq \in Nat
      BY <2>4, <2>9, MessageKinds, MessageFields, BoundsAssumption DEF Applied
    <3>3. CASE seq[a] <= cursor
      <4>1. view[a] >= value[a]
        BY <1>0, <3>1, <3>3 DEF Passed
      <4> QED
        BY <1>1, <1>2, <2>2, <3>0, <4>1
    <3>4. CASE seq[a] > cursor
      <4>1. seq[a] <= m.seq
        <5> SUFFICES ASSUME seq[a] > m.seq PROVE FALSE
          BY <1>1, <3>2
        <5>1. seq[a] - 1 \in Int /\ cursor <= seq[a] - 1 /\ m.seq <= seq[a] - 1
          BY <1>1, <3>2, <3>4
        <5>2. cursor' <= seq[a] - 1
          BY <2>9, <5>1, CursorMoves
        <5> QED
          BY <1>1, <2>2, <2>5, <5>2
      <4>2. view[a] >= value[a]
        BY <1>1, <1>2, <3>1, <3>2, <3>4, <4>1
      <4> QED
        BY <1>1, <1>2, <2>2, <3>0, <4>2
    <3> QED
      BY <1>1, <3>3, <3>4
  <2>10. CASE Completed(m)
    <3>1. Answers(m, transaction) /\ skipped' = skipped
      BY <2>10 DEF Completed, Answers, ReceiveResponse
    <3>2. Leaves(m, a, Carried(a)) >= value[a]
      BY <1>0, <2>4, <2>6, <3>1 DEF Sent
    <3>3. Leaves(m, a, Carried(a)) <= view'[a] /\ Leaves(m, a, Carried(a)) \in Nat
      BY <1>0, <2>7, <2>10, ReplicaMoves
    <3> QED
      BY <1>1, <1>2, <2>2, <3>2, <3>3
  <2> QED
    BY <2>1, <2>3, <2>8, <2>9, <2>10
<1> QED
  BY <1>3, <1>5, <1>6, WhoChanges

(* Every step keeps the agents without a project apart.                     *)
LEMMA ApartKept ==
  ASSUME TypeOK, Queues, Known, Told, Served, Passed, Apart, Sent, [Next]_vars
  PROVE  Apart'
<1> DEFINE Ahead(a) == seq'[a] <= cursor' => value'[a] < view'[a]
           Brings(a) == \A l \in listings' : l.request = transaction' /\ seq'[a] <= l.after =>
                          value'[a] < l.list[a] \/ (value'[a] = 0 /\ a \in paged')
<1> SUFFICES ASSUME NEW a \in Living', a \notin skipped', a \in unplaced'
             PROVE  Ahead(a) /\ Brings(a)
  BY DEF Apart
<1>0. /\ a \in Living /\ a \in Agents
      /\ \/ value'[a] = value[a] /\ seq'[a] = seq[a]
         \/ seq'[a] \in (head + 1) .. head'
  BY Forward
<1>1. /\ cursor <= head /\ cursor \in Nat /\ head \in Nat /\ seq[a] \in Nat /\ value[a] \in Nat
      /\ \A l \in listings : l.after <= cursor /\ l.after \in Nat
  BY <1>0, Reaches
<1>2. view'[a] \in Nat /\ view[a] \in Nat /\ view[a] <= version[a] /\ version[a] \in Nat
  BY <1>0, ReplicaKept, Forward DEF Known
<1>a. cursor' \in Nat /\ seq'[a] \in Nat /\ transaction' \in {0} \cup Requests
      /\ \A l \in listings' : l.request \in Requests /\ l.after \in Nat
  <2>1. TypeOK'
    BY NextTyped
  <2>2. /\ cursor' \in 0 .. MaxHead /\ seq' \in [Agents -> 0 .. MaxHead]
        /\ transaction' \in {0} \cup Requests
        /\ listings' \subseteq [request : Requests, after : 0 .. MaxHead, list : Content]
    BY <2>1 DEF TypeOK
  <2>3. MaxHead \in Nat
    BY BoundsAssumption
  <2>4. ASSUME NEW l \in listings' PROVE l.request \in Requests /\ l.after \in Nat
    <3>1. l \in [request : Requests, after : 0 .. MaxHead, list : Content]
      BY <2>2, <2>4
    <3> QED
      BY <2>3, <3>1
  <2>5. cursor' \in Nat /\ seq'[a] \in Nat
    BY <1>0, <2>2, <2>3
  <2> QED
    BY <2>2, <2>4, <2>5
<1>b. transaction' = 0 => Brings(a)
  <2>1. 0 \notin Requests
    BY BoundsAssumption DEF Requests
  <2> QED
    BY <1>a, <2>1
<1>c. Known'
  BY KnownKept
<1>3. CASE ~Receive /\ ~Disconnect
  <2>1. UNCHANGED <<view, cursor, skipped, unplaced>>
    BY <1>3, WhoChanges, WhoPlaces
  <2>2. CASE seq'[a] \in (head + 1) .. head'
    <3>1. seq'[a] > cursor'
      BY <1>1, <1>a, <2>1, <2>2
    <3>2. ASSUME NEW l \in listings' PROVE ~(seq'[a] <= l.after)
      <4>1. l.after <= cursor' /\ l.after \in Nat
        BY <1>a, <1>c DEF Known
      <4> QED
        BY <1>a, <3>1, <4>1
    <3> QED
      BY <1>a, <3>1, <3>2
  <2>3. CASE value'[a] = value[a] /\ seq'[a] = seq[a]
    <3>1. a \in (Living \ skipped) \cap unplaced
      BY <1>0, <2>1
    <3>2. Ahead(a)
      BY <2>1, <2>3, <3>1 DEF Apart
    <3>3. CASE Refresh
      <4>1. transaction' = fetches + 1 /\ listings' = listings
        BY <3>3 DEF Refresh, session
      <4>2. \A l \in listings : l.request # transaction'
        BY <4>1, NobodysTransaction
      <4> QED
        BY <3>2, <4>1, <4>2
    <3>4. CASE ~Refresh
      <4>1. transaction' = transaction /\ paged' = paged
        BY <1>3, <3>4, TransactionMoves, WhoPlaces
      <4>2. ASSUME NEW l \in listings', l.request = transaction', seq'[a] <= l.after
            PROVE  value'[a] < l.list[a] \/ (value'[a] = 0 /\ a \in paged')
        <5>1. CASE l \in listings
          BY <2>3, <3>1, <4>1, <4>2, <5>1 DEF Apart
        <5>2. CASE l \notin listings
          <6>1. FetchAgents
            BY <5>2, WhoChanges
          <6>2. l.list = Current
            BY <5>2, <6>1 DEF FetchAgents
          <6>3. l.list[a] = version[a]
            BY <1>0, <6>2 DEF Current, Truth, Living
          <6>4. l.after <= cursor' /\ l.after \in Nat
            BY <1>a, <1>c DEF Known
          <6>5. seq[a] <= cursor
            BY <1>1, <2>1, <2>3, <4>2, <6>4
          <6>6. value[a] < view[a]
            BY <3>1, <6>5 DEF Apart
          <6> QED
            BY <1>1, <1>2, <2>3, <6>3, <6>6
        <5> QED
          BY <5>1, <5>2
      <4> QED
        BY <3>2, <4>2
    <3> QED
      BY <3>3, <3>4
  <2> QED
    BY <1>0, <2>2, <2>3
<1>4. ASSUME UNCHANGED <<value, seq, cursor, skipped>>, a \in unplaced, view[a] <= view'[a]
      PROVE  Ahead(a)
  <2>1. seq[a] <= cursor => value[a] < view[a]
    BY <1>0, <1>4 DEF Apart
  <2> QED
    BY <1>1, <1>2, <1>4, <2>1
<1>5. CASE Disconnect
  <2>1. view[a] <= view'[a] /\ transaction' = 0 /\ a \in unplaced
        /\ UNCHANGED <<value, seq, cursor, skipped>>
    BY <1>0, <1>2, <1>5, ReplicaMoves DEF Disconnect, Place, daemon
  <2> QED
    BY <1>4, <1>b, <2>1
<1>6. CASE Receive
  <2>1. PICK m : Recorded(m) \/ Applied(m) \/ Removed(m) \/ Brought(m) \/ Completed(m) \/ Failed(m) \/ Ignored(m)
    BY <1>6, ReceiveCases
  <2>2. Takes(m) /\ value' = value /\ seq' = seq /\ listings' = listings
    BY <2>1 DEF Recorded, Applied, Removed, Brought, Completed, Failed, Ignored, Idles, daemon,
       session
  <2>3. CASE Recorded(m) \/ Removed(m) \/ Brought(m) \/ Ignored(m)
    <3>1. /\ UNCHANGED <<cursor, transaction, skipped>> /\ paged \subseteq paged'
          /\ view[a] <= view'[a]
          /\ a \in unplaced \/ (view[a] = 0 /\ view'[a] > 0)
          /\ transaction # 0 => \/ a \in paged'
                                \/ view'[a] = view[a]
      BY <1>0, <1>2, <2>3, OpenMoves
    <3>2. CASE a \in unplaced
      <4>1. Ahead(a)
        BY <1>4, <2>2, <3>1, <3>2
      <4>2. Brings(a)
        BY <1>0, <2>2, <3>1, <3>2 DEF Apart
      <4> QED
        BY <4>1, <4>2
    <3>3. CASE view[a] = 0 /\ view'[a] > 0
      <4>1. seq[a] <= cursor => value[a] = 0
        <5>1. seq[a] <= cursor => view[a] >= value[a]
          BY <1>0, <3>1 DEF Passed
        <5> QED
          BY <1>1, <3>3, <5>1
      <4>2. Ahead(a)
        BY <2>2, <3>1, <3>3, <4>1
      <4>3. ASSUME NEW l \in listings', l.request = transaction', seq'[a] <= l.after
            PROVE  value'[a] = 0 /\ a \in paged'
        <5>1. l \in listings /\ seq[a] <= cursor
          BY <1>1, <2>2, <4>3
        <5>2. transaction # 0
          <6>1. 0 \notin Requests
            BY BoundsAssumption DEF Requests
          <6> QED
            BY <1>a, <3>1, <4>3, <6>1
        <5>3. a \in paged'
          BY <1>2, <3>1, <3>3, <5>2
        <5> QED
          BY <2>2, <4>1, <5>1, <5>3
      <4> QED
        BY <4>2, <4>3
    <3> QED
      BY <3>1, <3>2, <3>3
  <2>4. m = wire[1] /\ 1 \in 1 .. Len(wire) /\ m \in Message
    BY <2>2, WireShifts
  <2>5. CASE Completed(m)
    BY <2>5 DEF Completed, ReceiveResponse
  <2>6. CASE Failed(m)
    <3>1. view[a] <= view'[a] /\ transaction' = 0 /\ a \in unplaced
          /\ UNCHANGED <<value, seq, cursor, skipped>>
      BY <1>0, <1>2, <2>2, <2>6, ReplicaMoves DEF Failed, ReceiveError, Place
    <3> QED
      BY <1>4, <1>b, <3>1
  <2>7. CASE Applied(m)
    <3>1. /\ m \in Update /\ m.agent \in Agents /\ m.ver \in Nat /\ m.seq \in Nat
      BY <2>4, <2>7, MessageKinds, MessageFields, BoundsAssumption DEF Applied, Versions
    <3>2. transaction' = 0 /\ view' = Accept(view, m)
      BY <2>7 DEF Applied
    <3>3. a \in unplaced /\ (m.agent = a => m.ver # 0 /\ m.ver < view[a])
      <4>1. /\ unplaced' = {b \in unplaced : \A i \in 1 .. Len(<<m>>) :
                              <<m>>[i].agent = b => <<m>>[i].ver # 0 /\ <<m>>[i].ver < view[b]}
        BY <2>7 DEF Applied, Place
      <4>2. 1 \in 1 .. Len(<<m>>) /\ <<m>>[1] = m
        OBVIOUS
      <4> QED
        BY <4>1, <4>2
    <3>4. view[a] <= view'[a]
      BY <1>0, <1>2, <2>7, ReplicaMoves
    <3>5. CASE m.agent = a
      <4>1. ~(seq[a] > cursor') => m.ver >= value[a]
        <5>1. Tells(m, a)
          BY <2>7, <3>5 DEF Applied, Tells
        <5>2. m.ver >= value[a] \/ Newer(a, 1)
          BY <1>0, <2>4, <5>1 DEF Sent
        <5> QED
          BY <1>0, <2>1, <5>2, StaysBehind
      <4>2. Ahead(a)
        BY <1>1, <1>2, <1>a, <2>2, <3>1, <3>3, <3>4, <3>5, <4>1
      <4> QED
        BY <1>b, <3>2, <4>2
    <3>6. CASE m.agent # a
      <4>1. a \notin skipped /\ ~(seq[a] \in (cursor + 1) .. m.seq /\ view[a] <= value[a])
        BY <1>0, <2>7, <3>3, <3>6 DEF Applied
      <4>2. CASE seq[a] <= cursor
        <5>1. value[a] < view[a]
          BY <1>0, <3>3, <4>1, <4>2 DEF Apart
        <5> QED
          BY <1>1, <1>2, <1>b, <2>2, <3>2, <3>4, <5>1
      <4>3. CASE seq[a] > cursor
        <5>1. seq[a] <= cursor' => seq[a] <= m.seq
          <6> SUFFICES ASSUME seq[a] <= cursor', seq[a] > m.seq PROVE FALSE
            BY <1>1, <3>1
          <6>1. seq[a] - 1 \in Int /\ cursor <= seq[a] - 1 /\ m.seq <= seq[a] - 1
            BY <1>1, <3>1, <4>3
          <6>2. cursor' <= seq[a] - 1
            BY <2>7, <6>1, CursorMoves
          <6> QED
            BY <1>1, <1>a, <6>2
        <5>2. seq[a] <= cursor' => value[a] < view[a]
          BY <1>1, <1>2, <3>1, <4>1, <4>3, <5>1
        <5>3. Ahead(a)
          BY <1>1, <1>2, <2>2, <3>4, <5>2
        <5> QED
          BY <1>b, <3>2, <5>3
      <4> QED
        BY <1>1, <4>2, <4>3
    <3> QED
      BY <3>5, <3>6
  <2> QED
    BY <2>1, <2>3, <2>5, <2>6, <2>7
<1> QED
  BY <1>3, <1>5, <1>6

\* The job of agent a publishes into the buffer of the subscription.
IntoBuffer(a) ==
  /\ FinishUpdate(a) \/ RunRemoval(a)
  /\ Published(a, Head(tail[a])) \in Update /\ value'[a] = Head(tail[a])
  /\ pending' = Buffer(pending, Published(a, Head(tail[a])))

(* What happens to the buffer.                                              *)
LEMMA PendingMoves ==
  ASSUME TypeOK, Queues, [Next]_vars
  PROVE  \/ pending' = <<>>
         \/ /\ listings' \subseteq listings /\ subscription' = subscription
            /\ pending' = pending \/ \E a \in Agents : IntoBuffer(a)
<1> DEFINE Good == \/ pending' = <<>>
                   \/ /\ listings' \subseteq listings /\ subscription' = subscription
                      /\ pending' = pending \/ \E a \in Agents : IntoBuffer(a)
<1>1. ASSUME NEW a \in Agents,
             AgentChanges(a) \/ DeleteAgent(a) \/ OtherDeletes(a) \/ StartUpdate(a)
               \/ FetchTimeline(a) \/ \E v \in Versions : OtherSequences(a, v)
      PROVE  Good
  BY <1>1 DEF AgentChanges, DeleteAgent, OtherDeletes, StartUpdate, FetchTimeline, OtherSequences,
     session
<1>2. ASSUME NEW a \in Agents, FinishUpdate(a) \/ RunRemoval(a) PROVE Good
  <2> DEFINE sub == IF captured[a] = Idle THEN subscription ELSE captured[a]
             v == Head(tail[a])
  <2>1. Publish(sub, a, v) /\ v \in Versions /\ sub \in {0} \cup Requests
        /\ UNCHANGED <<subscription, listings>>
    BY <1>2, JobFacts
  <2> HIDE DEF sub, v
  <2>2. \/ pending' = pending
        \/ /\ pending' = Buffer(pending, Published(a, v))
           /\ Published(a, v) \in Update /\ value'[a] = v
    BY <2>1, PublishCases
  <2>3. pending' = pending \/ IntoBuffer(a)
    BY <1>2, <2>2 DEF IntoBuffer, v
  <2> QED
    BY <2>1, <2>3
<1>3. ASSUME NEW l \in listings, FetchFails(l) \/ \E order \in Orders(l.list) : FetchReplies(l, order)
      PROVE  Good
  BY <1>3 DEF FetchFails, FetchReplies
<1>4. ASSUME FetchAgents \/ GraceEnds PROVE Good
  BY <1>4 DEF FetchAgents, GraceEnds
<1>5. ASSUME Refresh \/ Receive \/ Disconnect \/ Resume \/ UNCHANGED vars PROVE Good
  BY <1>5 DEF Refresh, Receive, Disconnect, Resume, session, vars
<1> HIDE DEF Good
<1>6. Good
  BY <1>1, <1>2, <1>3, <1>4, <1>5 DEF Next
<1> QED
  BY <1>6 DEF Good

(* Every step keeps what is buffered up to date with the collection.        *)
LEMMA BufferedKept ==
  ASSUME TypeOK, Queues, Known, Told, Buffered, [Next]_vars
  PROVE  Buffered'
<1> SUFFICES ASSUME NEW i \in 1 .. Len(pending'), pending'[i].agent \in Living'
             PROVE  \/ pending'[i].ver >= value'[pending'[i].agent]
                    \/ \A l \in listings' : l.request = subscription' => seq'[pending'[i].agent] > l.after
  BY DEF Buffered
<1>0. /\ Living \subseteq Agents /\ Living' \subseteq Living
      /\ \A b \in Agents :
           \/ value'[b] = value[b] /\ seq'[b] = seq[b]
           \/ seq'[b] \in (head + 1) .. head'
  BY Forward
<1>1. /\ cursor <= head /\ cursor \in Nat /\ head \in Nat
      /\ \A l \in listings : l.after <= cursor /\ l.after \in Nat
  BY Reaches
<1>3. ASSUME NEW j \in 1 .. Len(pending), pending'[i] = pending[j],
             listings' \subseteq listings, subscription' = subscription
      PROVE  \/ pending'[i].ver >= value'[pending'[i].agent]
             \/ \A l \in listings' : l.request = subscription' => seq'[pending'[i].agent] > l.after
  <2> DEFINE b == pending[j].agent
  <2>1. b \in Agents /\ b \in Living
    BY <1>0, <1>3
  <2>2. CASE value'[b] = value[b] /\ seq'[b] = seq[b]
    BY <1>3, <2>1, <2>2 DEF Buffered
  <2>3. CASE seq'[b] \in (head + 1) .. head'
    <3>1. \A l \in listings : seq'[b] > l.after
      BY <1>1, <2>3
    <3> QED
      BY <1>3, <3>1
  <2> QED
    BY <1>0, <2>1, <2>2, <2>3
<1>4. CASE pending' = <<>>
  BY <1>4
<1>5. CASE listings' \subseteq listings /\ subscription' = subscription /\ pending' = pending
  BY <1>3, <1>5
<1>6. ASSUME NEW a \in Agents, IntoBuffer(a), listings' \subseteq listings, subscription' = subscription
      PROVE  \/ pending'[i].ver >= value'[pending'[i].agent]
             \/ \A l \in listings' : l.request = subscription' => seq'[pending'[i].agent] > l.after
  <2> DEFINE u == Published(a, Head(tail[a]))
  <2>1. u \in Update /\ pending' = Buffer(pending, u) /\ u.agent = a /\ u.ver = value'[a]
    BY <1>6 DEF IntoBuffer, Published
  <2> HIDE DEF u
  <2>2. pending \in Seq(Update)
    BY Typed
  <2>3. Replaces(pending', pending, u)
    BY <2>1, <2>2, BufferFacts
  <2>4. pending'[i] = u \/ \E j \in 1 .. Len(pending) : pending'[i] = pending[j]
    BY <2>3 DEF Replaces
  <2>5. u.ver \in Nat
    BY <2>1, MessageFields, BoundsAssumption DEF Versions
  <2>6. u.ver >= value'[a]
    BY <2>1, <2>5
  <2> QED
    BY <1>3, <1>6, <2>1, <2>4, <2>6
<1> QED
  BY <1>4, <1>5, <1>6, PendingMoves

(* What a listing's answer and the updates flushed behind it say.           *)
LEMMA AnswerCovers ==
  ASSUME TypeOK, Queues, Known, Told, Passed, Apart, Buffered, [Next]_vars, NEW l \in listings,
         NEW order \in Orders(l.list), FetchReplies(l, order), NEW a \in Living'
  PROVE  /\ l.request = transaction =>
              Leaves(Response(l), a, Carried(a)) >= value'[a] \/ a \in skipped
         /\ l.request = subscription => \A k \in 1 .. Len(pending) :
              pending[k].agent = a /\ Passes(pending[k], Response(l)) => pending[k].ver >= value'[a]
<1>0. /\ a \in Living /\ a \in Agents
      /\ \/ value'[a] = value[a] /\ seq'[a] = seq[a]
         \/ seq'[a] \in (head + 1) .. head'
  BY Forward
<1>1. /\ cursor <= head /\ cursor \in Nat /\ head \in Nat
      /\ l.after <= cursor /\ l.after \in Nat /\ seq[a] \in Nat
  BY <1>0, Reaches
<1>2. value' = l.list /\ seq' \in [Agents -> 0 .. MaxHead] /\ head' \in 0 .. MaxHead
  BY AnswerTrue
<1>3. \/ Response(l).values[a] = l.list[a] /\ Leaves(Response(l), a, Carried(a)) = l.list[a]
      \/ /\ l.after # 0 /\ seq'[a] <= l.after
         /\ Response(l).values[a] = 0 /\ Leaves(Response(l), a, Carried(a)) = Carried(a)
  <2> DEFINE c == Carried(a)
  <2> HIDE DEF c
  <2>1. \/ Response(l).values[a] = l.list[a] /\ Leaves(Response(l), a, c) = l.list[a]
        \/ /\ l.after # 0 /\ seq'[a] <= l.after
           /\ Response(l).values[a] = 0 /\ Leaves(Response(l), a, c) = c
    BY <1>0, <1>2, ResponseFacts
  <2> QED
    BY <2>1 DEF c
<1>4. l.list[a] \in Nat /\ value[a] \in Nat
  BY <1>0, Typed, Reaches DEF Content, Versions
<1>5. ASSUME seq'[a] <= l.after PROVE value'[a] = value[a] /\ seq'[a] = seq[a] /\ seq[a] <= cursor
  BY <1>0, <1>1, <1>5
<1>6. ASSUME l.request = transaction
      PROVE  Leaves(Response(l), a, Carried(a)) >= value'[a] \/ a \in skipped
  <2>1. CASE Leaves(Response(l), a, Carried(a)) = l.list[a]
    BY <1>2, <1>4, <2>1
  <2>2. CASE seq'[a] <= l.after /\ Leaves(Response(l), a, Carried(a)) = Carried(a)
    <3> SUFFICES ASSUME a \notin skipped PROVE Carried(a) >= value[a]
      BY <1>5, <2>2
    <3>1. view \in Content
      BY Typed
    <3>2. CASE a \in unplaced
      <4>1. Carried(a) = 0
        BY <1>0, <3>1, <3>2, CarriedFacts
      <4>2. value[a] < l.list[a] \/ value[a] = 0
        BY <1>0, <1>5, <1>6, <2>2, <3>2 DEF Apart
      <4>3. value[a] = l.list[a]
        BY <1>2, <1>5, <2>2
      <4> QED
        BY <1>4, <4>1, <4>2, <4>3
    <3>3. CASE a \notin unplaced
      <4>1. Carried(a) = view[a]
        BY <1>0, <3>1, <3>3, CarriedFacts
      <4>2. view[a] >= value[a]
        BY <1>0, <1>5, <2>2 DEF Passed
      <4> QED
        BY <4>1, <4>2
    <3> QED
      BY <3>2, <3>3
  <2> QED
    BY <1>3, <2>1, <2>2
<1>7. ASSUME l.request = subscription, NEW k \in 1 .. Len(pending),
             pending[k].agent = a, Passes(pending[k], Response(l))
      PROVE  pending[k].ver >= value'[a]
  <2>1. pending[k].ver # 0
    <3>1. pending[k] \in TrueUpdate
      BY ElementOf DEF Told
    <3>2. pending[k].ver \in 1 .. version[a]
      BY <1>0, <1>7, <3>1 DEF TrueUpdate
    <3> QED
      BY <3>2
  <2>2. pending[k].ver >= Response(l).values[a]
    BY <1>7, <2>1 DEF Passes
  <2>3. CASE Response(l).values[a] = l.list[a]
    BY <1>2, <2>2, <2>3
  <2>4. CASE seq'[a] <= l.after
    <3>1. ~(seq[a] > l.after)
      BY <1>1, <1>5, <2>4
    <3>2. pending[k].ver >= value[a]
      BY <1>0, <1>7, <3>1 DEF Buffered
    <3> QED
      BY <1>5, <2>4, <3>2
  <2> QED
    BY <1>3, <2>3, <2>4
<1> QED
  BY <1>6, <1>7

(* An answer leaves what there was or what it says.                         *)
LEMMA LeavesFacts ==
  ASSUME NEW m, NEW a
  PROVE  (\A x : Leaves(m, a, x) = x) \/ (\A x, y : Leaves(m, a, x) = Leaves(m, a, y))
BY DEF Leaves

(* Every step keeps what is sent up to date with the collection.            *)
LEMMA SentKept ==
  ASSUME TypeOK, Queues, Known, Told, Served, Frozen, Passed, Apart, Buffered, Sent, [Next]_vars
  PROVE  Sent'
<1> SUFFICES ASSUME NEW a \in Living', NEW i \in 1 .. Len(wire')
             PROVE  /\ Tells(wire'[i], a) => wire'[i].ver >= value'[a] \/ Newer(a, i)'
                    /\ Answers(wire'[i], transaction') =>
                         \/ a \in skipped'
                         \/ Leaves(wire'[i], a, Carried(a)') >= value'[a]
                         \/ Newer(a, i)'
  BY DEF Sent
<1>0. /\ a \in Living /\ a \in Agents
      /\ \/ value'[a] = value[a] /\ seq'[a] = seq[a]
         \/ seq'[a] \in (head + 1) .. head'
  BY Forward
<1>1. /\ cursor <= head /\ cursor \in Nat /\ head \in Nat /\ seq[a] \in Nat
      /\ \A j \in 1 .. Len(deltas) : deltas[j].seq <= head /\ deltas[j].seq \in Nat
      /\ \A j \in 1 .. Len(wire) : Reach(wire[j]) <= head /\ Reach(wire[j]) \in Nat
  BY <1>0, Reaches
<1>2. CASE Disconnect
  BY <1>2 DEF Disconnect
<1>3. CASE Receive
  <2>1. PICK m : Recorded(m) \/ Applied(m) \/ Removed(m) \/ Brought(m) \/ Completed(m) \/ Failed(m) \/ Ignored(m)
    BY <1>3, ReceiveCases
  <2>2. Takes(m) /\ value' = value /\ seq' = seq
    BY <2>1 DEF Recorded, Applied, Removed, Brought, Completed, Failed, Ignored, Idles, daemon
  <2>3. /\ m = wire[1] /\ m \in Message /\ Len(wire) \in Nat /\ Len(wire') = Len(wire) - 1
        /\ \A k \in 1 .. Len(wire') : k + 1 \in 1 .. Len(wire) /\ wire'[k] = wire[k + 1]
    BY <2>2, WireShifts
  <2>4. i + 1 \in 1 .. Len(wire) /\ wire'[i] = wire[i + 1] /\ i \in Nat
    BY <2>3
  <2>5. ASSUME Newer(a, i + 1) PROVE Newer(a, i)'
    <3>1. /\ seq[a] > cursor /\ \A j \in 1 .. Len(deltas) : seq[a] > deltas[j].seq
          /\ \A j \in 1 .. i + 1 : seq[a] > Reach(wire[j])
      BY <2>5 DEF Newer
    <3>2. 1 \in 1 .. i + 1 /\ \A j \in 1 .. 1 : j = 1
      BY <2>4
    <3>3. Newer(a, 1)
      BY <3>1, <3>2 DEF Newer
    <3>4. seq[a] > cursor'
      BY <1>0, <2>1, <3>3, StaysBehind
    <3>5. ASSUME NEW j \in 1 .. Len(deltas') PROVE seq[a] > deltas'[j].seq
      <4>1. CASE Recorded(m)
        <5>1. deltas' = Append(deltas, m) /\ m.type = "update" /\ deltas \in Seq(Update)
          BY <4>1, Typed DEF Recorded
        <5>2. seq[a] > m.seq
          BY <2>3, <3>1, <3>2, <5>1 DEF Reach
        <5>3. /\ Len(deltas) \in Nat /\ Len(deltas') = Len(deltas) + 1
              /\ deltas'[Len(deltas) + 1] = m /\ \A k \in 1 .. Len(deltas) : deltas'[k] = deltas[k]
          BY <5>1
        <5>4. j \in 1 .. Len(deltas) \/ j = Len(deltas) + 1
          BY <5>3
        <5> QED
          BY <3>1, <5>2, <5>3, <5>4
      <4>2. CASE ~Recorded(m)
        <5>1. deltas' = deltas \/ deltas' = <<>>
          BY <2>1, <4>2 DEF Applied, Removed, Brought, Completed, Failed, Ignored, ReceiveDeleted,
             ReceivePage, ReceiveResponse, ReceiveError, ReceiveStale
        <5> QED
          BY <3>1, <5>1
      <4> QED
        BY <4>1, <4>2
    <3>6. ASSUME NEW j \in 1 .. i PROVE seq[a] > Reach(wire'[j])
      <4>1. j \in 1 .. Len(wire') /\ j + 1 \in 1 .. i + 1
        BY <2>3, <2>4
      <4>2. wire'[j] = wire[j + 1]
        BY <2>3, <4>1
      <4> QED
        BY <3>1, <4>1, <4>2
    <3> QED
      BY <2>2, <3>4, <3>5, <3>6 DEF Newer, Reach
  <2>6. Tells(wire'[i], a) => wire'[i].ver >= value'[a] \/ Newer(a, i)'
    BY <1>0, <2>2, <2>4, <2>5 DEF Sent
  <2>7. ASSUME Answers(wire'[i], transaction')
        PROVE  a \in skipped' \/ Leaves(wire'[i], a, Carried(a)') >= value'[a] \/ Newer(a, i)'
    <3>1. transaction' # 0
      <4>1. wire[i + 1] \in Message
        BY <2>4, Typed, ElementOf
      <4> QED
        BY <2>4, <2>7, <4>1, RequestNumbers DEF Answers
    <3>2. Recorded(m) \/ Removed(m) \/ Brought(m) \/ Ignored(m)
      BY <2>1, <3>1 DEF Applied, Completed, Failed, ReceiveResponse, ReceiveError
    <3>3. /\ transaction' = transaction /\ skipped' = skipped
          /\ Carried(a) <= Carried(a)' /\ Carried(a) \in Nat /\ Carried(a)' \in Nat
      <4>1. view[a] <= version[a]
        BY <1>0 DEF Known
      <4> QED
        BY <1>0, <3>2, <4>1, OpenMoves
    <3>4. Answers(wire[i + 1], transaction) /\ value[a] \in Nat
      BY <1>0, <2>4, <2>7, <3>3, Reaches
    <3>5. a \in skipped \/ Leaves(wire[i + 1], a, Carried(a)) >= value[a] \/ Newer(a, i + 1)
      BY <1>0, <2>4, <3>4 DEF Sent
    <3> DEFINE c == Carried(a)
               d == Carried(a)'
    <3>6. c <= d /\ c \in Nat /\ d \in Nat
      BY <3>3
    <3> HIDE DEF c, d
    <3>7. Leaves(wire[i + 1], a, c) >= value[a] => Leaves(wire[i + 1], a, d) >= value[a]
      <4>1. CASE \A x : Leaves(wire[i + 1], a, x) = x
        BY <3>4, <3>6, <4>1
      <4>2. CASE \A x, y : Leaves(wire[i + 1], a, x) = Leaves(wire[i + 1], a, y)
        <5>1. Leaves(wire[i + 1], a, c) = Leaves(wire[i + 1], a, d)
          BY <4>2
        <5> QED
          BY <5>1
      <4> QED
        BY <4>1, <4>2, LeavesFacts
    <3> QED
      BY <2>2, <2>4, <2>5, <3>3, <3>5, <3>7 DEF c, d
  <2> QED
    BY <2>6, <2>7
<1>4. CASE ~Receive /\ ~Disconnect
  <2>1. UNCHANGED <<view, cursor, deltas, skipped>> /\ Carried(a)' = Carried(a)
    BY <1>4, WhoChanges, WhoPlaces DEF Carried
  <2>2. /\ Extends
        /\ \/ i \in 1 .. Len(wire)
           \/ wire'[i].type \in {"deleted", "page", "error"}
           \/ \E b \in Agents : FromJob(i, b)
           \/ \E l \in listings : FromListing(i, l)
    BY <1>4, WireGrows
  <2>3. CASE i \in 1 .. Len(wire)
    <3>1. /\ wire'[i] = wire[i] /\ Len(wire) \in Nat /\ i \in Nat
          /\ \A j \in 1 .. i : j \in 1 .. Len(wire) /\ wire'[j] = wire[j]
      <4>1. \A j \in 1 .. i : j \in 1 .. Len(wire)
        BY <2>2, <2>3 DEF Extends
      <4> QED
        BY <2>2, <2>3, <4>1 DEF Extends
    <3>2. CASE seq'[a] \in (head + 1) .. head'
      <4>1. seq'[a] \in Nat /\ seq'[a] > head
        BY <1>1, <3>2
      <4>2. /\ seq'[a] > cursor /\ \A j \in 1 .. Len(deltas) : seq'[a] > deltas[j].seq
        BY <1>1, <4>1
      <4>3. ASSUME NEW j \in 1 .. i PROVE seq'[a] > Reach(wire[j])
        BY <1>1, <3>1, <4>1
      <4>4. Newer(a, i)'
        BY <2>1, <3>1, <4>2, <4>3 DEF Newer, Reach
      <4> QED
        BY <4>4
    <3>3. CASE value'[a] = value[a] /\ seq'[a] = seq[a]
      <4>1. Newer(a, i) => Newer(a, i)'
        BY <2>1, <3>1, <3>3 DEF Newer, Reach
      <4>2. Answers(wire'[i], transaction') => transaction' = transaction
        <5>1. CASE Refresh
          <6>1. transaction' = fetches + 1
            BY <5>1 DEF Refresh
          <6> QED
            BY <2>3, <3>1, <6>1, NobodysTransaction
        <5> QED
          BY <1>4, <5>1, TransactionMoves
      <4>3. Tells(wire'[i], a) => wire'[i].ver >= value'[a] \/ Newer(a, i)'
        BY <1>0, <2>3, <3>1, <3>3, <4>1 DEF Sent
      <4>4. Answers(wire'[i], transaction') =>
              a \in skipped' \/ Leaves(wire'[i], a, Carried(a)') >= value'[a] \/ Newer(a, i)'
        BY <1>0, <2>1, <2>3, <3>1, <3>3, <4>1, <4>2 DEF Sent
      <4> QED
        BY <4>3, <4>4
    <3> QED
      BY <1>0, <3>2, <3>3
  <2>4. CASE wire'[i].type \in {"deleted", "page", "error"}
    BY <2>4 DEF Tells, Answers
  <2>5. ASSUME NEW b \in Agents, FromJob(i, b)
        PROVE  /\ Tells(wire'[i], a) => wire'[i].ver >= value'[a]
               /\ ~Answers(wire'[i], transaction')
    <3>1. /\ wire'[i].type = "update" /\ wire'[i].agent = b /\ wire'[i].ver = value'[b]
          /\ wire'[i] \in Update
      BY <2>5, MessageKinds DEF FromJob, Published
    <3>2. wire'[i].ver \in Nat
      BY <3>1, MessageFields, BoundsAssumption DEF Versions
    <3> QED
      BY <3>1, <3>2 DEF Tells, Answers
  <2>6. ASSUME NEW l \in listings, FromListing(i, l)
        PROVE  /\ Tells(wire'[i], a) => wire'[i].ver >= value'[a]
               /\ Answers(wire'[i], transaction') =>
                    a \in skipped' \/ Leaves(wire'[i], a, Carried(a)') >= value'[a]
    <3>1. PICK order \in Orders(l.list) : FetchReplies(l, order)
      BY <2>6 DEF FromListing
    <3>2. /\ l.request = transaction =>
               Leaves(Response(l), a, Carried(a)) >= value'[a] \/ a \in skipped
          /\ l.request = subscription => \A k \in 1 .. Len(pending) :
               pending[k].agent = a /\ Passes(pending[k], Response(l)) => pending[k].ver >= value'[a]
      BY <3>1, AnswerCovers
    <3>3. Response(l).type = "response" /\ Response(l).request = l.request
          /\ transaction' = transaction
      BY <3>1, AnswerTrue, ResponseFacts DEF FetchReplies, ui
    <3>4. CASE wire'[i] = Response(l)
      BY <2>1, <3>2, <3>3, <3>4 DEF Tells, Answers
    <3>5. ASSUME NEW k \in 1 .. Len(pending), wire'[i] = pending[k],
                 Passes(pending[k], Response(l)), l.request = subscription
          PROVE  /\ Tells(wire'[i], a) => wire'[i].ver >= value'[a]
                 /\ ~Answers(wire'[i], transaction')
      <4>1. pending[k].type = "update"
        BY Typed, ElementOf, MessageKinds
      <4> QED
        BY <3>2, <3>5, <4>1 DEF Tells, Answers
    <3> QED
      BY <2>6, <3>4, <3>5 DEF FromListing
  <2> QED
    BY <2>2, <2>3, <2>4, <2>5, <2>6
<1> QED
  BY <1>2, <1>3, <1>4

-----------------------------------------------------------------------------
(* Where the newest version is.                                             *)

(* The stages that a refresh is not in promise nothing.                     *)
LEMMA OtherStages ==
  ASSUME TypeOK', Served', NEW a
  PROVE  /\ transaction' = 0 => Listed(a)' /\ Answered(a)'
         /\ transaction' # 0 \/ ~satisfied' \/ subscription' = 0 => Settled(a)'
         /\ subscription' = 0 => Answered(a)'
         /\ subscription' \in bootstrapping' => Answered(a)' /\ Settled(a)'
         /\ subscription' \notin bootstrapping' => Listed(a)'
<1>0. /\ \A l \in listings' : l.request \in Requests
      /\ wire' \in Seq(Message)
  BY DEF TypeOK, Message
<1>1. 0 \notin Requests
  BY BoundsAssumption DEF Requests
<1>2. ASSUME NEW l \in listings', l.request = transaction'
      PROVE  transaction' # 0 /\ subscription' \in bootstrapping'
  <2>1. transaction' # 0 /\ transaction' = fetches'
    BY <1>0, <1>1, <1>2 DEF Served, Stages
  <2> QED
    BY <1>2, <2>1 DEF Served, Stages
<1>3. ASSUME NEW i \in 1 .. Len(wire'), Answers(wire'[i], transaction')
      PROVE  transaction' # 0 /\ subscription' # 0 /\ subscription' \notin bootstrapping'
  <2>1. wire'[i] \in Message /\ wire'[i] \in Decided' /\ wire'[i].type = "response"
        /\ wire'[i].request = transaction'
    BY <1>0, <1>3, ElementOf DEF Served, Answers
  <2>2. transaction' \in Requests
    BY <2>1, MessageKinds, MessageFields
  <2>3. transaction' # 0 /\ transaction' = fetches'
    BY <1>1, <2>2 DEF Served, Stages
  <2> QED
    BY <2>1, <2>3 DEF Decided
<1>4. transaction' = 0 => Listed(a)'
  BY <1>2 DEF Listed
<1>5. transaction' = 0 \/ subscription' = 0 \/ subscription' \in bootstrapping' => Answered(a)'
  BY <1>3 DEF Answered
<1>6. transaction' # 0 \/ ~satisfied' \/ subscription' = 0 \/ subscription' \in bootstrapping' => Settled(a)'
  BY DEF Settled, Served, Stages
<1>7. subscription' \notin bootstrapping' => Listed(a)'
  BY <1>2 DEF Listed
<1> QED
  BY <1>4, <1>5, <1>6, <1>7

(* Messages of others change nothing for an agent.                          *)
LEMMA OthersSend ==
  ASSUME Extends, NEW a, version'[a] = version[a],
         \A i \in 1 .. Len(wire') : i \in 1 .. Len(wire) \/ ~Tells(wire'[i], a),
         NEW n \in 0 .. Len(wire)
  PROVE  /\ LastTells(a, n) => LastTells(a, n)'
         /\ NoneTells(a, n)' => NoneTells(a, n)
<1>0. \A i \in 1 .. Len(wire) : i \in 1 .. Len(wire') /\ wire'[i] = wire[i]
  BY DEF Extends
<1>1. NoneTells(a, n)' => NoneTells(a, n)
  BY <1>0 DEF NoneTells, Tells
<1>2. ASSUME LastTells(a, n), NEW j \in 1 .. Len(wire'), j > n, Tells(wire'[j], a),
             \A k \in 1 .. Len(wire') : k > j => ~Tells(wire'[k], a)
      PROVE  wire'[j].ver = version'[a]
  <2>1. j \in 1 .. Len(wire) /\ wire'[j] = wire[j]
    BY <1>0, <1>2
  <2>2. \A k \in 1 .. Len(wire) : k > j => ~Tells(wire[k], a)
    BY <1>0, <1>2
  <2> QED
    BY <1>2, <2>1, <2>2 DEF LastTells
<1>3. LastTells(a, n) => LastTells(a, n)'
  BY <1>2 DEF LastTells, Tells
<1> QED
  BY <1>1, <1>3

(* An update that tells the version, sent last, is the last.                *)
LEMMA VersionSent ==
  ASSUME Extends, NEW a, NEW i \in 1 .. Len(wire'), i = Len(wire'), Tells(wire'[i], a),
         wire'[i].ver = version'[a], NEW n \in 0 .. Len(wire'), n < i
  PROVE  LastTells(a, n)' /\ ~NoneTells(a, n)'
<1>0. Len(wire') \in Nat
  BY DEF Extends
<1>1. ~NoneTells(a, n)'
  BY <1>0 DEF NoneTells, Tells
<1>2. ASSUME NEW j \in 1 .. Len(wire'), \A k \in 1 .. Len(wire') : k > j => ~Tells(wire'[k], a)
      PROVE  j = i
  BY <1>0, <1>2
<1>3. LastTells(a, n)'
  BY <1>2 DEF LastTells, Tells
<1> QED
  BY <1>1, <1>3

(* Receiving shifts the updates of an agent.                                *)
LEMMA TellsShift ==
  ASSUME TypeOK, NEW m, Takes(m), NEW a, version'[a] = version[a], NEW n \in Nat
  PROVE  /\ LastTells(a, n + 1) => LastTells(a, n)'
         /\ NoneTells(a, n)' => NoneTells(a, n + 1)
         /\ LastTells(a, 0) => LastTells(a, 0)'
         /\ NoneTells(a, 0)' => NoneTells(a, 0) \/ (Tells(m, a) /\ (LastTells(a, 0) => m.ver = version[a]))
<1>0. /\ m = wire[1] /\ 1 \in 1 .. Len(wire) /\ Len(wire) \in Nat /\ Len(wire') = Len(wire) - 1
      /\ \A i \in 1 .. Len(wire') : i + 1 \in 1 .. Len(wire) /\ wire'[i] = wire[i + 1]
  BY WireShifts
<1>1. ASSUME NEW k \in 1 .. Len(wire), k > 1
      PROVE  k - 1 \in 1 .. Len(wire') /\ wire[k] = wire'[k - 1]
  <2>1. k - 1 \in 1 .. Len(wire') /\ (k - 1) + 1 = k
    BY <1>0, <1>1
  <2> QED
    BY <1>0, <2>1
<1>2. ASSUME NEW c \in Nat, LastTells(a, c + 1) \/ (c = 0 /\ LastTells(a, 0)),
             NEW j \in 1 .. Len(wire'), j > c, Tells(wire'[j], a),
             \A k \in 1 .. Len(wire') : k > j => ~Tells(wire'[k], a)
      PROVE  wire'[j].ver = version'[a]
  <2>1. /\ j + 1 \in 1 .. Len(wire) /\ wire'[j] = wire[j + 1] /\ j + 1 > c + 1 /\ j + 1 > c
        /\ j \in Nat /\ j + 1 > 1
    BY <1>0, <1>2
  <2>2. ASSUME NEW k \in 1 .. Len(wire), k > j + 1 PROVE ~Tells(wire[k], a)
    <3>1. k > 1 /\ k - 1 > j
      BY <1>0, <2>1, <2>2
    <3>2. k - 1 \in 1 .. Len(wire') /\ wire[k] = wire'[k - 1]
      BY <1>1, <3>1
    <3> QED
      BY <1>2, <3>1, <3>2
  <2> QED
    BY <1>2, <2>1, <2>2 DEF LastTells
<1>3. LastTells(a, n + 1) => LastTells(a, n)'
  BY <1>2 DEF LastTells, Tells
<1>4. LastTells(a, 0) => LastTells(a, 0)'
  BY <1>2 DEF LastTells, Tells
<1>5. ASSUME NEW c \in Nat, NoneTells(a, c)', NEW j \in 1 .. Len(wire), j > c + 1
      PROVE  ~Tells(wire[j], a)
  <2>1. j > 1 /\ j - 1 > c
    BY <1>0, <1>5
  <2>2. j - 1 \in 1 .. Len(wire') /\ wire[j] = wire'[j - 1]
    BY <1>1, <2>1
  <2> QED
    BY <1>5, <2>1, <2>2 DEF NoneTells, Tells
<1>6. NoneTells(a, n)' => NoneTells(a, n + 1)
  BY <1>5 DEF NoneTells
<1>7. ASSUME NoneTells(a, 0)'
      PROVE  NoneTells(a, 0) \/ (Tells(m, a) /\ (LastTells(a, 0) => m.ver = version[a]))
  <2>1. \A j \in 1 .. Len(wire) : j > 1 => ~Tells(wire[j], a)
    BY <1>5, <1>7
  <2>2. \A j \in 1 .. Len(wire) : j > 1 \/ j = 1
    BY <1>0
  <2>3. CASE Tells(m, a)
    <3>1. 1 > 0
      OBVIOUS
    <3> QED
      BY <1>0, <2>1, <2>3, <3>1 DEF LastTells
  <2>4. CASE ~Tells(m, a)
    BY <1>0, <2>1, <2>2, <2>4 DEF NoneTells
  <2> QED
    BY <2>3, <2>4
<1> QED
  BY <1>3, <1>4, <1>6, <1>7

(* A step that neither says nor buffers anything about an agent.            *)
LEMMA OthersMove ==
  ASSUME Extends, NEW a, Placed(a), version'[a] = version[a], view'[a] = view[a],
         UNCHANGED <<transaction, satisfied, subscription, skipped, unplaced>>,
         listings' \subseteq listings,
         \A i \in 1 .. Len(wire') :
           i \in 1 .. Len(wire) \/ (~Tells(wire'[i], a) /\ ~Answers(wire'[i], transaction)),
         \A i \in 1 .. Len(pending') : pending'[i].agent = a =>
           \E j \in 1 .. Len(pending) : pending'[i] = pending[j],
         \A j \in 1 .. Len(pending) : pending[j].agent = a =>
           \E i \in 1 .. Len(pending') : pending'[i] = pending[j]
  PROVE  Placed(a)'
<1>0. /\ \A i \in 1 .. Len(wire) : i \in 1 .. Len(wire') /\ wire'[i] = wire[i]
      /\ Len(wire) \in Nat
  BY DEF Extends
<1>1. \A n \in 0 .. Len(wire) : (LastTells(a, n) => LastTells(a, n)') /\ (NoneTells(a, n)' => NoneTells(a, n))
  BY OthersSend
<1>2. Listed(a)'
  <2> SUFFICES ASSUME NEW l \in listings', l.request = transaction'
               PROVE  /\ \A i \in 1 .. Len(pending') : pending'[i].agent = a => pending'[i].ver = version'[a]
                      /\ (\A i \in 1 .. Len(pending') : pending'[i].agent # a) => l.list[a] = version'[a]
    BY DEF Listed
  <2>1. /\ \A i \in 1 .. Len(pending) : pending[i].agent = a => pending[i].ver = version[a]
        /\ (\A i \in 1 .. Len(pending) : pending[i].agent # a) => l.list[a] = version[a]
    BY DEF Placed, Listed
  <2>2. ASSUME NEW i \in 1 .. Len(pending'), pending'[i].agent = a PROVE pending'[i].ver = version'[a]
    BY <2>1, <2>2
  <2>3. ASSUME \A i \in 1 .. Len(pending') : pending'[i].agent # a
        PROVE  \A i \in 1 .. Len(pending) : pending[i].agent # a
    BY <2>3
  <2> QED
    BY <2>1, <2>2, <2>3
<1>3. Answered(a)'
  <2> SUFFICES ASSUME NEW i \in 1 .. Len(wire'), Answers(wire'[i], transaction')
               PROVE  /\ LastTells(a, i)'
                      /\ NoneTells(a, i)' =>
                           Leaves(wire'[i], a, Carried(a)') = version'[a] \/ a \in skipped'
    BY DEF Answered, LastTells, NoneTells, Tells
  <2>1. i \in 1 .. Len(wire) /\ wire'[i] = wire[i] /\ i \in 0 .. Len(wire)
    BY <1>0
  <2>2. /\ LastTells(a, i)
        /\ NoneTells(a, i) => Leaves(wire[i], a, Carried(a)) = version[a] \/ a \in skipped
    BY <2>1 DEF Placed, Answered
  <2>3. Carried(a)' = Carried(a)
    BY DEF Carried
  <2> QED
    BY <1>1, <2>1, <2>2, <2>3
<1>4. Settled(a)'
  <2>1. 0 \in 0 .. Len(wire)
    BY <1>0
  <2>2. satisfied /\ transaction = 0 /\ subscription # 0 =>
          /\ LastTells(a, 0)
          /\ NoneTells(a, 0) => view[a] = version[a] \/ a \in skipped
    BY DEF Placed, Settled
  <2>3. (LastTells(a, 0) => LastTells(a, 0)') /\ (NoneTells(a, 0)' => NoneTells(a, 0))
    BY <1>1, <2>1
  <2>4. satisfied' /\ transaction' = 0 /\ subscription' # 0 =>
          /\ LastTells(a, 0)'
          /\ NoneTells(a, 0)' => view'[a] = version'[a] \/ a \in skipped'
    BY <2>2, <2>3
  <2> QED
    BY <2>4 DEF Settled, LastTells, NoneTells, Tells
<1> QED
  BY <1>2, <1>3, <1>4 DEF Placed

(* The job of an agent brings its version into the buffer or onto the wire. *)
LEMMA JobCovered ==
  ASSUME TypeOK, Queues, Known, Told, Served, Covered, [Next]_vars, NEW a \in Living',
         FinishUpdate(a) \/ RunRemoval(a), ~Coming(a)'
  PROVE  Placed(a)'
<1> DEFINE sub == IF captured[a] = Idle THEN subscription ELSE captured[a]
           v == Head(tail[a])
           u == Published(a, v)
<1>0. a \in Living /\ a \in Agents /\ TypeOK' /\ Served'
  BY Forward, NextTyped, ServedKept
<1>1. /\ tail[a] # <<>> /\ tail[a] \in Seq(Versions) /\ v = tail[a][1] /\ v \in Versions
      /\ sub \in {0} \cup Requests /\ Publish(sub, a, v) /\ captured'[a] = Idle
      /\ tail' = [tail EXCEPT ![a] = Tail(@)]
      /\ UNCHANGED <<version, subscription, bootstrapping, listings, connected, view, transaction,
                     satisfied, skipped, unplaced>>
  BY <1>0, JobFacts
<1>2. Len(tail[a]) = 1
  <2>1. tail'[a] = Tail(tail[a])
    BY <1>0, <1>1, Typed
  <2>2. tail'[a] = <<>>
    BY <1>1 DEF Coming
  <2>3. Len(tail[a]) \in Nat /\ Len(tail[a]) # 0 /\ Len(Tail(tail[a])) = Len(tail[a]) - 1
    BY <1>1
  <2>a. Tail(tail[a]) = <<>> /\ Len(<<>>) = 0
    BY <2>1, <2>2
  <2>4. Len(Tail(tail[a])) = 0
    BY <2>a, Zenon
  <2> QED
    BY <2>3, <2>4
<1>3. v = version[a] /\ captured[a] # Idle
  <2>1. v = version[a] /\ 1 \in 1 .. Len(tail[a])
    BY <1>0, <1>1, <1>2 DEF Queues
  <2>2. tail[a][1] \in 1 .. version[a]
    BY <1>0, <2>1 DEF Queues
  <2>3. v # 0
    BY <1>1, <2>2
  <2> QED
    BY <2>1, <2>3 DEF FinishUpdate, RunRemoval
<1>4. wire \in Seq(Message) /\ pending \in Seq(Update) /\ 0 \notin bootstrapping
  BY Typed, RequestNumbers
<1>5. /\ u.agent = a /\ u.ver = version'[a] /\ u.type = "update"
  BY <1>1, <1>3 DEF Published
<1>6. /\ sub # 0 => u \in Update
      /\ \/ sub = 0 /\ pending' = pending /\ wire' = wire
         \/ /\ sub # 0 /\ sub \in bootstrapping /\ sub = subscription
            /\ pending' = Buffer(pending, u) /\ wire' = wire
         \/ /\ sub # 0 /\ sub \in bootstrapping /\ sub # subscription
            /\ pending' = pending /\ wire' = wire
         \/ /\ sub # 0 /\ sub \notin bootstrapping
            /\ pending' = pending /\ Emit(<<u>>)
  BY <1>0, <1>1, PublishCases
<1>7. sub # subscription => Placed(a)
  <2>1. sub # subscription => captured[a] \notin {Idle, subscription}
    BY <1>3
  <2> QED
    BY <1>0, <1>2, <2>1 DEF Covered, Coming
<1>8. transaction # 0 \/ satisfied => connected
  BY DEF Served, Stages
<1> HIDE DEF sub, u, v
<1>9. CASE sub # subscription /\ pending' = pending /\ wire' = wire
  <2>1. Extends
    BY <1>4, <1>9 DEF Extends
  <2> QED
    BY <1>0, <1>1, <1>7, <1>9, <2>1, OthersMove
<1>10. CASE sub = 0 /\ sub = subscription
  BY <1>0, <1>1, <1>4, <1>10, OtherStages DEF Placed
<1>11. CASE sub # 0 /\ sub \in bootstrapping /\ sub = subscription /\ pending' = Buffer(pending, u)
  <2>1. Replaces(pending', pending, u)
    BY <1>4, <1>6, <1>11, BufferFacts
  <2>2. \A i \in 1 .. Len(pending') : pending'[i].agent = a => pending'[i] = u
    BY <1>5, <2>1 DEF Replaces
  <2>3. \E i \in 1 .. Len(pending') : pending'[i].agent = a
    BY <1>5, <2>1 DEF Replaces
  <2>4. Listed(a)'
    BY <1>5, <2>2, <2>3 DEF Listed
  <2> QED
    BY <1>0, <1>1, <1>11, <2>4, OtherStages DEF Placed
<1>12. CASE sub # 0 /\ sub \notin bootstrapping /\ pending' = pending /\ Emit(<<u>>)
  <2>0. u \in Message
    BY <1>6, <1>12, MessageKinds
  <2>1. Extends
    BY <1>4, <1>12, <2>0, EmitOne
  <2>2. Listed(a)'
    <3>1. CASE sub = subscription
      BY <1>0, <1>1, <1>12, <3>1, OtherStages
    <3>2. CASE sub # subscription
      <4>1. Listed(a)
        BY <1>7, <3>2 DEF Placed
      <4> QED
        BY <1>1, <1>12, <4>1 DEF Listed
    <3> QED
      BY <3>1, <3>2
  <2>3. CASE ~connected
    BY <1>0, <1>1, <1>8, <2>2, <2>3, OtherStages DEF Placed
  <2>4. CASE connected
    <3>1. Len(wire') = Len(wire) + 1 /\ wire'[Len(wire')] = u /\ Len(wire) \in Nat
      BY <1>4, <1>12, <2>0, <2>4 DEF Emit
    <3> DEFINE i == Len(wire')
    <3>2. i \in 1 .. Len(wire') /\ i = Len(wire') /\ Tells(wire'[i], a) /\ wire'[i].ver = version'[a]
      BY <1>5, <3>1 DEF Tells
    <3>3. 0 \in 0 .. Len(wire') /\ 0 < i
      BY <3>1
    <3>4. \A n \in 1 .. Len(wire') : n \in 0 .. Len(wire') /\ (n < i \/ n = i)
      BY <3>1
    <3> HIDE DEF i
    <3>5. Settled(a)'
      <4>1. LastTells(a, 0)' /\ ~NoneTells(a, 0)'
        BY <2>1, <3>2, <3>3, VersionSent
      <4> QED
        BY <4>1 DEF Settled, LastTells, NoneTells, Tells
    <3>6. Answered(a)'
      <4>1. ASSUME NEW n \in 1 .. Len(wire'), Answers(wire'[n], transaction')
            PROVE  LastTells(a, n)' /\ ~NoneTells(a, n)'
        <5>1. n # i
          BY <3>2, <4>1 DEF Answers, Tells
        <5> QED
          BY <2>1, <3>2, <3>4, <5>1, VersionSent
      <4> QED
        BY <4>1 DEF Answered, LastTells, NoneTells, Tells
    <3> QED
      BY <2>2, <3>5, <3>6 DEF Placed
  <2> QED
    BY <2>3, <2>4
<1> QED
  BY <1>6, <1>9, <1>10, <1>11, <1>12

(* The answer, with what is flushed behind it, brings the listed version.   *)
LEMMA AnswerCovered ==
  ASSUME TypeOK, Queues, Known, Told, Served, Passed, Apart, Buffered, [Next]_vars, NEW a \in Living',
         NEW l \in listings, NEW order \in Orders(l.list), FetchReplies(l, order), Placed(a)
  PROVE  Placed(a)'
<1>0. a \in Living /\ a \in Agents /\ TypeOK' /\ Served'
  BY Forward, NextTyped, ServedKept
<1>1. /\ UNCHANGED <<version, deletedBy, subscription, view, transaction, satisfied, skipped, unplaced,
                   connected>>
      /\ listings' = listings \ {l}
      /\ bootstrapping' = IF l.request = subscription THEN bootstrapping \ {l.request} ELSE bootstrapping
      /\ pending' = IF l.request = subscription THEN <<>> ELSE pending
  BY DEF FetchReplies, ui
<1>2. /\ Extends
      /\ \A i \in 1 .. Len(wire') : i \in 1 .. Len(wire) \/ FromListing(i, l)
      /\ connected /\ l.request = subscription =>
           \A k \in 1 .. Len(pending) : Passes(pending[k], Response(l)) =>
             \E j \in 1 .. Len(wire') : j > Len(wire) + 1 /\ wire'[j] = pending[k]
  BY AnswerSent
<1>3. value' = l.list /\ seq' \in [Agents -> 0 .. MaxHead] /\ head' \in 0 .. MaxHead
      /\ Response(l) \in TrueMessage'
  BY AnswerTrue
<1>4. /\ Response(l).type = "response" /\ Response(l).request = l.request
      /\ Leaves(Response(l), a, Carried(a)) \in {l.list[a], Carried(a)}
  <2> DEFINE c == Carried(a)
  <2> HIDE DEF c
  <2>1. /\ Response(l).type = "response" /\ Response(l).request = l.request
        /\ Leaves(Response(l), a, c) \in {l.list[a], c}
    BY <1>0, <1>3, ResponseFacts
  <2> QED
    BY <2>1 DEF c
<1>a. Carried(a)' = Carried(a)
  BY <1>1 DEF Carried
<1>5. l.request \in bootstrapping /\ (transaction # 0 => transaction = fetches) /\ l.request # 0
      /\ (l.request = fetches => subscription = fetches)
  BY RequestNumbers DEF Served, Stages
<1>6. \A k \in 1 .. Len(pending) : pending[k] \in Update /\ pending[k].type = "update"
  BY Typed, ElementOf, MessageKinds
<1>7. CASE l.request # subscription
  <2>1. l.request # transaction
    BY <1>5, <1>7
  <2>2. ASSUME NEW i \in 1 .. Len(wire'), i \notin 1 .. Len(wire)
        PROVE  ~Tells(wire'[i], a) /\ ~Answers(wire'[i], transaction)
    <3>1. wire'[i] = Response(l)
      BY <1>2, <1>7, <2>2 DEF FromListing
    <3> QED
      BY <1>4, <2>1, <3>1 DEF Tells, Answers
  <2> QED
    BY <1>0, <1>1, <1>2, <1>7, <2>2, OthersMove
<1>8. CASE l.request = subscription
  <2>1. Listed(a)'
    BY <1>0, <1>1, <1>8, OtherStages
  <2>2. Settled(a)'
    <3>1. ~(satisfied /\ transaction = 0)
      BY <1>5, <1>8 DEF Served, Stages
    <3> QED
      BY <1>0, <1>1, <3>1, OtherStages
  <2>3. Answered(a)'
    <3> SUFFICES ASSUME NEW i \in 1 .. Len(wire'), Answers(wire'[i], transaction')
                 PROVE  /\ LastTells(a, i)'
                        /\ NoneTells(a, i)' =>
                             Leaves(wire'[i], a, Carried(a)') = version'[a] \/ a \in skipped'
      BY DEF Answered, LastTells, NoneTells, Tells
    <3>0. wire'[i].type = "response" /\ wire'[i].request = transaction
      BY <1>1 DEF Answers
    <3>1. i \notin 1 .. Len(wire)
      <4> SUFFICES ASSUME i \in 1 .. Len(wire) PROVE FALSE
        OBVIOUS
      <4>1. wire'[i] = wire[i] /\ wire[i] \in Decided /\ wire[i] \in Message
        BY <1>2, ElementOf DEF Extends, Served, Decided
      <4>2. wire[i].request # 0
        BY <3>0, <4>1, RequestNumbers
      <4>3. transaction = fetches /\ transaction # 0
        BY <1>5, <3>0, <4>1, <4>2
      <4>4. subscription = fetches /\ fetches \notin bootstrapping
        BY <3>0, <4>1, <4>3 DEF Decided
      <4> QED
        BY <1>5, <1>8, <4>4
    <3>2. i = Len(wire) + 1 /\ wire'[i] = Response(l)
      <4>1. FromListing(i, l)
        BY <1>2, <3>1
      <4> QED
        BY <1>6, <3>0, <4>1 DEF FromListing
    <3>3. l.request = transaction
      BY <1>4, <3>0, <3>2
    <3>4. /\ \A k \in 1 .. Len(pending) : pending[k].agent = a => pending[k].ver = version[a]
          /\ (\A k \in 1 .. Len(pending) : pending[k].agent # a) => l.list[a] = version[a]
      BY <3>3 DEF Placed, Listed
    <3>5. Len(wire) \in Nat /\ Len(wire') \in Nat
      BY <1>2 DEF Extends
    <3>6. ASSUME NEW j \in 1 .. Len(wire'), j > i, Tells(wire'[j], a) PROVE wire'[j].ver = version'[a]
      <4>1. j \notin 1 .. Len(wire) /\ j # Len(wire) + 1
        BY <3>2, <3>5, <3>6
      <4>2. FromListing(j, l)
        BY <1>2, <4>1
      <4>3. PICK k \in 1 .. Len(pending) : wire'[j] = pending[k]
        BY <4>1, <4>2 DEF FromListing
      <4> QED
        BY <1>1, <3>4, <3>6, <4>3 DEF Tells
    <3>7. LastTells(a, i)'
      BY <3>6 DEF LastTells, Tells
    <3>8. ASSUME NoneTells(a, i)', a \notin skipped PROVE Leaves(wire'[i], a, Carried(a)') = version'[a]
      <4>1. /\ view[a] <= version[a] /\ l.list[a] <= version[a]
            /\ view[a] \in Nat /\ l.list[a] \in Nat /\ version[a] \in Nat
        BY <1>0, Reaches, ReplicaKept, Typed DEF Known, Content, Versions
      <4>a. Carried(a) \in Nat /\ Carried(a) <= version[a]
        <5>1. Carried(a) \in Nat /\ Carried(a) <= view[a]
          BY <1>0, Typed, CarriedFacts
        <5> QED
          BY <4>1, <5>1
      <4>2. \A k \in 1 .. Len(pending) : pending[k].agent # a
        <5> SUFFICES ASSUME NEW k \in 1 .. Len(pending), pending[k].agent = a PROVE FALSE
          OBVIOUS
        <5>1. connected
          <6>1. transaction # 0
            BY <1>5, <3>3
          <6> QED
            BY <6>1 DEF Served, Stages
        <5>2. Response(l).values[a] <= version[a]
          <6>1. \A b \in Living' : Response(l).values[b] <= version'[b]
            BY <1>3, <1>4 DEF TrueMessage
          <6> QED
            BY <1>1, <6>1
        <5>3. Response(l).values[a] \in {l.list[a], 0}
          BY <1>0, <1>3, ResponseFacts
        <5>4. version[a] >= Response(l).values[a]
          BY <4>1, <5>2, <5>3
        <5>5. pending[k].ver >= Response(l).values[pending[k].agent]
          BY <3>4, <5>4
        <5>6. Passes(pending[k], Response(l))
          BY <5>5 DEF Passes
        <5>7. PICK j \in 1 .. Len(wire') : j > Len(wire) + 1 /\ wire'[j] = pending[k]
          BY <1>2, <1>8, <5>1, <5>6
        <5>8. Tells(wire'[j], a)
          BY <1>6, <5>7 DEF Tells
        <5> QED
          BY <3>2, <3>8, <5>7, <5>8 DEF NoneTells, Tells
      <4>3. l.list[a] = version[a]
        BY <3>4, <4>2
      <4>4. Leaves(Response(l), a, Carried(a)) >= l.list[a]
        BY <1>3, <3>3, <3>8, AnswerCovers
      <4>5. Leaves(Response(l), a, Carried(a)) = version[a]
        BY <1>4, <4>1, <4>a, <4>3, <4>4
      <4> QED
        BY <1>1, <1>a, <3>2, <4>5
    <3> QED
      BY <1>1, <3>7, <3>8
  <2> QED
    BY <2>1, <2>2, <2>3 DEF Placed
<1> QED
  BY <1>7, <1>8

(* A message that is received moves the newest version on.                  *)
LEMMA ReceiveCovered ==
  ASSUME TypeOK, Queues, Known, Told, Served, Frozen, [Next]_vars, NEW a \in Living', Placed(a), NEW m,
         Recorded(m) \/ Applied(m) \/ Removed(m) \/ Brought(m) \/ Completed(m) \/ Failed(m) \/ Ignored(m)
  PROVE  Placed(a)'
<1>0. a \in Living /\ a \in Agents /\ TypeOK' /\ Served'
  BY Forward, NextTyped, ServedKept
<1>1. Takes(m) /\ Idles
  BY DEF Recorded, Applied, Removed, Brought, Completed, Failed, Ignored
<1>2. /\ UNCHANGED <<version, deletedBy, subscription, bootstrapping, listings, pending>>
  BY <1>1 DEF Idles, daemon, session
<1>3. /\ m = wire[1] /\ 1 \in 1 .. Len(wire) /\ m \in Message
      /\ \A i \in 1 .. Len(wire') : i + 1 \in 1 .. Len(wire) /\ wire'[i] = wire[i + 1]
  BY <1>1, WireShifts
<1>4. /\ \A n \in Nat : /\ LastTells(a, n + 1) => LastTells(a, n)'
                        /\ NoneTells(a, n)' => NoneTells(a, n + 1)
      /\ LastTells(a, 0) => LastTells(a, 0)'
      /\ NoneTells(a, 0)' => NoneTells(a, 0) \/ (Tells(m, a) /\ (LastTells(a, 0) => m.ver = version[a]))
  <2>1. version'[a] = version[a]
    BY <1>2
  <2>2. 0 \in Nat
    OBVIOUS
  <2> QED
    BY <1>1, <2>1, <2>2, TellsShift
<1>5. /\ view'[a] \in Nat /\ view[a] \in Nat /\ version[a] \in Nat
      /\ view[a] <= version[a] /\ view'[a] <= version[a]
  <2>1. view[a] <= version[a]
    BY <1>0 DEF Known
  <2> QED
    BY <1>0, <2>1, ReplicaKept, Reaches
<1>6. ASSUME transaction # 0, Recorded(m) \/ Removed(m) \/ Brought(m) \/ Ignored(m)
      PROVE  Placed(a)'
  <2>0. /\ transaction' = transaction /\ skipped' = skipped
        /\ Carried(a) \in Nat /\ Carried(a)' \in Nat
        /\ Carried(a) <= Carried(a)' /\ Carried(a)' <= version[a]
    BY <1>0, <1>5, <1>6, OpenMoves
  <2>1. Listed(a)'
    BY <1>2, <2>0 DEF Placed, Listed
  <2>2. Settled(a)'
    BY <1>0, <1>6, <2>0, OtherStages
  <2>3. Answered(a)'
    <3> SUFFICES ASSUME NEW i \in 1 .. Len(wire'), Answers(wire'[i], transaction')
                 PROVE  /\ LastTells(a, i)'
                        /\ NoneTells(a, i)' =>
                             Leaves(wire'[i], a, Carried(a)') = version'[a] \/ a \in skipped'
      BY DEF Answered, LastTells, NoneTells, Tells
    <3>1. i + 1 \in 1 .. Len(wire) /\ wire'[i] = wire[i + 1] /\ i \in Nat
      BY <1>3
    <3>2. /\ LastTells(a, i + 1)
          /\ NoneTells(a, i + 1) => Leaves(wire[i + 1], a, Carried(a)) = version[a] \/ a \in skipped
      BY <2>0, <3>1 DEF Placed, Answered
    <3>3. (LastTells(a, i + 1) => LastTells(a, i)') /\ (NoneTells(a, i)' => NoneTells(a, i + 1))
      BY <1>4, <3>1
    <3>4. Leaves(wire[i + 1], a, Carried(a)) = version[a] =>
            Leaves(wire[i + 1], a, Carried(a)') = version[a]
      <4> DEFINE c == Carried(a)
                 d == Carried(a)'
                 x == wire[i + 1]
      <4>1. c \in Nat /\ d \in Nat /\ c <= d /\ d <= version[a]
        BY <2>0
      <4> HIDE DEF c, d, x
      <4>2. Leaves(x, a, c) = version[a] => Leaves(x, a, d) = version[a]
        <5>1. \/ Leaves(x, a, c) = c /\ Leaves(x, a, d) = d
              \/ Leaves(x, a, c) = Leaves(x, a, d)
          BY DEF Leaves
        <5>2. c = version[a] => d = version[a]
          BY <1>5, <4>1
        <5> QED
          BY <5>1, <5>2
      <4> QED
        BY <4>2 DEF c, d, x
    <3> QED
      BY <1>2, <2>0, <3>1, <3>2, <3>3, <3>4
  <2> QED
    BY <2>1, <2>2, <2>3 DEF Placed
<1>7. ASSUME transaction' = 0,
             satisfied' /\ subscription' # 0 =>
               LastTells(a, 0)' /\ (NoneTells(a, 0)' => view'[a] = version'[a] \/ a \in skipped')
      PROVE  Placed(a)'
  <2>1. Listed(a)' /\ Answered(a)'
    BY <1>0, <1>7, OtherStages
  <2>2. Settled(a)'
    BY <1>7 DEF Settled, LastTells, NoneTells, Tells
  <2> QED
    BY <2>1, <2>2 DEF Placed
<1>8. ASSUME transaction = 0, transaction' = 0, satisfied' = satisfied, view[a] <= view'[a],
             a \in skipped /\ ~Tells(m, a) => a \in skipped',
             Tells(m, a) => view'[a] >= m.ver /\ m.ver \in Nat
      PROVE  Placed(a)'
  <2>1. ASSUME satisfied', subscription' # 0
        PROVE  LastTells(a, 0)' /\ (NoneTells(a, 0)' => view'[a] = version'[a] \/ a \in skipped')
    <3>1. LastTells(a, 0) /\ (NoneTells(a, 0) => view[a] = version[a] \/ a \in skipped)
      BY <1>2, <1>8, <2>1 DEF Placed, Settled
    <3>2. ASSUME NoneTells(a, 0)' PROVE view'[a] = version[a] \/ a \in skipped'
      <4>1. CASE Tells(m, a)
        <5>1. NoneTells(a, 0) => ~Tells(wire[1], a)
          <6>1. 1 > 0
            OBVIOUS
          <6> QED
            BY <1>3, <6>1 DEF NoneTells
        <5>2. m.ver = version[a]
          BY <1>3, <1>4, <3>1, <3>2, <4>1, <5>1
        <5> QED
          BY <1>5, <1>8, <4>1, <5>2
      <4>2. CASE ~Tells(m, a)
        <5>1. view[a] = version[a] \/ a \in skipped
          BY <1>4, <3>1, <3>2, <4>2
        <5> QED
          BY <1>5, <1>8, <4>2, <5>1
      <4> QED
        BY <4>1, <4>2
    <3> QED
      BY <1>2, <1>4, <3>1, <3>2
  <2> QED
    BY <1>7, <1>8, <2>1
<1>9. CASE Recorded(m)
  <2>1. transaction # 0
    BY <1>9 DEF Recorded
  <2> QED
    BY <1>6, <1>9, <2>1
<1>10. CASE Applied(m)
  <2>1. transaction = 0 /\ transaction' = 0 /\ satisfied' = satisfied
    BY <1>10 DEF Applied
  <2>2. a \in skipped /\ ~Tells(m, a) => a \in skipped'
    BY <1>10 DEF Applied, Tells
  <2>3. Tells(m, a) => view'[a] >= m.ver /\ m.ver \in Nat
    <3>1. m \in TrueUpdate /\ (m.agent = a => view'[a] >= m.ver)
      BY <1>0, <1>5, <1>10, ReplicaMoves
    <3>2. m.ver \in Nat
      BY <3>1, MessageFields, BoundsAssumption DEF TrueUpdate, Versions
    <3> QED
      BY <3>1, <3>2 DEF Tells
  <2>4. view[a] <= view'[a]
    BY <1>0, <1>5, <1>10, ReplicaMoves
  <2> QED
    BY <1>8, <2>1, <2>2, <2>3, <2>4
<1>11. CASE Removed(m) \/ Brought(m) \/ Ignored(m)
  <2>1. /\ transaction' = transaction /\ satisfied' = satisfied /\ skipped' = skipped
        /\ view[a] <= view'[a]
    BY <1>0, <1>5, <1>11, OpenMoves
  <2>2. ~Tells(m, a)
    BY <1>11 DEF Removed, Brought, Ignored, Tells
  <2>3. CASE transaction = 0
    BY <1>8, <2>1, <2>2, <2>3
  <2>4. CASE transaction # 0
    BY <1>6, <1>11, <2>4
  <2> QED
    BY <2>3, <2>4
<1>12. CASE Completed(m)
  <2>1. transaction' = 0 /\ skipped' = skipped /\ Answers(m, transaction)
    BY <1>12 DEF Completed, ReceiveResponse, Answers
  <2>2. /\ LastTells(a, 1)
        /\ NoneTells(a, 1) => Leaves(m, a, Carried(a)) = version[a] \/ a \in skipped
    BY <1>3, <2>1 DEF Placed, Answered
  <2>3. Leaves(m, a, Carried(a)) <= view'[a] /\ Leaves(m, a, Carried(a)) \in Nat
    BY <1>0, <1>5, <1>12, ReplicaMoves
  <2>4. 0 \in Nat /\ 0 + 1 = 1
    OBVIOUS
  <2>5. (LastTells(a, 1) => LastTells(a, 0)') /\ (NoneTells(a, 0)' => NoneTells(a, 1))
    BY <1>4, <2>4
  <2>6. NoneTells(a, 0)' => view'[a] = version[a] \/ a \in skipped'
    BY <1>5, <2>1, <2>2, <2>3, <2>5
  <2> QED
    BY <1>2, <1>7, <2>1, <2>2, <2>5, <2>6
<1>13. CASE Failed(m)
  <2>1. transaction' = 0 /\ m.type = "error" /\ m.request = transaction
    BY <1>13 DEF Failed, ReceiveError
  <2>2. m.request # 0
    BY <1>3, <2>1, RequestNumbers
  <2>3. m.request = fetches
    BY <2>1, <2>2 DEF Served, Stages
  <2>4. m \in Decided
    BY <1>3, ElementOf DEF Served
  <2>5. subscription = 0
    BY <2>1, <2>3, <2>4 DEF Decided
  <2> QED
    BY <1>2, <1>7, <2>1, <2>5
<1> QED
  BY <1>9, <1>10, <1>11, <1>12, <1>13

(* A queue of one job was empty before that job was queued.                 *)
LEMMA OneAppended ==
  ASSUME NEW S, NEW q \in Seq(S), NEW x \in S
  PROVE  /\ Append(q, x) # <<>>
         /\ Len(Append(q, x)) = 1 => q = <<>>
<1>1. Append(q, x) # <<>> /\ Len(Append(q, x)) = Len(q) + 1 /\ Len(q) \in Nat
  BY QueueFacts
<1>2. Len(Append(q, x)) = 1 => Len(q) = 0
  BY <1>1
<1> QED
  BY <1>1, <1>2

(* Every step keeps the newest version somewhere.                           *)
LEMMA CoveredKept ==
  ASSUME TypeOK, Queues, Known, Told, Served, Frozen, Passed, Apart, Buffered,
         Covered, [Next]_vars
  PROVE  Covered'
<1> SUFFICES ASSUME NEW a \in Living', ~Coming(a)'
             PROVE  Placed(a)'
  BY DEF Covered
<1>0. a \in Living /\ a \in Agents /\ TypeOK' /\ Served'
  BY Forward, NextTyped, ServedKept
<1>1. /\ wire \in Seq(Message) /\ tail \in [Agents -> Seq(Versions)] /\ pending \in Seq(Update)
      /\ captured \in [Agents -> {Idle, 0} \cup Requests] /\ version \in Content
      /\ deletedBy \in [Agents -> {"nobody", "me", "other"}]
      /\ tail[a] \in Seq(Versions)
  BY <1>0, Typed
<1>2. ASSUME tail'[a] = tail[a], captured'[a] = captured[a], subscription' = subscription
      PROVE  Placed(a)
  BY <1>0, <1>2 DEF Covered, Coming
<1>3. ASSUME tail'[a] = tail[a], captured'[a] = captured[a], Extends,
             version'[a] = version[a], UNCHANGED <<view, skipped, unplaced, transaction, satisfied, subscription>>,
             listings' \subseteq listings, pending' = pending,
             \A i \in 1 .. Len(wire') :
               i \in 1 .. Len(wire) \/ (~Tells(wire'[i], a) /\ ~Answers(wire'[i], transaction))
      PROVE  Placed(a)'
  <2>1. Placed(a)
    BY <1>2, <1>3
  <2> QED
    BY <1>3, <2>1, OthersMove
<1>4. ASSUME tail'[a] = tail[a], captured'[a] = captured[a], version'[a] = version[a],
             UNCHANGED <<view, skipped, unplaced, transaction, satisfied, subscription, listings, pending, wire>>
      PROVE  Placed(a)'
  <2>1. Extends
    BY <1>1, <1>4 DEF Extends
  <2> QED
    BY <1>3, <1>4, <2>1
<1>5. ASSUME NEW b \in Agents, AgentChanges(b) PROVE Placed(a)'
  <2>1. /\ version' = [version EXCEPT ![b] = @ + 1]
        /\ tail' = [tail EXCEPT ![b] = Append(@, version[b] + 1)]
        /\ UNCHANGED <<view, skipped, unplaced, transaction, satisfied, subscription, listings, pending, wire, captured>>
    BY <1>5 DEF AgentChanges, ui
  <2>2. CASE b = a
    <3>1. tail'[a] = Append(tail[a], version[a] + 1)
      BY <1>1, <2>1, <2>2
    <3>2. version[a] + 1 \in Versions
      BY <1>5, <1>1, <2>2, Typed DEF AgentChanges, Content, Versions
    <3>3. tail'[a] # <<>>
      BY <1>1, <3>1, <3>2, OneAppended
    <3>4. Len(tail'[a]) = 1 => tail[a] = <<>>
      BY <1>1, <3>1, <3>2, OneAppended
    <3>5. tail[a] = <<>> => captured'[a] = Idle
      BY <1>0, <2>1 DEF Queues
    <3> QED
      BY <3>3, <3>4, <3>5 DEF Coming
  <2>3. CASE b # a
    <3>1. tail'[a] = tail[a] /\ version'[a] = version[a]
      BY <1>0, <1>1, <2>1, <2>3 DEF Content
    <3> QED
      BY <1>4, <2>1, <3>1
  <2> QED
    BY <2>2, <2>3
<1>6. ASSUME NEW b \in Agents, DeleteAgent(b) PROVE Placed(a)'
  <2>1. b # a
    BY <1>1, <1>6 DEF DeleteAgent, Living
  <2> DEFINE m == [type |-> "deleted", agent |-> b]
  <2>2. m \in Deleted
    BY DEF Deleted
  <2>3. m \in Message /\ m.type = "deleted"
    BY <2>2, MessageKinds
  <2>4. /\ Emit(<<m>>)
        /\ tail' = [tail EXCEPT ![b] = Append(@, 0)]
        /\ UNCHANGED <<view, skipped, unplaced, transaction, satisfied, subscription, listings, pending, captured, version>>
    BY <1>6 DEF DeleteAgent, ui
  <2> HIDE DEF m
  <2>5. tail'[a] = tail[a]
    BY <1>0, <1>1, <2>1, <2>4
  <2>6. Extends /\ \A i \in 1 .. Len(wire') : i \in 1 .. Len(wire) \/ wire'[i] = m
    BY <1>1, <2>3, <2>4, EmitOne
  <2>7. ~Tells(m, a) /\ ~Answers(m, transaction)
    BY <2>3 DEF Tells, Answers
  <2> QED
    BY <1>3, <2>4, <2>5, <2>6, <2>7
<1>7. ASSUME NEW b \in Agents, OtherDeletes(b) \/ \E v \in Versions : OtherSequences(b, v) PROVE Placed(a)'
  BY <1>4, <1>7 DEF OtherDeletes, OtherSequences, session, ui
<1>8. ASSUME NEW b \in Agents, StartUpdate(b) PROVE Placed(a)'
  <2>1. /\ captured' = [captured EXCEPT ![b] = subscription] /\ tail[b] # <<>>
        /\ UNCHANGED <<tail, version, view, skipped, unplaced, transaction,
                       satisfied, subscription, listings, pending, wire>>
    BY <1>8 DEF StartUpdate, daemon, ui
  <2>2. CASE b = a
    BY <1>0, <1>1, <2>1, <2>2 DEF Coming
  <2>3. CASE b # a
    <3>1. captured'[a] = captured[a]
      BY <1>0, <1>1, <2>1, <2>3
    <3> QED
      BY <1>4, <2>1, <3>1
  <2> QED
    BY <2>2, <2>3
<1>9. ASSUME NEW b \in Agents, FinishUpdate(b) \/ RunRemoval(b) PROVE Placed(a)'
  <2>1. CASE b = a
    BY <1>9, <2>1, JobCovered
  <2>2. CASE b # a
    <3> DEFINE sub == IF captured[b] = Idle THEN subscription ELSE captured[b]
               v == Head(tail[b])
               u == Published(b, v)
    <3>1. /\ v \in Versions /\ sub \in {0} \cup Requests /\ Publish(sub, b, v)
          /\ \A c \in Agents \ {b} : captured'[c] = captured[c]
          /\ tail' = [tail EXCEPT ![b] = Tail(@)]
          /\ UNCHANGED <<version, subscription, listings, view, transaction, satisfied, skipped,
                         unplaced>>
      BY <1>9, JobFacts
    <3>2. u.agent = b /\ u.type = "update"
      BY DEF Published
    <3> HIDE DEF sub, v, u
    <3>3. tail'[a] = tail[a] /\ captured'[a] = captured[a]
      BY <1>0, <1>1, <2>2, <3>1
    <3>4. \/ pending' = pending /\ wire' = wire
          \/ u \in Update /\ pending' = Buffer(pending, u) /\ wire' = wire
          \/ u \in Update /\ pending' = pending /\ Emit(<<u>>)
      BY <3>1, PublishCases DEF u
    <3>5. CASE pending' = pending /\ wire' = wire
      BY <1>4, <3>1, <3>3, <3>5
    <3>6. CASE u \in Update /\ pending' = Buffer(pending, u) /\ wire' = wire
      <4>1. Replaces(pending', pending, u)
        BY <1>1, <3>6, BufferFacts
      <4>2. Extends
        BY <1>1, <3>6 DEF Extends
      <4>3. Placed(a)
        BY <1>2, <3>1, <3>3
      <4>4. /\ \A i \in 1 .. Len(pending') : pending'[i].agent = a =>
                 \E j \in 1 .. Len(pending) : pending'[i] = pending[j]
            /\ \A j \in 1 .. Len(pending) : pending[j].agent = a =>
                 \E i \in 1 .. Len(pending') : pending'[i] = pending[j]
        BY <2>2, <3>2, <4>1 DEF Replaces
      <4> QED
        BY <3>1, <3>6, <4>2, <4>3, <4>4, OthersMove
    <3>7. CASE u \in Update /\ pending' = pending /\ Emit(<<u>>)
      <4>1. u \in Message
        BY <3>7, MessageKinds
      <4>2. Extends /\ \A i \in 1 .. Len(wire') : i \in 1 .. Len(wire) \/ wire'[i] = u
        BY <1>1, <3>7, <4>1, EmitOne
      <4>3. ~Tells(u, a) /\ ~Answers(u, transaction)
        BY <2>2, <3>2 DEF Tells, Answers
      <4> QED
        BY <1>3, <3>1, <3>3, <3>7, <4>2, <4>3
    <3> QED
      BY <3>4, <3>5, <3>6, <3>7
  <2> QED
    BY <2>1, <2>2
<1>10. ASSUME FetchAgents PROVE Placed(a)'
  <2>0. requests # <<>> /\ requests \in Seq([request : Requests, after : 0 .. MaxHead])
    BY <1>10, Typed DEF FetchAgents
  <2>1. Head(requests) = requests[1] /\ 1 \in 1 .. Len(requests)
    BY <2>0, TailFacts
  <2> DEFINE r == requests[1]
             n == [request |-> r.request, after |-> r.after, list |-> Current]
  <2>2. /\ subscription' = r.request /\ bootstrapping' = bootstrapping \cup {r.request}
        /\ listings' = listings \cup {n} /\ pending' = <<>>
        /\ UNCHANGED <<version, transaction, satisfied, fetches>>
    BY <1>10, <2>1 DEF FetchAgents, daemon, ui
  <2>3. n.list[a] = version[a]
    BY <1>0 DEF Current, Truth, Living
  <2> HIDE DEF n
  <2>4. Answered(a)' /\ Settled(a)'
    BY <1>0, <2>2, OtherStages
  <2>5. ASSUME NEW l \in listings, l.request = transaction PROVE FALSE
    <3>1. l.request \in bootstrapping /\ l.request # 0 /\ l.request \in Nat /\ fetches \in Nat
      BY RequestNumbers DEF Served, Stages
    <3>2. l.request = fetches
      BY <2>5, <3>1 DEF Served, Stages
    <3>3. l.request < r.request /\ r.request <= fetches /\ r.request \in Nat
      BY <2>1, <3>1, RequestNumbers DEF Served, InOrder
    <3> QED
      BY <3>1, <3>2, <3>3
  <2>6. Listed(a)'
    <3>1. \A l \in listings' : l.request = transaction' => l = n
      BY <2>2, <2>5
    <3>2. \A i \in 1 .. Len(pending') : FALSE
      BY <2>2
    <3> QED
      BY <2>2, <2>3, <3>1, <3>2 DEF Listed
  <2> QED
    BY <2>4, <2>6 DEF Placed
<1>11. ASSUME NEW l \in listings, FetchFails(l) PROVE Placed(a)'
  <2> DEFINE m == [type |-> "error", request |-> l.request]
  <2>0. l.request \in Requests
    BY Typed
  <2>1. m \in Failure
    BY <2>0 DEF Failure
  <2>2. m \in Message /\ m.type = "error"
    BY <2>1, MessageKinds
  <2>3. /\ Emit(<<m>>) /\ listings' = listings \ {l}
        /\ subscription' = IF l.request = subscription THEN 0 ELSE subscription
        /\ pending' = IF l.request = subscription THEN <<>> ELSE pending
        /\ UNCHANGED <<version, tail, captured, bootstrapping, view, skipped, unplaced, transaction,
                       satisfied>>
    BY <1>11 DEF FetchFails, daemon, ui
  <2> HIDE DEF m
  <2>4. CASE l.request = subscription
    <3>1. subscription' = 0 /\ 0 \notin bootstrapping'
      BY <2>3, <2>4, RequestNumbers
    <3> QED
      BY <1>0, <3>1, OtherStages DEF Placed
  <2>5. CASE l.request # subscription
    <3>1. Extends /\ \A i \in 1 .. Len(wire') : i \in 1 .. Len(wire) \/ wire'[i] = m
      BY <1>1, <2>2, <2>3, EmitOne
    <3>2. ~Tells(m, a) /\ ~Answers(m, transaction)
      BY <2>2 DEF Tells, Answers
    <3> QED
      BY <1>3, <2>3, <2>5, <3>1, <3>2
  <2> QED
    BY <2>4, <2>5
<1>12. ASSUME NEW l \in listings, NEW order \in Orders(l.list), FetchReplies(l, order) PROVE Placed(a)'
  <2>1. UNCHANGED <<tail, captured, subscription>>
    BY <1>12 DEF FetchReplies
  <2>2. Placed(a)
    BY <1>2, <2>1
  <2> QED
    BY <1>12, <2>2, AnswerCovered
<1>13. ASSUME Refresh PROVE Placed(a)'
  <2>1. /\ transaction' = fetches + 1 /\ fetches \in Nat
        /\ UNCHANGED <<listings, wire>>
    BY <1>13, RequestNumbers DEF Refresh, session
  <2>2. transaction' # 0
    BY <2>1
  <2>3. /\ \A l \in listings' : l.request # transaction'
        /\ \A i \in 1 .. Len(wire') : ~Answers(wire'[i], transaction')
    BY <2>1, NobodysTransaction
  <2>4. Listed(a)' /\ Answered(a)'
    BY <2>3 DEF Listed, Answered
  <2> QED
    BY <1>0, <2>2, <2>4, OtherStages DEF Placed
<1>14. ASSUME Receive PROVE Placed(a)'
  <2>1. PICK m : Recorded(m) \/ Applied(m) \/ Removed(m) \/ Brought(m) \/ Completed(m) \/ Failed(m) \/ Ignored(m)
    BY <1>14, ReceiveCases
  <2>2. UNCHANGED <<tail, captured, subscription>>
    BY <1>14 DEF Receive, session
  <2>3. Placed(a)
    BY <1>2, <2>2
  <2> QED
    BY <2>1, <2>3, ReceiveCovered
<1>15. ASSUME Disconnect \/ Resume \/ GraceEnds PROVE Placed(a)'
  <2>1. transaction' = 0 /\ ~satisfied'
    BY <1>15 DEF Disconnect, Resume, GraceEnds, ui, Served, Stages
  <2> QED
    BY <1>0, <2>1, OtherStages DEF Placed
<1>16. ASSUME UNCHANGED vars PROVE Placed(a)'
  BY <1>4, <1>16 DEF vars
<1>17. ASSUME NEW b \in Agents, FetchTimeline(b) PROVE Placed(a)'
  <2>1. /\ PageOf(b) \in Message /\ PageOf(b).type = "page" /\ Emit(<<PageOf(b)>>)
        /\ UNCHANGED <<version, tail, captured, subscription, listings, pending, view, transaction,
                       satisfied, skipped, unplaced>>
    BY <1>17, PageSent
  <2>2. Extends /\ \A i \in 1 .. Len(wire') : i \in 1 .. Len(wire) \/ wire'[i] = PageOf(b)
    BY <1>1, <2>1, EmitOne
  <2>3. ~Tells(PageOf(b), a) /\ ~Answers(PageOf(b), transaction)
    BY <2>1 DEF Tells, Answers
  <2> QED
    BY <1>3, <2>1, <2>2, <2>3
<1> QED
  BY <1>5, <1>6, <1>7, <1>8, <1>9, <1>10, <1>11, <1>12, <1>13, <1>14, <1>15, <1>16, <1>17 DEF Next

-----------------------------------------------------------------------------
(* The theorems.                                                            *)

(* The initial states satisfy the invariant.                                *)
LEMMA InitHolds ==
  ASSUME Init
  PROVE  TypeOK /\ Inv
<1>0. /\ {MaxChanges, MaxHead, MaxFetches, MaxExtras, MaxDisconnects} \subseteq Nat
  BY BoundsAssumption
<1>1. /\ MaxChanges \in Nat /\ MaxHead \in Nat /\ MaxFetches \in Nat /\ MaxDisconnects \in Nat
      /\ MaxExtras \in Nat
      /\ 0 \in Versions /\ 0 \in 0 .. MaxHead /\ 0 \in 0 .. MaxFetches /\ 0 \in 0 .. MaxDisconnects
      /\ 0 \in 0 .. MaxExtras
  BY <1>0 DEF Versions
<1>2. /\ \A S : <<>> \in Seq(S)
      /\ Len(<<>>) = 0
  OBVIOUS
<1>3. TypeOK
  <2>1. /\ version \in Content /\ value \in Content /\ view \in Content
        /\ deletedBy \in [Agents -> {"nobody", "me", "other"}] /\ seq \in [Agents -> 0 .. MaxHead]
        /\ tail \in [Agents -> Seq(Versions)] /\ captured \in [Agents -> {Idle, 0} \cup Requests]
    BY <1>1, <1>2 DEF Init, Content
  <2>2. /\ pending \in Seq(Update) /\ deltas \in Seq(Update)
        /\ requests \in Seq([request : Requests, after : 0 .. MaxHead])
        /\ wire \in Seq(Update \cup Deleted \cup Page \cup Failure \cup Answer)
    BY <1>2 DEF Init
  <2> QED
    BY <1>1, <2>1, <2>2 DEF Init, TypeOK
<1>4. \A a \in Agents : /\ tail[a] = <<>> /\ captured[a] = Idle /\ version[a] = 0 /\ view[a] = 0
                        /\ value[a] = 0 /\ seq[a] = 0
  BY DEF Init
<1>5. \A i \in 1 .. 0 : FALSE
  OBVIOUS
<1>6. /\ wire = <<>> /\ pending = <<>> /\ deltas = <<>> /\ requests = <<>> /\ listings = {}
      /\ transaction = 0 /\ fetches = 0 /\ subscription = 0 /\ bootstrapping = {} /\ satisfied = FALSE
      /\ connected = TRUE /\ head = 0 /\ cursor = 0
  BY DEF Init
<1>7. \A i \in 1 .. Len(<<>>) : FALSE
  BY <1>2, <1>5
<1>8. Living \subseteq Agents
  BY DEF Living
<1>9. Queues
  BY <1>4, <1>7, <1>8 DEF Queues
<1>10. Known
  BY <1>4, <1>6, <1>7, <1>8 DEF Known
<1>11. Told
  BY <1>2, <1>6 DEF Told
<1>12. Served
  BY <1>2, <1>6, <1>7 DEF Served, Stages, InOrder
<1>13. Frozen /\ Buffered /\ Sent
  BY <1>6, <1>7 DEF Frozen, Buffered, Sent
<1>14. Passed
  BY <1>4, <1>8 DEF Passed
<1>15. Covered
  BY <1>6, <1>7 DEF Covered, Placed, Listed, Answered, Settled
<1>16. Apart
  BY DEF Init, Apart
<1> QED
  BY <1>3, <1>9, <1>10, <1>11, <1>12, <1>13, <1>14, <1>15, <1>16 DEF Inv

(* Every step keeps the invariant.                                          *)
LEMMA NextKeeps ==
  ASSUME TypeOK, Inv, [Next]_vars
  PROVE  TypeOK' /\ Inv'
<1>1. Queues /\ Known /\ Told /\ Served /\ Frozen /\ Passed /\ Apart /\ Buffered /\ Sent /\ Covered
  BY DEF Inv
<1>2. TypeOK' /\ Queues' /\ Known' /\ Told' /\ Served' /\ Frozen'
  BY <1>1, NextTyped, QueuesKept, KnownKept, ToldKept, ServedKept, FrozenKept
<1>3. Passed' /\ Apart' /\ Buffered' /\ Sent' /\ Covered'
  BY <1>1, PassedKept, ApartKept, BufferedKept, SentKept, CoveredKept
<1> QED
  BY <1>2, <1>3 DEF Inv

(* When nothing is under way, the newest version of a living agent is in    *)
(* the replica unless the cursor skipped it.                                *)
LEMMA QuietDelivers ==
  ASSUME TypeOK, Inv
  PROVE  LostOnlyBehindCursor
<1> SUFFICES ASSUME Quiet, satisfied, NEW a \in Agents, deletedBy[a] = "nobody", a \notin skipped
             PROVE  view[a] = Truth(a)
  BY DEF LostOnlyBehindCursor
<1>1. /\ wire = <<>> /\ transaction = 0 /\ subscription # 0 /\ tail[a] = <<>>
  BY DEF Quiet
<1>2. a \in Living /\ ~Coming(a)
  BY <1>1 DEF Living, Coming
<1>3. Settled(a)
  BY <1>2 DEF Inv, Covered, Placed
<1>4. NoneTells(a, 0)
  <2>1. \A j \in 1 .. Len(<<>>) : FALSE
    OBVIOUS
  <2> QED
    BY <1>1, <2>1 DEF NoneTells
<1>5. view[a] = version[a]
  BY <1>1, <1>3, <1>4 DEF Settled
<1> QED
  BY <1>5 DEF Truth

(* Types: whatever is delivered, buffered, flushed and recorded, the cursor *)
(* and the sequence numbers stay within the collection's head, and every    *)
(* buffer and queue holds updates only (TypeOK).                            *)
THEOREM TypeCorrect == Spec => []TypeOK
<1>1. Init => TypeOK /\ Inv
  BY InitHolds
<1>2. TypeOK /\ Inv /\ [Next]_vars => TypeOK' /\ Inv'
  BY NextKeeps
<1> QED
  BY <1>1, <1>2, PTL DEF Spec

(* No answer gathered before an await, no stale entry of the collection and *)
(* no replayed update takes the replica of a living agent back to an        *)
(* earlier version (acceptAgentDirectoryUpdate, commitChanges,              *)
(* commitSnapshot), unless a page of its timeline took it forward while the *)
(* refresh was open, or only a page has shown it and the cursor of another  *)
(* agent's update passed its change (submitTimelineAgent).                  *)
THEOREM NeverGoesBack == Spec => NeverBackwards
<1>1. Init => TypeOK /\ Inv
  BY InitHolds
<1>2. TypeOK /\ Inv /\ [Next]_vars => TypeOK' /\ Inv'
  BY NextKeeps
<1>3. TypeOK /\ Inv /\ [Next]_vars =>
        [\A a \in Agents :
           deletedBy[a] = "nobody" /\ a \notin Exposed => view'[a] >= view[a]]_vars
  <2> SUFFICES ASSUME TypeOK, Inv, [Next]_vars, NEW a \in Agents, deletedBy[a] = "nobody",
                      a \notin Exposed
               PROVE  view'[a] >= view[a]
    OBVIOUS
  <2>1. a \in Living \ Exposed
    BY DEF Living
  <2> QED
    BY <2>1, ReplicaForwards DEF Inv
<1> QED
  BY <1>1, <1>2, <1>3, PTL DEF Spec, NeverBackwards

(* However refreshes overlap, fail and supersede one another, sockets are   *)
(* lost and sessions replaced: once a refresh has succeeded and nothing is  *)
(* under way, a living agent is missing a change only when the live update  *)
(* of another agent moved the cursor over it (noteLiveCursor).              *)
THEOREM LostOnlyBehind == Spec => []LostOnlyBehindCursor
<1>1. Init => TypeOK /\ Inv
  BY InitHolds
<1>2. TypeOK /\ Inv /\ [Next]_vars => TypeOK' /\ Inv'
  BY NextKeeps
<1>3. TypeOK /\ Inv => LostOnlyBehindCursor
  BY QuietDelivers
<1> QED
  BY <1>1, <1>2, <1>3, PTL DEF Spec

=============================================================================
