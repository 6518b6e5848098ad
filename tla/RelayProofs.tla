----------------------------- MODULE RelayProofs -----------------------------
(***************************************************************************)
(* Proofs about the relay, for any number of clients, frames, failures and *)
(* silent control sockets: its variables keep their types and bounds, a    *)
(* client that is gone gets no data socket, and the daemon reads the       *)
(* frames of a client without a gap.                                       *)
(*                                                                         *)
(* The bound on the control sockets is the one that needs an argument: a   *)
(* control socket that is not the current one has ended by a cut or by the *)
(* reset of a client, and a reset ends one socket at most.                 *)
(***************************************************************************)
EXTENDS Relay, FiniteSetTheorems, SequenceTheorems, TLAPS

-----------------------------------------------------------------------------
(* The invariants.                                                         *)

\* TypeOK without the bound on the control sockets.
Typed ==
  /\ client \in [Conns -> {"new", "in", "closing", "gone"}]
  /\ nudge \in [Conns -> {"unset", "first", "second", "done"}]
  /\ sent \in [Conns -> 0 .. MaxFrames]
  /\ pending \in [Conns -> Seq(1 .. MaxFrames)]
  /\ \A c \in Conns : Len(pending[c]) <= BufferLimit
  /\ controls \in Seq(Control) /\ control \in 0 .. Len(controls)
  /\ data \in [Conns -> Seq(Data)]
  /\ \A c \in Conns : Len(data[c]) <= MaxData /\ entry[c] \in 0 .. Len(data[c])
  /\ entry \in [Conns -> 0 .. MaxData]
  /\ failures \in 0 .. MaxFailures
  /\ farewells \subseteq Conns /\ unlucky \subseteq Conns
  /\ unflushed \subseteq Conns

\* How the control sockets have ended.
Ended(socket) == socket.relay \in {"closing", "closed"}
CutOff == {n \in DOMAIN controls : controls[n].cut}
Reset == {n \in DOMAIN controls : ~controls[n].cut /\ Ended(controls[n])}
Spent == {c \in Conns : nudge[c] = "done"}
TimersUnset == \A c \in Conns : client[c] = "new" => nudge[c] = "unset"
ControlsCounted ==
  /\ \A n \in DOMAIN controls : n # control => n \in CutOff \cup Reset
  /\ Cardinality(CutOff) <= MaxCuts /\ Cardinality(Reset) <= Cardinality(Spent)

\* A notice tells of clients that are gone, or of ones that were there and that
\* no notice before it has called gone.
Gone(notice) == notice.type = "disconnected"
Departed == {c \in Conns : client[c] = "gone"}
Ordered(notices, gone) ==
  \A j \in 1 .. Len(notices) :
    IF Gone(notices[j]) THEN notices[j].ids \subseteq gone
    ELSE \A i \in 1 .. j : Gone(notices[i]) => notices[i].ids \cap notices[j].ids = {}
NoticesOrdered == \A n \in DOMAIN controls : Ordered(controls[n].notices, Departed)

\* No notice on its way tells the daemon to serve client c.
Silent(notices, c) == \A i \in 1 .. Len(notices) : c \in notices[i].ids => Gone(notices[i])
FarewellsFinal ==
  \A c \in farewells :
    /\ c \in Departed /\ entry[c] = 0
    /\ control # 0 => Silent(controls[control].notices, c)

\* Frames without a gap, up to the latest one.
Run(r) == \A i \in 1 .. Len(r) - 1 : r[i + 1] = r[i] + 1
UpTo(r, n) == r # <<>> => r[Len(r)] = n
Forwarded(socket) == socket.relay = "open" /\ socket.daemon = "open"
FramesOf(c) ==
  /\ Run(pending[c]) /\ UpTo(pending[c], sent[c])
  /\ hasServerDataSocket(c) => pending[c] = <<>>
  /\ \A d \in DOMAIN data[c] :
       /\ Run(data[c][d].received)
       /\ Forwarded(data[c][d]) => UpTo(data[c][d].received, sent[c])
FramesRun == \A c \in Conns \ unflushed : FramesOf(c)

Inv == Typed /\ TimersUnset /\ ControlsCounted /\ NoticesOrdered /\ FarewellsFinal /\ FramesRun

-----------------------------------------------------------------------------
(* Sequences of sockets and of notices.                                    *)

LEMMA FunctionIsSeq ==
  ASSUME NEW S, NEW n \in Nat, NEW f \in [1 .. n -> S]
  PROVE  f \in Seq(S) /\ Len(f) = n /\ DOMAIN f = 1 .. n
OBVIOUS

LEMMA Shape ==
  ASSUME NEW S, NEW s \in Seq(S)
  PROVE  Len(s) \in Nat /\ DOMAIN s = 1 .. Len(s) /\ \A i \in DOMAIN s : s[i] \in S
OBVIOUS

LEMMA Appended ==
  ASSUME NEW S, NEW s \in Seq(S), NEW e \in S
  PROVE  /\ Append(s, e) \in Seq(S) /\ Len(Append(s, e)) = Len(s) + 1
         /\ Append(s, e)[Len(s) + 1] = e
         /\ \A i \in 1 .. Len(s) : Append(s, e)[i] = s[i]
OBVIOUS

(* CloseAtRelay changes the relay's end alone.                             *)
LEMMA ClosedControls ==
  ASSUME NEW s \in Seq(Control)
  PROVE  /\ CloseAtRelay(s) \in Seq(Control) /\ Len(CloseAtRelay(s)) = Len(s)
         /\ \A i \in DOMAIN s :
              /\ CloseAtRelay(s)[i].relay = Closing(s[i].relay)
              /\ CloseAtRelay(s)[i].cut = s[i].cut
              /\ CloseAtRelay(s)[i].notices = s[i].notices
<1>1. Len(s) \in Nat /\ DOMAIN s = 1 .. Len(s) /\ \A i \in DOMAIN s : s[i] \in Control
  BY Shape
<1>2. \A i \in DOMAIN s : [s[i] EXCEPT !.relay = Closing(@)] \in Control
  BY <1>1 DEF Control, Closing
<1>3. CloseAtRelay(s) \in [1 .. Len(s) -> Control]
  BY <1>1, <1>2 DEF CloseAtRelay
<1>4. \A i \in DOMAIN s :
        /\ CloseAtRelay(s)[i].relay = Closing(s[i].relay)
        /\ CloseAtRelay(s)[i].cut = s[i].cut
        /\ CloseAtRelay(s)[i].notices = s[i].notices
  BY <1>1 DEF CloseAtRelay, Control
<1> QED
  BY <1>1, <1>3, <1>4, FunctionIsSeq

LEMMA ClosedData ==
  ASSUME NEW s \in Seq(Data)
  PROVE  /\ CloseAtRelay(s) \in Seq(Data) /\ Len(CloseAtRelay(s)) = Len(s)
         /\ \A i \in DOMAIN s :
              /\ CloseAtRelay(s)[i].relay = Closing(s[i].relay)
              /\ CloseAtRelay(s)[i].daemon = s[i].daemon
              /\ CloseAtRelay(s)[i].received = s[i].received
<1>1. Len(s) \in Nat /\ DOMAIN s = 1 .. Len(s) /\ \A i \in DOMAIN s : s[i] \in Data
  BY Shape
<1>2. \A i \in DOMAIN s : [s[i] EXCEPT !.relay = Closing(@)] \in Data
  BY <1>1 DEF Data, Closing
<1>3. CloseAtRelay(s) \in [1 .. Len(s) -> Data]
  BY <1>1, <1>2 DEF CloseAtRelay
<1>4. \A i \in DOMAIN s :
        /\ CloseAtRelay(s)[i].relay = Closing(s[i].relay)
        /\ CloseAtRelay(s)[i].daemon = s[i].daemon
        /\ CloseAtRelay(s)[i].received = s[i].received
  BY <1>1 DEF CloseAtRelay, Data
<1> QED
  BY <1>1, <1>3, <1>4, FunctionIsSeq

(* notifyControls adds a notice to some control sockets.                   *)
LEMMA Notified ==
  ASSUME Typed, NEW notice \in Notice
  PROVE  /\ notifyControls(notice) \in Seq(Control)
         /\ Len(notifyControls(notice)) = Len(controls)
         /\ \A i \in DOMAIN controls :
              /\ notifyControls(notice)[i].relay = controls[i].relay
              /\ notifyControls(notice)[i].cut = controls[i].cut
              /\ \/ notifyControls(notice)[i].notices = controls[i].notices
                 \/ notifyControls(notice)[i].notices = Append(controls[i].notices, notice)
<1>1. controls \in Seq(Control)
  BY DEF Typed
<1>2. Len(controls) \in Nat /\ DOMAIN controls = 1 .. Len(controls)
      /\ \A i \in DOMAIN controls : controls[i] \in Control
  BY <1>1, Shape
<1>3. \A i \in DOMAIN controls : Append(controls[i].notices, notice) \in Seq(Notice)
  BY <1>2, Appended DEF Control
<1>4. \A i \in DOMAIN controls :
        [controls[i] EXCEPT !.notices = Append(@, notice)] \in Control
  BY <1>2, <1>3 DEF Control
<1>5. notifyControls(notice) \in [1 .. Len(controls) -> Control]
  BY <1>2, <1>4 DEF notifyControls
<1>6. \A i \in DOMAIN controls :
        /\ notifyControls(notice)[i].relay = controls[i].relay
        /\ notifyControls(notice)[i].cut = controls[i].cut
        /\ \/ notifyControls(notice)[i].notices = controls[i].notices
           \/ notifyControls(notice)[i].notices = Append(controls[i].notices, notice)
  BY <1>2 DEF notifyControls, Control
<1> QED
  BY <1>2, <1>5, <1>6, FunctionIsSeq
-----------------------------------------------------------------------------
(* Types.                                                                  *)

Parties ==
  /\ client \in [Conns -> {"new", "in", "closing", "gone"}]
  /\ nudge \in [Conns -> {"unset", "first", "second", "done"}]
  /\ sent \in [Conns -> 0 .. MaxFrames]
  /\ failures \in 0 .. MaxFailures
  /\ farewells \subseteq Conns /\ unlucky \subseteq Conns /\ unflushed \subseteq Conns
Buffers ==
  pending \in [Conns -> Seq(1 .. MaxFrames)] /\ \A c \in Conns : Len(pending[c]) <= BufferLimit
Controls == controls \in Seq(Control) /\ control \in 0 .. Len(controls)
Sockets ==
  /\ data \in [Conns -> Seq(Data)]
  /\ \A c \in Conns : Len(data[c]) <= MaxData /\ entry[c] \in 0 .. Len(data[c])
  /\ entry \in [Conns -> 0 .. MaxData]

LEMMA TypedParts == Typed <=> Parties /\ Buffers /\ Controls /\ Sockets
BY DEF Typed, Parties, Buffers, Controls, Sockets

LEMMA NoticeTypes ==
  ASSUME NEW c \in Conns
  PROVE  /\ [type |-> "connected", ids |-> {c}] \in Notice
         /\ [type |-> "disconnected", ids |-> {c}] \in Notice
         /\ [type |-> "sync", ids |-> listConnectedConnectionIds] \in Notice
BY DEF Notice, listConnectedConnectionIds

(* A control socket is changed in place.                                   *)
LEMMA ControlChanged ==
  ASSUME NEW s \in Seq(Control), NEW n \in 1 .. Len(s), NEW e \in Control
  PROVE  /\ [s EXCEPT ![n] = e] \in Seq(Control) /\ Len([s EXCEPT ![n] = e]) = Len(s)
         /\ DOMAIN [s EXCEPT ![n] = e] = DOMAIN s
         /\ [s EXCEPT ![n] = e][n] = e
         /\ \A i \in DOMAIN s : i # n => [s EXCEPT ![n] = e][i] = s[i]
OBVIOUS

LEMMA DataChanged ==
  ASSUME NEW s \in Seq(Data), NEW n \in 1 .. Len(s), NEW e \in Data
  PROVE  /\ [s EXCEPT ![n] = e] \in Seq(Data) /\ Len([s EXCEPT ![n] = e]) = Len(s)
         /\ DOMAIN [s EXCEPT ![n] = e] = DOMAIN s
         /\ [s EXCEPT ![n] = e][n] = e
         /\ \A i \in DOMAIN s : i # n => [s EXCEPT ![n] = e][i] = s[i]
OBVIOUS

(* What each action does to the control sockets.                           *)
LEMMA ControlsCutFacts ==
  ASSUME Typed, NEW n \in DOMAIN controls, ControlCut(n)
  PROVE  /\ controls' \in Seq(Control) /\ Len(controls') = Len(controls)
         /\ controls'[n].relay = controls[n].relay /\ controls'[n].cut
         /\ controls'[n].notices = <<>>
         /\ \A i \in DOMAIN controls : i # n => controls'[i] = controls[i]
<1>1. controls \in Seq(Control) /\ n \in 1 .. Len(controls) /\ controls[n] \in Control
  BY Shape DEF Typed
<1> DEFINE e == [controls[n] EXCEPT !.cut = TRUE, !.notices = <<>>]
<1>2. e \in Control
  <2>1. <<>> \in Seq(Notice)
    OBVIOUS
  <2> QED
    BY <1>1, <2>1 DEF Control
<1>3. controls' = [controls EXCEPT ![n] = e]
  BY <1>1 DEF ControlCut
<1>4. e.relay = controls[n].relay /\ e.cut /\ e.notices = <<>>
  BY <1>1 DEF Control
<1> HIDE DEF e
<1> QED
  BY <1>1, <1>2, <1>3, <1>4, ControlChanged

LEMMA RelayLosesFacts ==
  ASSUME Typed, NEW n \in DOMAIN controls, RelayLosesControl(n)
  PROVE  /\ controls' \in Seq(Control) /\ Len(controls') = Len(controls)
         /\ controls'[n].relay = "closed" /\ controls'[n].cut = controls[n].cut
         /\ controls'[n].notices = controls[n].notices
         /\ \A i \in DOMAIN controls : i # n => controls'[i] = controls[i]
<1>1. controls \in Seq(Control) /\ n \in 1 .. Len(controls) /\ controls[n] \in Control
  BY Shape DEF Typed
<1> DEFINE e == [controls[n] EXCEPT !.relay = "closed"]
<1>2. e \in Control
  BY <1>1 DEF Control
<1>3. controls' = [controls EXCEPT ![n] = e]
  BY <1>1 DEF RelayLosesControl
<1>4. e.relay = "closed" /\ e.cut = controls[n].cut /\ e.notices = controls[n].notices
  BY <1>1 DEF Control
<1> HIDE DEF e
<1> QED
  BY <1>1, <1>2, <1>3, <1>4, ControlChanged

LEMMA HandlesFacts ==
  ASSUME Typed, NEW n \in DOMAIN controls, DaemonHandlesNotice(n)
  PROVE  /\ controls' \in Seq(Control) /\ Len(controls') = Len(controls)
         /\ controls'[n].relay = controls[n].relay /\ controls'[n].cut = controls[n].cut
         /\ controls'[n].notices = Tail(controls[n].notices)
         /\ \A i \in DOMAIN controls : i # n => controls'[i] = controls[i]
         /\ controls[n].notices \in Seq(Notice) /\ controls[n].notices # <<>> /\ n = control
         /\ Head(controls[n].notices) \in Notice
<1>1. controls \in Seq(Control) /\ n \in 1 .. Len(controls) /\ controls[n] \in Control
  BY Shape DEF Typed
<1> DEFINE e == [controls[n] EXCEPT !.notices = Tail(@)]
<1>a. controls[n].notices \in Seq(Notice) /\ controls[n].notices # <<>> /\ n = control
  BY <1>1 DEF Control, DaemonHandlesNotice
<1>b. Tail(controls[n].notices) \in Seq(Notice) /\ Head(controls[n].notices) \in Notice
  BY <1>a, HeadTailProperties
<1>2. e \in Control
  BY <1>1, <1>b DEF Control
<1>3. controls' = [controls EXCEPT ![n] = e]
  BY <1>1 DEF DaemonHandlesNotice
<1>4. e.relay = controls[n].relay /\ e.cut = controls[n].cut
      /\ e.notices = Tail(controls[n].notices)
  BY <1>1 DEF Control
<1> HIDE DEF e
<1> QED
  BY <1>1, <1>2, <1>3, <1>4, <1>a, <1>b, ControlChanged

LEMMA AcceptsControlFacts ==
  ASSUME Typed, RelayAcceptsControl
  PROVE  /\ controls' \in Seq(Control) /\ Len(controls') = Len(controls)
         /\ control \in DOMAIN controls /\ controls[control].relay = "none"
         /\ controls'[control].relay = "open" /\ controls'[control].cut = controls[control].cut
         /\ controls'[control].notices = <<[type |-> "sync", ids |-> listConnectedConnectionIds]>>
         /\ \A i \in DOMAIN controls \ {control} :
              /\ controls'[i].relay = Closing(controls[i].relay)
              /\ controls'[i].cut = controls[i].cut
              /\ controls'[i].notices = controls[i].notices
<1> DEFINE s == CloseAtRelay(controls)
           q == <<[type |-> "sync", ids |-> listConnectedConnectionIds]>>
           e == [s[control] EXCEPT !.relay = "open", !.notices = q]
<1>1. controls \in Seq(Control) /\ control \in 1 .. Len(controls)
      /\ DOMAIN controls = 1 .. Len(controls) /\ controls[control].relay = "none"
  BY Shape DEF Typed, RelayAcceptsControl
<1>2. /\ s \in Seq(Control) /\ Len(s) = Len(controls)
      /\ \A i \in DOMAIN controls :
           /\ s[i].relay = Closing(controls[i].relay) /\ s[i].cut = controls[i].cut
           /\ s[i].notices = controls[i].notices
  BY <1>1, ClosedControls
<1>3. q \in Seq(Notice)
  BY DEF Notice, listConnectedConnectionIds
<1>4. s[control] \in Control /\ DOMAIN s = DOMAIN controls
  BY <1>1, <1>2
<1>5. controls' = [s EXCEPT ![control].relay = "open", ![control].notices = q]
  BY DEF RelayAcceptsControl
<1> HIDE DEF s, q
<1>6. e \in Control /\ e.relay = "open" /\ e.cut = s[control].cut /\ e.notices = q
  BY <1>3, <1>4 DEF Control
<1>7. controls' = [s EXCEPT ![control] = e]
  BY <1>1, <1>2, <1>4, <1>5
<1>8. control \in 1 .. Len(s)
  BY <1>1, <1>2
<1> HIDE DEF e
<1>9. /\ controls' \in Seq(Control) /\ Len(controls') = Len(s) /\ controls'[control] = e
      /\ \A i \in DOMAIN s : i # control => controls'[i] = s[i]
  BY <1>2, <1>6, <1>7, <1>8, ControlChanged
<1> QED
  BY <1>1, <1>2, <1>4, <1>6, <1>9 DEF q
LEMMA ControlsKeep ==
  ASSUME Typed, [Next]_vars
  PROVE  Controls'
<1>1. controls \in Seq(Control) /\ control \in 0 .. Len(controls) /\ Len(controls) \in Nat
  BY Shape DEF Typed
<1>2. CASE ConnectControl
  <2> DEFINE e == [relay |-> "none", cut |-> FALSE, notices |-> <<>>]
  <2>1. <<>> \in Seq(Notice)
    OBVIOUS
  <2>2. e \in Control
    BY <2>1 DEF Control
  <2>3. controls' = Append(controls, e) /\ control' = Len(controls) + 1
    BY <1>2 DEF ConnectControl
  <2> HIDE DEF e
  <2> QED
    BY <1>1, <2>2, <2>3, Appended DEF Controls
<1>3. CASE RelayAcceptsControl
  BY <1>1, <1>3, AcceptsControlFacts DEF RelayAcceptsControl, Controls
<1>4. CASE DaemonLosesControl
  BY <1>1, <1>4 DEF DaemonLosesControl, Controls
<1>5. ASSUME NEW n \in DOMAIN controls, DaemonHandlesNotice(n) PROVE Controls'
  BY <1>1, <1>5, HandlesFacts DEF DaemonHandlesNotice, Controls
<1>6. ASSUME NEW n \in DOMAIN controls, ControlCut(n) PROVE Controls'
  BY <1>1, <1>6, ControlsCutFacts DEF ControlCut, Controls
<1>7. ASSUME NEW n \in DOMAIN controls, RelayLosesControl(n) PROVE Controls'
  BY <1>1, <1>7, RelayLosesFacts DEF RelayLosesControl, Controls
<1>8. ASSUME NEW c \in Conns,
             ClientConnects(c) \/ NudgeControl(c) \/ ClientLeaves(c)
      PROVE  Controls'
  <2>1. control' = control
    BY <1>8 DEF ClientConnects, NudgeControl, ClientLeaves
  <2>2. controls' = controls \/ \E notice \in Notice : controls' = notifyControls(notice)
    BY <1>8, NoticeTypes DEF ClientConnects, NudgeControl, ClientLeaves
  <2> QED
    BY <1>1, <2>1, <2>2, Notified DEF Controls
<1>9. ASSUME NEW c \in Conns, ResetControl(c) PROVE Controls'
  BY <1>1, <1>9, ClosedControls DEF ResetControl, Controls
<1>10. ASSUME NEW c \in Conns,
              ClientSends(c) \/ RelayAcceptsData(c) \/ DataOpenFails(c)
               \/ \E d \in DOMAIN data[c] : DaemonDataClosed(c, d) \/ RelayDataClosed(c, d)
       PROVE  Controls'
  BY <1>1, <1>10 DEF ClientSends, RelayAcceptsData, DataOpenFails, DaemonDataClosed,
                     RelayDataClosed, Controls
<1>11. CASE UNCHANGED vars
  BY <1>1, <1>11 DEF vars, Controls
<1> QED
  BY <1>2, <1>3, <1>4, <1>5, <1>6, <1>7, <1>8, <1>9, <1>10, <1>11
     DEF Next, ControlStep, DataStep

(* What each action does to the data sockets.                              *)
LEMMA OneSocket ==
  ASSUME Typed, NEW c \in Conns, NEW d \in DOMAIN data[c], NEW e \in Data,
         data' = [data EXCEPT ![c] = [data[c] EXCEPT ![d] = e]]
  PROVE  /\ data' \in [Conns -> Seq(Data)] /\ \A x \in Conns : Len(data'[x]) = Len(data[x])
         /\ \A x \in Conns : x # c => data'[x] = data[x]
         /\ data'[c][d] = e /\ \A i \in DOMAIN data[c] : i # d => data'[c][i] = data[c][i]
<1>1. data \in [Conns -> Seq(Data)] /\ d \in 1 .. Len(data[c])
  BY Shape DEF Typed
<1> DEFINE t == [data[c] EXCEPT ![d] = e]
<1>2. t \in Seq(Data) /\ Len(t) = Len(data[c]) /\ t[d] = e
      /\ \A i \in DOMAIN data[c] : i # d => t[i] = data[c][i]
  BY <1>1, DataChanged
<1>3. data' = [data EXCEPT ![c] = t]
  OBVIOUS
<1> HIDE DEF t
<1> QED
  BY <1>1, <1>2, <1>3

Opens(c, d, e) == data' = [data EXCEPT ![c] = [CloseAtRelay(@) EXCEPT ![d] = e]]
LEMMA Opened ==
  ASSUME Typed, NEW c \in Conns, NEW d \in DOMAIN data[c], NEW e \in Data, Opens(c, d, e)
  PROVE  /\ data' \in [Conns -> Seq(Data)] /\ \A x \in Conns : Len(data'[x]) = Len(data[x])
         /\ \A x \in Conns : x # c => data'[x] = data[x]
         /\ data'[c][d] = e
         /\ \A i \in DOMAIN data[c] :
              i # d => /\ data'[c][i].relay = Closing(data[c][i].relay)
                       /\ data'[c][i].received = data[c][i].received
<1>1. data \in [Conns -> Seq(Data)] /\ d \in 1 .. Len(data[c]) /\ DOMAIN data[c] = 1 .. Len(data[c])
  BY Shape DEF Typed
<1> DEFINE s == CloseAtRelay(data[c])
           t == [s EXCEPT ![d] = e]
<1>2. /\ s \in Seq(Data) /\ Len(s) = Len(data[c])
      /\ \A i \in DOMAIN data[c] : /\ s[i].relay = Closing(data[c][i].relay)
                                   /\ s[i].received = data[c][i].received
  BY <1>1, ClosedData
<1>3. data' = [data EXCEPT ![c] = t]
  BY <1>1 DEF Opens
<1> HIDE DEF s
<1>a. DOMAIN s = DOMAIN data[c]
  BY <1>1, <1>2
<1>4. t \in Seq(Data) /\ Len(t) = Len(s) /\ t[d] = e
      /\ \A i \in DOMAIN s : i # d => t[i] = s[i]
  BY <1>1, <1>2, DataChanged
<1> HIDE DEF t
<1>5. data' \in [Conns -> Seq(Data)] /\ data'[c] = t /\ \A x \in Conns : x # c => data'[x] = data[x]
  BY <1>1, <1>3, <1>4
<1> QED
  BY <1>2, <1>4, <1>5, <1>a

(* A data socket opens; it has received a prefix of what was pending.      *)
LEMMA AcceptsDataFacts ==
  ASSUME Typed, NEW c \in Conns, RelayAcceptsData(c)
  PROVE  \E e \in Data :
           /\ entry[c] \in DOMAIN data[c] /\ e.relay = "open" /\ e.daemon = "open"
           /\ Opens(c, entry[c], e)
           /\ UNCHANGED <<client, nudge, sent, controls, control, entry, failures, farewells, unlucky>>
           /\ \/ /\ e.received = pending[c] /\ pending' = [pending EXCEPT ![c] = <<>>]
                 /\ UNCHANGED unflushed
              \/ \E k \in 0 .. MaxFrames :
                    /\ k < Len(pending[c])
                    /\ pending' = [pending EXCEPT ![c] = <<pending[c][k + 1]>>]
                    /\ unflushed' = unflushed \cup {c}
<1>1. pending[c] \in Seq(1 .. MaxFrames) /\ entry[c] \in DOMAIN data[c]
  <2>1. data[c] \in Seq(Data) /\ entry[c] \in 0 .. Len(data[c]) /\ entry[c] # 0
    BY DEF Typed, RelayAcceptsData
  <2> QED
    BY <2>1 DEF Typed
<1>2. CASE Flush(c, entry[c])
  <2> DEFINE e == [relay |-> "open", daemon |-> "open", received |-> pending[c]]
  <2>1. e \in Data
    BY <1>1 DEF Data
  <2> QED
    BY <1>1, <1>2, <2>1 DEF RelayAcceptsData, Flush, Opens
<1>3. ASSUME NEW k \in 0 .. MaxFrames, FlushFails(c, entry[c], k)
      PROVE  \E e \in Data :
               /\ e.relay = "open" /\ e.daemon = "open"
               /\ Opens(c, entry[c], e)
               /\ k < Len(pending[c])
               /\ pending' = [pending EXCEPT ![c] = <<pending[c][k + 1]>>]
               /\ unflushed' = unflushed \cup {c}
  <2> DEFINE e == [relay |-> "open", daemon |-> "open", received |-> SubSeq(pending[c], 1, k)]
  <2>1. k \in Nat /\ k < Len(pending[c])
    BY <1>3, RelayAssumption DEF FlushFails
  <2>a. \A i \in 1 .. k : pending[c][i] \in 1 .. MaxFrames
    <3>1. Len(pending[c]) \in Nat
      BY <1>1
    <3>2. \A i \in 1 .. k : i \in 1 .. Len(pending[c])
      BY <2>1, <3>1
    <3>3. \A i \in 1 .. Len(pending[c]) : pending[c][i] \in 1 .. MaxFrames
      BY <1>1, Shape
    <3> QED
      BY <3>2, <3>3
  <2>2. SubSeq(pending[c], 1, k) \in Seq(1 .. MaxFrames)
    BY <2>1, <2>a, SubSeqProperties
  <2>3. e \in Data
    BY <2>2 DEF Data
  <2> QED
    BY <1>3, <2>3 DEF FlushFails, Opens
<1>4. UNCHANGED <<client, nudge, sent, controls, control, entry, failures, farewells, unlucky>>
      /\ (Flush(c, entry[c]) \/ \E k \in 0 .. MaxFrames : FlushFails(c, entry[c], k))
  BY DEF RelayAcceptsData
<1> QED
  BY <1>1, <1>2, <1>3, <1>4
(* A frame reaches every data socket that is open at both ends.            *)
LEMMA SendsFacts ==
  ASSUME Typed, NEW c \in Conns, ClientSends(c), hasServerDataSocket(c)
  PROVE  /\ data' \in [Conns -> Seq(Data)] /\ \A x \in Conns : Len(data'[x]) = Len(data[x])
         /\ \A x \in Conns : x # c => data'[x] = data[x]
         /\ \A i \in DOMAIN data[c] :
              /\ data'[c][i].relay = data[c][i].relay /\ data'[c][i].daemon = data[c][i].daemon
              /\ data'[c][i].received =
                   IF Forwarded(data[c][i]) THEN Append(data[c][i].received, sent[c] + 1)
                   ELSE data[c][i].received
         /\ sent[c] + 1 \in 1 .. MaxFrames
<1>1. data \in [Conns -> Seq(Data)] /\ data[c] \in Seq(Data)
      /\ sent[c] + 1 \in 1 .. MaxFrames
  BY RelayAssumption DEF Typed, ClientSends
<1>2. Len(data[c]) \in Nat /\ DOMAIN data[c] = 1 .. Len(data[c])
      /\ \A i \in DOMAIN data[c] : data[c][i] \in Data
  BY <1>1, Shape
<1> DEFINE f == sent[c] + 1
           t == [i \in DOMAIN data[c] |-> Deliver(data[c][i], <<f>>)]
<1>3. data' = [data EXCEPT ![c] = t]
  BY <1>1 DEF ClientSends
<1> HIDE DEF f
<1>4. ASSUME NEW e \in Data
      PROVE  /\ Deliver(e, <<f>>) \in Data
             /\ Deliver(e, <<f>>).relay = e.relay /\ Deliver(e, <<f>>).daemon = e.daemon
             /\ Deliver(e, <<f>>).received =
                   IF Forwarded(e) THEN Append(e.received, f) ELSE e.received
  <2>1. f \in 1 .. MaxFrames /\ e.received \in Seq(1 .. MaxFrames)
    BY <1>1 DEF f, Data
  <2>2. e.received \o <<f>> = Append(e.received, f) /\ Append(e.received, f) \in Seq(1 .. MaxFrames)
    BY <2>1
  <2>3. CASE Forwarded(e)
    <3>1. Deliver(e, <<f>>) = [e EXCEPT !.received = Append(e.received, f)]
      BY <2>2, <2>3 DEF Deliver, Forwarded
    <3> QED
      BY <2>2, <2>3, <3>1 DEF Data
  <2>4. CASE ~Forwarded(e)
    BY <2>4 DEF Deliver, Forwarded
  <2> QED
    BY <2>3, <2>4
<1>5. t \in [1 .. Len(data[c]) -> Data] /\ \A i \in DOMAIN data[c] : t[i] = Deliver(data[c][i], <<f>>)
  BY <1>2, <1>4
<1> HIDE DEF t
<1>6. t \in Seq(Data) /\ Len(t) = Len(data[c])
  BY <1>2, <1>5, FunctionIsSeq
<1>7. data' \in [Conns -> Seq(Data)] /\ data'[c] = t /\ \A x \in Conns : x # c => data'[x] = data[x]
  BY <1>1, <1>3, <1>6
<1>8. \A i \in DOMAIN data[c] :
        /\ data'[c][i].relay = data[c][i].relay /\ data'[c][i].daemon = data[c][i].daemon
        /\ data'[c][i].received =
              IF Forwarded(data[c][i]) THEN Append(data[c][i].received, f)
              ELSE data[c][i].received
  BY <1>2, <1>4, <1>5, <1>7
<1> QED
  BY <1>1, <1>6, <1>7, <1>8 DEF f

LEMMA LeavesFacts ==
  ASSUME Typed, NEW c \in Conns, ClientLeaves(c)
  PROVE  /\ data' \in [Conns -> Seq(Data)] /\ \A x \in Conns : Len(data'[x]) = Len(data[x])
         /\ \A x \in Conns : x # c => data'[x] = data[x]
         /\ \A i \in DOMAIN data[c] : /\ data'[c][i].relay = Closing(data[c][i].relay)
                                      /\ data'[c][i].daemon = data[c][i].daemon
                                      /\ data'[c][i].received = data[c][i].received
<1>1. data \in [Conns -> Seq(Data)] /\ data[c] \in Seq(Data)
  BY DEF Typed
<1>2. data' = [data EXCEPT ![c] = CloseAtRelay(data[c])]
  BY <1>1 DEF ClientLeaves
<1>3. CloseAtRelay(data[c]) \in Seq(Data) /\ Len(CloseAtRelay(data[c])) = Len(data[c])
  BY <1>1, ClosedData
<1>4. data'[c] = CloseAtRelay(data[c])
  BY <1>1, <1>2
<1> QED
  BY <1>1, <1>2, <1>3, <1>4, ClosedData

LEMMA OpenFailsFacts ==
  ASSUME Typed, NEW c \in Conns, DataOpenFails(c)
  PROVE  \E d \in DOMAIN data[c], e \in Data :
           /\ d = entry[c] /\ e.relay = data[c][d].relay /\ e.daemon = "closed"
           /\ e.received = data[c][d].received
           /\ data' = [data EXCEPT ![c] = [data[c] EXCEPT ![d] = e]]
<1>1. data \in [Conns -> Seq(Data)] /\ data[c] \in Seq(Data)
      /\ entry[c] \in 0 .. Len(data[c]) /\ entry[c] # 0
  BY DEF Typed, DataOpenFails
<1>2. entry[c] \in DOMAIN data[c] /\ data[c][entry[c]] \in Data
  BY <1>1
<1> DEFINE e == [data[c][entry[c]] EXCEPT !.daemon = "closed"]
<1>3. e \in Data /\ e.relay = data[c][entry[c]].relay /\ e.daemon = "closed"
      /\ e.received = data[c][entry[c]].received
  BY <1>2 DEF Data
<1>4. data' = [data EXCEPT ![c] = [data[c] EXCEPT ![entry[c]] = e]]
  BY <1>1, <1>2 DEF DataOpenFails
<1> QED
  BY <1>2, <1>3, <1>4

LEMMA DaemonClosedFacts ==
  ASSUME Typed, NEW c \in Conns, NEW d \in DOMAIN data[c], DaemonDataClosed(c, d)
  PROVE  \E e \in Data :
           /\ e.relay = data[c][d].relay /\ e.daemon = "closed"
           /\ e.received = data[c][d].received
           /\ data' = [data EXCEPT ![c] = [data[c] EXCEPT ![d] = e]]
<1>1. data \in [Conns -> Seq(Data)] /\ data[c] \in Seq(Data) /\ data[c][d] \in Data
  BY Shape DEF Typed
<1> DEFINE e == [data[c][d] EXCEPT !.daemon = "closed"]
<1>3. e \in Data /\ e.relay = data[c][d].relay /\ e.daemon = "closed"
      /\ e.received = data[c][d].received
  BY <1>1 DEF Data
<1>4. data' = [data EXCEPT ![c] = [data[c] EXCEPT ![d] = e]]
  BY <1>1 DEF DaemonDataClosed
<1> QED
  BY <1>3, <1>4

LEMMA RelayClosedFacts ==
  ASSUME Typed, NEW c \in Conns, NEW d \in DOMAIN data[c], RelayDataClosed(c, d)
  PROVE  \E e \in Data :
           /\ e.relay = "closed" /\ e.daemon = data[c][d].daemon
           /\ e.received = data[c][d].received
           /\ data' = [data EXCEPT ![c] = [data[c] EXCEPT ![d] = e]]
<1>1. data \in [Conns -> Seq(Data)] /\ data[c] \in Seq(Data) /\ data[c][d] \in Data
  BY Shape DEF Typed
<1> DEFINE e == [data[c][d] EXCEPT !.relay = "closed"]
<1>3. e \in Data /\ e.relay = "closed" /\ e.daemon = data[c][d].daemon
      /\ e.received = data[c][d].received
  BY <1>1 DEF Data
<1>4. data' = [data EXCEPT ![c] = [data[c] EXCEPT ![d] = e]]
  BY <1>1 DEF RelayDataClosed
<1> QED
  BY <1>3, <1>4
(* What a notice does to the data sockets of one client.                   *)
Fresh == [relay |-> "none", daemon |-> "connecting", received |-> <<>>]
LEMMA HandlesData ==
  ASSUME Typed, NEW n \in DOMAIN controls, DaemonHandlesNotice(n), NEW c \in Conns
  PROVE  LET notice == Head(controls[n].notices)
         IN \/ data'[c] = data[c] /\ entry'[c] = entry[c]
               /\ (Gone(notice) /\ c \in notice.ids => entry[c] = 0)
            \/ /\ Gone(notice) /\ entry'[c] = 0 /\ entry[c] \in DOMAIN data[c]
               /\ \E e \in Data :
                    /\ e.relay = data[c][entry[c]].relay /\ e.daemon = "closed"
                    /\ e.received = data[c][entry[c]].received
                    /\ data'[c] = [data[c] EXCEPT ![entry[c]] = e]
            \/ /\ ~Gone(notice) /\ c \in notice.ids /\ Len(data[c]) < MaxData
               /\ data'[c] = Append(data[c], Fresh) /\ entry'[c] = Len(data[c]) + 1
<1> DEFINE notice == Head(controls[n].notices)
<1>1. data[c] \in Seq(Data) /\ entry[c] \in 0 .. Len(data[c])
  BY DEF Typed
<1>2. entry[c] # 0 => entry[c] \in DOMAIN data[c] /\ data[c][entry[c]] \in Data
  BY <1>1
<1>3. IF notice.type = "disconnected" THEN Farewell(notice.ids)
      ELSE ensureClientDataSockets(notice.ids)
  BY DEF DaemonHandlesNotice
<1> HIDE DEF notice
<1>4. CASE Gone(notice)
  <2>1. Farewell(notice.ids)
    BY <1>3, <1>4 DEF Gone
  <2>2. CASE c \in notice.ids /\ entry[c] # 0
    <3> DEFINE e == [data[c][entry[c]] EXCEPT !.daemon = "closed"]
    <3>1. e \in Data /\ e.relay = data[c][entry[c]].relay /\ e.daemon = "closed"
          /\ e.received = data[c][entry[c]].received
      BY <1>2, <2>2 DEF Data
    <3>2. data'[c] = [data[c] EXCEPT ![entry[c]] = e] /\ entry'[c] = 0
      BY <2>1, <2>2 DEF Farewell
    <3> QED
      BY <1>2, <1>4, <2>2, <3>1, <3>2 DEF notice
  <2>3. CASE ~(c \in notice.ids /\ entry[c] # 0)
    <3>1. data'[c] = data[c] /\ entry'[c] = entry[c]
      BY <2>1, <2>3 DEF Farewell
    <3> QED
      BY <2>3, <3>1 DEF notice
  <2> QED
    BY <2>2, <2>3
<1>5. CASE ~Gone(notice)
  <2>1. ensureClientDataSockets(notice.ids)
    BY <1>3, <1>5 DEF Gone
  <2>2. CASE c \in Ensured(notice.ids)
    <3>1. data'[c] = Append(data[c], Fresh) /\ entry'[c] = Len(data[c]) + 1
          /\ Len(data[c]) < MaxData /\ c \in notice.ids
      BY <2>1, <2>2 DEF ensureClientDataSockets, Fresh, Ensured
    <3> QED
      BY <1>5, <3>1 DEF notice
  <2>3. CASE c \notin Ensured(notice.ids)
    <3>1. data'[c] = data[c] /\ entry'[c] = entry[c]
      BY <2>1, <2>3 DEF ensureClientDataSockets
    <3> QED
      BY <1>5, <3>1 DEF notice
  <2> QED
    BY <2>2, <2>3
<1> QED
  BY <1>4, <1>5

LEMMA FreshTyped == Fresh \in Data
<1>1. <<>> \in Seq(1 .. MaxFrames)
  OBVIOUS
<1> QED
  BY <1>1 DEF Fresh, Data

LEMMA SocketsKeep ==
  ASSUME Typed, [Next]_vars
  PROVE  Sockets'
<1>1. /\ data \in [Conns -> Seq(Data)] /\ entry \in [Conns -> 0 .. MaxData] /\ MaxData \in Nat
      /\ \A c \in Conns : Len(data[c]) <= MaxData /\ entry[c] \in 0 .. Len(data[c])
      /\ \A c \in Conns : Len(data[c]) \in Nat
  BY RelayAssumption DEF Typed
<1>2. ASSUME NEW n \in DOMAIN controls, DaemonHandlesNotice(n) PROVE Sockets'
  <2>1. ASSUME NEW c \in Conns
        PROVE  data'[c] \in Seq(Data) /\ Len(data'[c]) <= MaxData /\ entry'[c] \in 0 .. Len(data'[c])
    <3>1. CASE data'[c] = data[c] /\ entry'[c] = entry[c]
      BY <1>1, <3>1
    <3>2. ASSUME entry[c] \in DOMAIN data[c], entry'[c] = 0, NEW e \in Data,
                 data'[c] = [data[c] EXCEPT ![entry[c]] = e]
          PROVE  data'[c] \in Seq(Data) /\ Len(data'[c]) = Len(data[c])
      <4>1. data[c] \in Seq(Data) /\ entry[c] \in 1 .. Len(data[c])
        BY <1>1, <3>2
      <4> QED
        BY <3>2, <4>1, DataChanged
    <3>3. CASE Len(data[c]) < MaxData /\ data'[c] = Append(data[c], Fresh)
               /\ entry'[c] = Len(data[c]) + 1
      BY <1>1, <3>3, FreshTyped, Appended
    <3>4. \/ data'[c] = data[c] /\ entry'[c] = entry[c]
          \/ /\ entry[c] \in DOMAIN data[c] /\ entry'[c] = 0
             /\ \E e \in Data : data'[c] = [data[c] EXCEPT ![entry[c]] = e]
          \/ /\ Len(data[c]) < MaxData /\ data'[c] = Append(data[c], Fresh)
             /\ entry'[c] = Len(data[c]) + 1
      BY <1>2, HandlesData
    <3>5. ASSUME data'[c] \in Seq(Data), Len(data'[c]) = Len(data[c]), entry'[c] = 0
          PROVE  Len(data'[c]) <= MaxData /\ entry'[c] \in 0 .. Len(data'[c])
      BY <1>1, <3>5
    <3> QED
      BY <3>1, <3>2, <3>3, <3>4, <3>5
  <2>2. /\ data' = [c \in Conns |-> data'[c]] /\ entry' = [c \in Conns |-> entry'[c]]
    BY <1>2 DEF DaemonHandlesNotice, Farewell, ensureClientDataSockets
  <2>3. \A c \in Conns : entry'[c] \in 0 .. MaxData
    BY <1>1, <2>1
  <2>4. data' \in [Conns -> Seq(Data)] /\ entry' \in [Conns -> 0 .. MaxData]
    BY <2>1, <2>2, <2>3
  <2> QED
    BY <2>1, <2>4 DEF Sockets
<1>3. ASSUME NEW c \in Conns, RelayAcceptsData(c) PROVE Sockets'
  <2>1. entry' = entry /\ data' \in [Conns -> Seq(Data)]
        /\ \A x \in Conns : Len(data'[x]) = Len(data[x])
    BY <1>3, AcceptsDataFacts, Opened
  <2> QED
    BY <1>1, <2>1 DEF Sockets
<1>4. ASSUME NEW c \in Conns,
             DataOpenFails(c) \/ \E d \in DOMAIN data[c] : DaemonDataClosed(c, d) \/ RelayDataClosed(c, d)
      PROVE  Sockets'
  <2>1. data' \in [Conns -> Seq(Data)] /\ \A x \in Conns : Len(data'[x]) = Len(data[x])
    BY <1>4, OpenFailsFacts, DaemonClosedFacts, RelayClosedFacts, OneSocket
  <2>2. entry' = entry \/ entry' = [entry EXCEPT ![c] = 0]
    BY <1>1, <1>4 DEF DataOpenFails, DaemonDataClosed, RelayDataClosed
  <2>a. 0 \in 0 .. MaxData /\ \A x \in Conns : 0 \in 0 .. Len(data[x])
    BY <1>1
  <2>3. entry' \in [Conns -> 0 .. MaxData]
        /\ \A x \in Conns : entry'[x] = entry[x] \/ entry'[x] = 0
    <3>1. CASE entry' = entry
      BY <1>1, <3>1
    <3>2. CASE entry' = [entry EXCEPT ![c] = 0]
      <4>1. entry' \in [Conns -> 0 .. MaxData]
        BY <1>1, <2>a, <3>2
      <4> QED
        BY <1>1, <3>2, <4>1
    <3> QED
      BY <2>2, <3>1, <3>2
  <2>4. \A x \in Conns : entry'[x] \in 0 .. Len(data[x])
    BY <1>1, <2>a, <2>3
  <2> QED
    BY <1>1, <2>1, <2>3, <2>4 DEF Sockets
<1>5. ASSUME NEW c \in Conns, ClientSends(c) \/ ClientLeaves(c) PROVE Sockets'
  <2>1. entry' = entry
    BY <1>5 DEF ClientSends, ClientLeaves
  <2>2. ClientSends(c) /\ ~hasServerDataSocket(c) => data' = data
    BY DEF ClientSends
  <2>3. data' \in [Conns -> Seq(Data)] /\ \A x \in Conns : Len(data'[x]) = Len(data[x])
    BY <1>1, <1>5, <2>2, SendsFacts, LeavesFacts
  <2> QED
    BY <1>1, <2>1, <2>3 DEF Sockets
<1>6. ASSUME UNCHANGED <<data, entry>> PROVE Sockets'
  BY <1>1, <1>6 DEF Sockets
<1>7. CASE ConnectControl \/ RelayAcceptsControl \/ DaemonLosesControl
           \/ \E n \in DOMAIN controls : ControlCut(n) \/ RelayLosesControl(n)
  BY <1>6, <1>7 DEF ConnectControl, RelayAcceptsControl, DaemonLosesControl, ControlCut, RelayLosesControl
<1>8. CASE \E c \in Conns : ClientConnects(c) \/ NudgeControl(c) \/ ResetControl(c)
  BY <1>6, <1>8 DEF ClientConnects, NudgeControl, ResetControl
<1>9. CASE UNCHANGED vars
  BY <1>6, <1>9 DEF vars
<1> QED
  BY <1>2, <1>3, <1>4, <1>5, <1>7, <1>8, <1>9 DEF Next, ControlStep, DataStep
(* bufferFrame appends, and drops the oldest frame of a full buffer.       *)
LEMMA Buffered ==
  ASSUME NEW S, NEW s \in Seq(S), Len(s) <= BufferLimit, NEW e \in S
  PROVE  \E t \in Seq(S) : /\ t = s \/ (s # <<>> /\ t = Tail(s))
                           /\ bufferFrame(s, e) = Append(t, e) /\ Len(t) < BufferLimit
<1>1. BufferLimit \in Nat \ {0} /\ Len(s) \in Nat
  BY RelayAssumption
<1>2. CASE Len(s) < BufferLimit
  <2>1. bufferFrame(s, e) = Append(s, e)
    BY <1>2 DEF bufferFrame
  <2> QED
    BY <1>2, <2>1
<1>3. CASE ~(Len(s) < BufferLimit)
  <2>1. s # <<>>
    BY <1>1, <1>3
  <2>2. Tail(s) \in Seq(S) /\ Len(Tail(s)) = Len(s) - 1
    BY <2>1, HeadTailProperties
  <2>3. Len(Tail(s)) < BufferLimit
    BY <1>1, <2>2
  <2> QED
    BY <1>3, <2>1, <2>2, <2>3 DEF bufferFrame
<1> QED
  BY <1>2, <1>3

LEMMA SendsBuffer ==
  ASSUME Typed, NEW c \in Conns, ClientSends(c), ~hasServerDataSocket(c)
  PROVE  /\ pending' = [pending EXCEPT ![c] = bufferFrame(pending[c], sent[c] + 1)]
         /\ data' = data
         /\ \E t \in Seq(1 .. MaxFrames) :
              /\ t = pending[c] \/ (pending[c] # <<>> /\ t = Tail(pending[c]))
              /\ bufferFrame(pending[c], sent[c] + 1) = Append(t, sent[c] + 1)
              /\ Len(t) < BufferLimit
<1>1. /\ pending \in [Conns -> Seq(1 .. MaxFrames)] /\ pending[c] \in Seq(1 .. MaxFrames)
      /\ Len(pending[c]) <= BufferLimit /\ sent[c] + 1 \in 1 .. MaxFrames
  BY RelayAssumption DEF Typed, ClientSends
<1>2. pending' = [pending EXCEPT ![c] = bufferFrame(pending[c], sent[c] + 1)] /\ data' = data
  BY <1>1 DEF ClientSends
<1> QED
  BY <1>1, <1>2, Buffered

LEMMA BuffersKeep ==
  ASSUME Typed, [Next]_vars
  PROVE  Buffers'
<1>1. /\ pending \in [Conns -> Seq(1 .. MaxFrames)] /\ BufferLimit \in Nat \ {0}
      /\ \A c \in Conns : Len(pending[c]) <= BufferLimit
      /\ <<>> \in Seq(1 .. MaxFrames)
  BY RelayAssumption DEF Typed
<1>2. ASSUME NEW c \in Conns, NEW s \in Seq(1 .. MaxFrames), Len(s) <= BufferLimit,
             pending' = [pending EXCEPT ![c] = s]
      PROVE  Buffers'
  <2>1. pending' \in [Conns -> Seq(1 .. MaxFrames)]
        /\ \A x \in Conns : pending'[x] = IF x = c THEN s ELSE pending[x]
    BY <1>1, <1>2
  <2> QED
    BY <1>1, <1>2, <2>1 DEF Buffers
<1>3. ASSUME pending' = pending PROVE Buffers'
  BY <1>1, <1>3 DEF Buffers
<1>4. ASSUME NEW c \in Conns, ClientSends(c) PROVE Buffers'
  <2>1. CASE hasServerDataSocket(c)
    BY <1>3, <1>4, <2>1 DEF ClientSends
  <2>2. CASE ~hasServerDataSocket(c)
    <3>1. sent[c] + 1 \in 1 .. MaxFrames
      BY <1>4, RelayAssumption DEF Typed, ClientSends
    <3>2. PICK t \in Seq(1 .. MaxFrames) :
            /\ bufferFrame(pending[c], sent[c] + 1) = Append(t, sent[c] + 1)
            /\ Len(t) < BufferLimit
      BY <1>4, <2>2, SendsBuffer
    <3>3. Append(t, sent[c] + 1) \in Seq(1 .. MaxFrames)
          /\ Len(Append(t, sent[c] + 1)) = Len(t) + 1 /\ Len(t) \in Nat
      BY <3>1, Appended
    <3>4. Len(Append(t, sent[c] + 1)) <= BufferLimit
      BY <1>1, <3>2, <3>3
    <3>5. pending' = [pending EXCEPT ![c] = Append(t, sent[c] + 1)]
      BY <1>4, <2>2, <3>2, SendsBuffer
    <3> QED
      BY <1>2, <3>3, <3>4, <3>5
  <2> QED
    BY <2>1, <2>2
<1>5. ASSUME NEW c \in Conns, pending' = [pending EXCEPT ![c] = <<>>] PROVE Buffers'
  <2>1. Len(<<>>) <= BufferLimit
    BY <1>1
  <2> QED
    BY <1>1, <1>2, <1>5, <2>1
<1>6. ASSUME NEW c \in Conns, RelayAcceptsData(c) PROVE Buffers'
  <2>1. ASSUME NEW k \in 0 .. MaxFrames, k < Len(pending[c]),
               pending' = [pending EXCEPT ![c] = <<pending[c][k + 1]>>]
        PROVE  Buffers'
    <3>1. k + 1 \in 1 .. Len(pending[c])
      BY <1>1, <2>1
    <3>2. pending[c][k + 1] \in 1 .. MaxFrames
      BY <1>1, <3>1, ElementOfSeq
    <3>3. <<pending[c][k + 1]>> \in Seq(1 .. MaxFrames) /\ Len(<<pending[c][k + 1]>>) <= BufferLimit
      BY <1>1, <3>2
    <3> QED
      BY <1>2, <2>1, <3>3
  <2> QED
    BY <1>5, <1>6, <2>1, AcceptsDataFacts
<1>7. ASSUME NEW c \in Conns, ClientLeaves(c) PROVE Buffers'
  BY <1>5, <1>7 DEF ClientLeaves
<1>8. CASE ConnectControl \/ RelayAcceptsControl \/ DaemonLosesControl
           \/ \E n \in DOMAIN controls : ControlCut(n) \/ RelayLosesControl(n) \/ DaemonHandlesNotice(n)
  BY <1>3, <1>8 DEF ConnectControl, RelayAcceptsControl, DaemonLosesControl, ControlCut,
                    RelayLosesControl, DaemonHandlesNotice
<1>9. CASE \E c \in Conns :
             \/ ClientConnects(c) \/ NudgeControl(c) \/ ResetControl(c) \/ DataOpenFails(c)
             \/ \E d \in DOMAIN data[c] : DaemonDataClosed(c, d) \/ RelayDataClosed(c, d)
  BY <1>3, <1>9 DEF ClientConnects, NudgeControl, ResetControl, DataOpenFails, DaemonDataClosed,
                    RelayDataClosed
<1>10. CASE UNCHANGED vars
  BY <1>3, <1>10 DEF vars
<1> QED
  BY <1>4, <1>6, <1>7, <1>8, <1>9, <1>10 DEF Next, ControlStep, DataStep

LEMMA PartiesKeep ==
  ASSUME Typed, [Next]_vars
  PROVE  Parties'
<1>1. Parties /\ {MaxFrames, MaxFailures} \subseteq Nat
  BY TypedParts, RelayAssumption
<1>2. ASSUME NEW n \in DOMAIN controls, DaemonHandlesNotice(n) PROVE Parties'
  <2>1. Head(controls[n].notices).ids \subseteq Conns
    BY <1>2, HandlesFacts DEF Notice
  <2>2. farewells' \subseteq farewells \cup Head(controls[n].notices).ids
        /\ UNCHANGED <<client, nudge, sent, failures, unlucky, unflushed>>
    BY <1>2 DEF DaemonHandlesNotice
  <2> QED
    BY <1>1, <2>1, <2>2 DEF Parties
<1>3. ASSUME NEW c \in Conns, RelayAcceptsData(c) PROVE Parties'
  BY <1>1, <1>3, AcceptsDataFacts DEF Parties
<1>4. ASSUME NEW c \in Conns, DataOpenFails(c) PROVE Parties'
  BY <1>1, <1>4 DEF DataOpenFails, Parties
<1>5. ASSUME NEW c \in Conns, NEW d \in DOMAIN data[c], DaemonDataClosed(c, d) PROVE Parties'
  BY <1>1, <1>5 DEF DaemonDataClosed, Parties
<1>6. ASSUME NEW c \in Conns, NEW d \in DOMAIN data[c], RelayDataClosed(c, d) PROVE Parties'
  BY <1>1, <1>6 DEF RelayDataClosed, Parties
<1>7. ASSUME NEW c \in Conns, ClientSends(c) PROVE Parties'
  BY <1>1, <1>7 DEF ClientSends, Parties
<1>8. ASSUME NEW c \in Conns, ClientConnects(c) \/ ClientLeaves(c) PROVE Parties'
  BY <1>1, <1>8 DEF ClientConnects, ClientLeaves, Parties
<1>9. ASSUME NEW c \in Conns, NudgeControl(c) \/ ResetControl(c) PROVE Parties'
  BY <1>1, <1>9 DEF NudgeControl, ResetControl, Parties
<1>10. CASE ConnectControl \/ RelayAcceptsControl \/ DaemonLosesControl
           \/ \E n \in DOMAIN controls : ControlCut(n) \/ RelayLosesControl(n)
  BY <1>1, <1>10 DEF ConnectControl, RelayAcceptsControl, DaemonLosesControl, ControlCut,
                     RelayLosesControl, Parties
<1>11. CASE UNCHANGED vars
  BY <1>1, <1>11 DEF vars, Parties
<1> QED
  BY <1>2, <1>3, <1>4, <1>5, <1>6, <1>7, <1>8, <1>9, <1>10, <1>11 DEF Next, ControlStep, DataStep

LEMMA TypedKeeps ==
  ASSUME Typed, [Next]_vars
  PROVE  Typed'
<1>1. Parties' /\ Buffers' /\ Controls' /\ Sockets' => Typed'
  BY DEF Typed, Parties, Buffers, Controls, Sockets
<1> QED
  BY <1>1, PartiesKeep, BuffersKeep, ControlsKeep, SocketsKeep
-----------------------------------------------------------------------------
(* The control sockets are counted by the ways they ended.                 *)

LEMMA Finite ==
  ASSUME Typed
  PROVE  /\ DOMAIN controls = 1 .. Len(controls) /\ Len(controls) \in Nat
         /\ IsFiniteSet(DOMAIN controls) /\ Cardinality(DOMAIN controls) = Len(controls)
         /\ IsFiniteSet(CutOff) /\ IsFiniteSet(Reset) /\ IsFiniteSet(Spent)
         /\ Cardinality(CutOff) \in Nat /\ Cardinality(Reset) \in Nat
         /\ Cardinality(Spent) \in Nat /\ Cardinality(Spent) <= Cardinality(Conns)
         /\ Cardinality(Conns) \in Nat
<1>1. DOMAIN controls = 1 .. Len(controls) /\ Len(controls) \in Nat
  BY Shape DEF Typed
<1>2. IsFiniteSet(1 .. Len(controls)) /\ Cardinality(1 .. Len(controls)) = Len(controls)
  <2>1. /\ IsFiniteSet(1 .. Len(controls))
        /\ Cardinality(1 .. Len(controls)) = IF 1 > Len(controls) THEN 0 ELSE Len(controls) - 1 + 1
    BY <1>1, FS_Interval
  <2> QED
    BY <1>1, <2>1
<1>3. CutOff \subseteq DOMAIN controls /\ Reset \subseteq DOMAIN controls /\ Spent \subseteq Conns
  BY DEF CutOff, Reset, Spent
<1>4. IsFiniteSet(Conns)
  BY RelayAssumption
<1>5. IsFiniteSet(CutOff) /\ IsFiniteSet(Reset) /\ IsFiniteSet(Spent)
      /\ Cardinality(Spent) <= Cardinality(Conns)
  BY <1>1, <1>2, <1>3, <1>4, FS_Subset
<1> QED
  BY <1>1, <1>2, <1>4, <1>5, FS_CardinalityType

LEMMA FiniteAfter ==
  ASSUME Typed'
  PROVE  /\ IsFiniteSet(CutOff') /\ IsFiniteSet(Reset') /\ IsFiniteSet(Spent')
         /\ Cardinality(CutOff') \in Nat /\ Cardinality(Reset') \in Nat
         /\ Cardinality(Spent') \in Nat
<1>1. DOMAIN controls' = 1 .. Len(controls') /\ Len(controls') \in Nat
  BY Shape DEF Typed
<1>2. IsFiniteSet(1 .. Len(controls'))
  BY <1>1, FS_Interval
<1>3. CutOff' \subseteq DOMAIN controls' /\ Reset' \subseteq DOMAIN controls' /\ Spent' \subseteq Conns
  BY DEF CutOff, Reset, Spent
<1>5. IsFiniteSet(CutOff') /\ IsFiniteSet(Reset') /\ IsFiniteSet(Spent')
  BY <1>1, <1>2, <1>3, RelayAssumption, FS_Subset
<1> QED
  BY <1>5, FS_CardinalityType

(* Steps that end no control socket.                                       *)
LEMMA NoneEnds ==
  ASSUME Typed, Typed', ControlsCounted, CutOff' = CutOff, Reset' \subseteq Reset,
         Spent \subseteq Spent',
         \A n \in DOMAIN controls' : n # control' => n \in CutOff' \cup Reset'
  PROVE  ControlsCounted'
<1>1. Cardinality(Reset') <= Cardinality(Reset)
  BY Finite, FS_Subset
<1>2. Cardinality(Spent) <= Cardinality(Spent')
  BY FiniteAfter, FS_Subset
<1>3. Cardinality(Reset') <= Cardinality(Spent')
  BY <1>1, <1>2, Finite, FiniteAfter DEF ControlsCounted
<1> QED
  BY <1>3 DEF ControlsCounted

(* A step that keeps every socket's cut and does not end one afresh.       *)
LEMMA EndsKept ==
  ASSUME Typed, Typed', ControlsCounted, control' = control, nudge' = nudge \/ Spent \subseteq Spent',
         Len(controls') = Len(controls),
         \A i \in DOMAIN controls : /\ controls'[i].cut = controls[i].cut
                                    /\ Ended(controls[i]) => Ended(controls'[i]),
         \A i \in DOMAIN controls :
            Ended(controls'[i]) => Ended(controls[i]) \/ controls[i].cut \/ i # control
  PROVE  ControlsCounted'
<1>1. DOMAIN controls' = DOMAIN controls
  BY Shape DEF Typed
<1>2. CutOff' = CutOff
  BY <1>1 DEF CutOff
<1>3. Reset \subseteq Reset'
  BY <1>1 DEF Reset
<1>4. Reset' \subseteq Reset
  BY <1>1 DEF Reset, ControlsCounted, CutOff
<1>5. Spent \subseteq Spent'
  BY DEF Spent
<1>6. \A n \in DOMAIN controls' : n # control' => n \in CutOff' \cup Reset'
  BY <1>1, <1>2, <1>3 DEF ControlsCounted
<1> QED
  BY <1>2, <1>4, <1>5, <1>6, NoneEnds

(* The timers of a client start with it.                                   *)
LEMMA TimersKeep ==
  ASSUME Typed, TimersUnset, [Next]_vars
  PROVE  TimersUnset'
<1>1. client \in [Conns -> {"new", "in", "closing", "gone"}]
      /\ nudge \in [Conns -> {"unset", "first", "second", "done"}]
  BY DEF Typed
<1>2. ASSUME UNCHANGED <<client, nudge>> PROVE TimersUnset'
  BY <1>2 DEF TimersUnset
<1>3. ASSUME NEW c \in Conns, NEW t, NEW u, client' = client \/ client' = [client EXCEPT ![c] = t],
             nudge' = nudge \/ nudge' = [nudge EXCEPT ![c] = u], client'[c] # "new"
      PROVE  TimersUnset'
  <2>1. \A x \in Conns : x # c => client'[x] = client[x] /\ nudge'[x] = nudge[x]
    BY <1>1, <1>3
  <2> QED
    BY <1>3, <2>1 DEF TimersUnset
<1>7. ASSUME NEW c \in Conns, ClientConnects(c) PROVE TimersUnset'
  BY <1>1, <1>3, <1>7 DEF ClientConnects
<1>8. ASSUME NEW c \in Conns, NudgeControl(c) PROVE TimersUnset'
  <2>1. client' = client /\ client[c] # "new"
    BY <1>8 DEF NudgeControl, TimersUnset
  <2>2. \E u : nudge' = [nudge EXCEPT ![c] = u]
    BY <1>8 DEF NudgeControl
  <2> QED
    BY <1>3, <2>1, <2>2
<1>9. ASSUME NEW c \in Conns, ResetControl(c) PROVE TimersUnset'
  <2>1. client' = client /\ client[c] # "new" /\ nudge' = [nudge EXCEPT ![c] = "done"]
    BY <1>9 DEF ResetControl, TimersUnset
  <2> QED
    BY <1>3, <2>1
<1>10. ASSUME NEW c \in Conns, ClientLeaves(c) PROVE TimersUnset'
  BY <1>1, <1>3, <1>10 DEF ClientLeaves
<1>11. ASSUME NEW c \in Conns, NEW d \in DOMAIN data[c], RelayDataClosed(c, d) PROVE TimersUnset'
  <2>1. nudge' = nudge /\ client' = [client EXCEPT ![c] = IF @ = "in" THEN "closing" ELSE @]
    BY <1>11 DEF RelayDataClosed
  <2>2. CASE client[c] = "in"
    BY <1>1, <1>3, <2>1, <2>2
  <2>3. CASE client[c] # "in"
    BY <1>1, <1>2, <2>1, <2>3
  <2> QED
    BY <2>2, <2>3
<1>4. CASE ConnectControl \/ RelayAcceptsControl \/ DaemonLosesControl
           \/ \E n \in DOMAIN controls : ControlCut(n) \/ RelayLosesControl(n) \/ DaemonHandlesNotice(n)
  BY <1>2, <1>4 DEF ConnectControl, RelayAcceptsControl, DaemonLosesControl, ControlCut,
                    RelayLosesControl, DaemonHandlesNotice
<1>5. CASE \E c \in Conns :
             \/ ClientSends(c) \/ RelayAcceptsData(c) \/ DataOpenFails(c)
             \/ \E d \in DOMAIN data[c] : DaemonDataClosed(c, d)
  BY <1>2, <1>5 DEF ClientSends, RelayAcceptsData, DataOpenFails, DaemonDataClosed
<1>6. CASE UNCHANGED vars
  BY <1>2, <1>6 DEF vars
<1> QED
  BY <1>4, <1>5, <1>6, <1>7, <1>8, <1>9, <1>10, <1>11 DEF Next, ControlStep, DataStep

LEMMA CountKeeps ==
  ASSUME Typed, TimersUnset, ControlsCounted, [Next]_vars
  PROVE  ControlsCounted'
<1>a. Typed'
  BY TypedKeeps
<1>b. controls \in Seq(Control) /\ DOMAIN controls = 1 .. Len(controls) /\ Len(controls) \in Nat
      /\ control \in 0 .. Len(controls)
  BY Shape DEF Typed
<1>1. CASE ConnectControl
  <2> DEFINE e == [relay |-> "none", cut |-> FALSE, notices |-> <<>>]
  <2>1. <<>> \in Seq(Notice)
    OBVIOUS
  <2>2. e \in Control /\ ~e.cut /\ ~Ended(e)
    BY <2>1 DEF Control, Ended
  <2>3. controls' = Append(controls, e) /\ control' = Len(controls) + 1 /\ control = 0 /\ nudge' = nudge
    BY <1>1 DEF ConnectControl
  <2> HIDE DEF e
  <2>4. /\ Len(controls') = Len(controls) + 1 /\ controls'[Len(controls) + 1] = e
        /\ \A i \in 1 .. Len(controls) : controls'[i] = controls[i]
    BY <1>b, <2>2, <2>3, Appended
  <2>5. DOMAIN controls' = DOMAIN controls \cup {Len(controls) + 1}
    BY <1>a, <1>b, <2>4, Shape DEF Typed
  <2>6. CutOff' = CutOff /\ Reset' = Reset /\ Spent' = Spent
    BY <1>b, <2>2, <2>3, <2>4, <2>5 DEF CutOff, Reset, Spent
  <2>7. \A n \in DOMAIN controls' : n # control' => n \in CutOff' \cup Reset'
    BY <1>b, <2>3, <2>5, <2>6 DEF ControlsCounted
  <2> QED
    BY <1>a, <2>6, <2>7, NoneEnds
<1>2. CASE RelayAcceptsControl
  <2>1. control' = control /\ nudge' = nudge
    BY <1>2 DEF RelayAcceptsControl
  <2>2. \A i \in DOMAIN controls :
          /\ controls'[i].cut = controls[i].cut
          /\ i # control => controls'[i].relay = Closing(controls[i].relay)
          /\ i = control => ~Ended(controls[i]) /\ ~Ended(controls'[i])
    BY <1>2, AcceptsControlFacts DEF Ended
  <2>3. \A i \in DOMAIN controls : Ended(controls[i]) => Ended(controls'[i])
    BY <2>2 DEF Ended, Closing
  <2>4. Len(controls') = Len(controls)
    BY <1>2, AcceptsControlFacts
  <2> QED
    BY <1>a, <2>1, <2>2, <2>3, <2>4, EndsKept
<1>3. CASE DaemonLosesControl
  <2>1. control' = 0 /\ controls' = controls /\ nudge' = nudge /\ control \in DOMAIN controls
        /\ (controls[control].cut \/ Ended(controls[control]))
    BY <1>3, <1>b DEF DaemonLosesControl, Ended
  <2>2. CutOff' = CutOff /\ Reset' = Reset /\ Spent' = Spent
    BY <2>1 DEF CutOff, Reset, Spent
  <2>3. control \in CutOff \cup Reset
    BY <2>1, <1>b DEF CutOff, Reset, Control
  <2>4. \A n \in DOMAIN controls' : n # control' => n \in CutOff' \cup Reset'
    BY <2>1, <2>2, <2>3 DEF ControlsCounted
  <2> QED
    BY <1>a, <2>2, <2>4, NoneEnds
<1>4. ASSUME NEW n \in DOMAIN controls, DaemonHandlesNotice(n) PROVE ControlsCounted'
  <2>1. control' = control /\ nudge' = nudge
    BY <1>4 DEF DaemonHandlesNotice
  <2>2. \A i \in DOMAIN controls : controls'[i].cut = controls[i].cut
                                   /\ controls'[i].relay = controls[i].relay
    BY <1>4, HandlesFacts
  <2>3. Len(controls') = Len(controls)
    BY <1>4, HandlesFacts
  <2> QED
    BY <1>a, <2>1, <2>2, <2>3, EndsKept DEF Ended
<1>5. ASSUME NEW n \in DOMAIN controls, ControlCut(n) PROVE ControlsCounted'
  <2>1. control' = control /\ nudge' = nudge /\ Cardinality(CutOff) < MaxCuts /\ ~controls[n].cut
    BY <1>5 DEF ControlCut, CutOff
  <2>2. /\ \A i \in DOMAIN controls : i # n => controls'[i] = controls[i]
        /\ controls'[n].cut /\ Len(controls') = Len(controls)
    BY <1>5, ControlsCutFacts
  <2>3. DOMAIN controls' = DOMAIN controls
    BY <1>a, <1>b, <2>2, Shape DEF Typed
  <2>4. CutOff' = CutOff \cup {n} /\ Reset' = Reset \ {n} /\ Spent' = Spent
    BY <2>1, <2>2, <2>3 DEF CutOff, Reset, Spent
  <2>5. n \notin CutOff
    BY <2>1 DEF CutOff
  <2>6. Cardinality(CutOff') = Cardinality(CutOff) + 1
    BY <2>4, <2>5, Finite, FS_AddElement
  <2>7. Cardinality(Reset') <= Cardinality(Reset)
    BY <2>4, Finite, FS_Subset
  <2>8. Cardinality(CutOff') <= MaxCuts /\ Cardinality(Reset') <= Cardinality(Spent')
    <3>1. MaxCuts \in Nat
      BY RelayAssumption
    <3>2. Cardinality(Spent') = Cardinality(Spent) /\ Cardinality(Reset) <= Cardinality(Spent)
      BY <2>4 DEF ControlsCounted
    <3> QED
      BY <1>a, <2>1, <2>6, <2>7, <3>1, <3>2, Finite, FiniteAfter
  <2>9. \A i \in DOMAIN controls' : i # control' => i \in CutOff' \cup Reset'
    BY <2>1, <2>3, <2>4 DEF ControlsCounted
  <2> QED
    BY <2>8, <2>9 DEF ControlsCounted
<1>6. ASSUME NEW n \in DOMAIN controls, RelayLosesControl(n) PROVE ControlsCounted'
  <2>1. control' = control /\ nudge' = nudge /\ (controls[n].cut \/ control # n)
    BY <1>6 DEF RelayLosesControl
  <2>2. /\ \A i \in DOMAIN controls : i # n => controls'[i] = controls[i]
        /\ controls'[n].cut = controls[n].cut /\ Ended(controls'[n]) /\ Len(controls') = Len(controls)
    BY <1>6, RelayLosesFacts DEF Ended
  <2> QED
    BY <1>a, <2>1, <2>2, EndsKept
<1>7. ASSUME NEW c \in Conns, ClientConnects(c) \/ NudgeControl(c) \/ ClientLeaves(c)
      PROVE  ControlsCounted'
  <2>1. control' = control
    BY <1>7 DEF ClientConnects, NudgeControl, ClientLeaves
  <2>2. controls' = controls \/ \E notice \in Notice : controls' = notifyControls(notice)
    BY <1>7, NoticeTypes DEF ClientConnects, NudgeControl, ClientLeaves
  <2>3. Spent \subseteq Spent'
    <3>1. nudge' = nudge \/ (nudge[c] # "done" /\ \E t : nudge' = [nudge EXCEPT ![c] = t])
      <4>1. CASE ClientConnects(c)
        BY <4>1 DEF ClientConnects, TimersUnset
      <4>2. CASE NudgeControl(c)
        BY <4>2 DEF NudgeControl
      <4>3. CASE ClientLeaves(c)
        BY <4>3 DEF ClientLeaves
      <4> QED
        BY <1>7, <4>1, <4>2, <4>3
    <3>2. nudge \in [Conns -> {"unset", "first", "second", "done"}]
      BY DEF Typed
    <3> QED
      BY <3>1, <3>2 DEF Spent
  <2>4. /\ Len(controls') = Len(controls)
        /\ \A i \in DOMAIN controls : controls'[i].cut = controls[i].cut
                                      /\ controls'[i].relay = controls[i].relay
    BY <2>2, Notified
  <2> QED
    BY <1>a, <2>1, <2>3, <2>4, EndsKept DEF Ended
<1>8. ASSUME NEW c \in Conns, ResetControl(c) PROVE ControlsCounted'
  <2>1. control' = control /\ nudge[c] = "second" /\ nudge' = [nudge EXCEPT ![c] = "done"]
        /\ (controls' = controls \/ controls' = CloseAtRelay(controls))
    BY <1>8 DEF ResetControl
  <2>2. Spent' = Spent \cup {c} /\ c \notin Spent
    BY <2>1 DEF Spent, Typed
  <2>3. CASE controls' = controls
    BY <1>a, <2>1, <2>2, <2>3, EndsKept
  <2>4. CASE controls' = CloseAtRelay(controls)
    <3>1. /\ Len(controls') = Len(controls)
          /\ \A i \in DOMAIN controls : controls'[i].cut = controls[i].cut
                                        /\ controls'[i].relay = Closing(controls[i].relay)
      BY <1>b, <2>4, ClosedControls
    <3>2. DOMAIN controls' = DOMAIN controls
      BY <1>a, <1>b, <3>1, Shape DEF Typed
    <3>3. \A i \in DOMAIN controls : Ended(controls[i]) => Ended(controls'[i])
      BY <3>1 DEF Ended, Closing
    <3>4. CutOff' = CutOff /\ Reset \subseteq Reset'
      BY <3>1, <3>2, <3>3 DEF CutOff, Reset
    <3>5. Reset' \subseteq Reset \cup {control}
      BY <3>1, <3>2 DEF Reset, CutOff, ControlsCounted
    <3>6. Cardinality(Spent') = Cardinality(Spent) + 1
      BY <2>2, Finite, FS_AddElement
    <3>7. IsFiniteSet(Reset \cup {control})
          /\ Cardinality(Reset \cup {control}) <= Cardinality(Reset) + 1
      <4>1. /\ IsFiniteSet(Reset \cup {control})
            /\ Cardinality(Reset \cup {control}) =
                 IF control \in Reset THEN Cardinality(Reset) ELSE Cardinality(Reset) + 1
        BY Finite, FS_AddElement
      <4> QED
        BY <4>1, Finite
    <3>8. Cardinality(Reset') <= Cardinality(Reset \cup {control})
      BY <3>5, <3>7, FS_Subset
    <3>9. Cardinality(Reset') <= Cardinality(Spent')
      <4>1. Cardinality(Reset \cup {control}) \in Nat
        BY <3>7, FS_CardinalityType
      <4>2. Cardinality(Reset) <= Cardinality(Spent)
        BY DEF ControlsCounted
      <4> QED
        BY <1>a, <3>6, <3>7, <3>8, <4>1, <4>2, Finite, FiniteAfter
    <3>10. \A i \in DOMAIN controls' : i # control' => i \in CutOff' \cup Reset'
      BY <2>1, <3>2, <3>4 DEF ControlsCounted
    <3> QED
      BY <3>4, <3>9, <3>10 DEF ControlsCounted
  <2> QED
    BY <2>1, <2>3, <2>4
<1>9. ASSUME UNCHANGED <<controls, control, nudge>> PROVE ControlsCounted'
  BY <1>a, <1>9, EndsKept
<1>10. CASE UNCHANGED vars
  BY <1>9, <1>10 DEF vars
<1>11. CASE \E c \in Conns :
             \/ ClientSends(c) \/ RelayAcceptsData(c) \/ DataOpenFails(c)
             \/ \E d \in DOMAIN data[c] : DaemonDataClosed(c, d) \/ RelayDataClosed(c, d)
  BY <1>9, <1>11 DEF ClientSends, RelayAcceptsData, DataOpenFails, DaemonDataClosed, RelayDataClosed
<1> QED
  BY <1>1, <1>2, <1>3, <1>4, <1>5, <1>6, <1>7, <1>8, <1>10, <1>11 DEF Next, ControlStep, DataStep
-----------------------------------------------------------------------------
(* What the notices on their way say.                                      *)

LEMMA OrderedEmpty == \A gone : Ordered(<<>>, gone)
BY DEF Ordered

LEMMA OrderedGrows ==
  ASSUME NEW q, NEW gone, NEW more, gone \subseteq more, Ordered(q, gone)
  PROVE  Ordered(q, more)
BY DEF Ordered

LEMMA OrderedAppend ==
  ASSUME NEW q \in Seq(Notice), NEW e \in Notice, NEW gone, NEW more, gone \subseteq more,
         Ordered(q, gone), IF Gone(e) THEN e.ids \subseteq more ELSE e.ids \cap gone = {}
  PROVE  Ordered(Append(q, e), more)
<1> DEFINE t == Append(q, e)
<1>1. /\ Len(t) = Len(q) + 1 /\ t[Len(q) + 1] = e /\ Len(q) \in Nat
      /\ \A i \in 1 .. Len(q) : t[i] = q[i]
  BY Appended
<1> HIDE DEF t
<1> SUFFICES ASSUME NEW j \in 1 .. Len(t)
             PROVE  IF Gone(t[j]) THEN t[j].ids \subseteq more
                    ELSE \A i \in 1 .. j : Gone(t[i]) => t[i].ids \cap t[j].ids = {}
  BY DEF Ordered, t
<1>2. CASE j \in 1 .. Len(q)
  <2>1. \A i \in 1 .. j : i \in 1 .. Len(q)
    BY <1>1, <1>2
  <2>2. IF Gone(q[j]) THEN q[j].ids \subseteq gone
        ELSE \A i \in 1 .. j : Gone(q[i]) => q[i].ids \cap q[j].ids = {}
    BY <1>2 DEF Ordered
  <2> QED
    BY <1>1, <1>2, <2>1, <2>2
<1>3. CASE j = Len(q) + 1
  <2>1. CASE Gone(e)
    BY <1>1, <1>3, <2>1
  <2>2. CASE ~Gone(e)
    <3>1. ASSUME NEW i \in 1 .. j, Gone(t[i]) PROVE t[i].ids \cap e.ids = {}
      <4>1. i \in 1 .. Len(q)
        <5>1. i # Len(q) + 1
          BY <1>1, <2>2, <3>1
        <5> QED
          BY <1>1, <1>3, <5>1
      <4>2. t[i].ids \subseteq gone
        BY <1>1, <3>1, <4>1 DEF Ordered
      <4> QED
        BY <2>2, <4>2
    <3> QED
      BY <1>1, <1>3, <2>2, <3>1
  <2> QED
    BY <2>1, <2>2
<1> QED
  BY <1>1, <1>2, <1>3

LEMMA OrderedTail ==
  ASSUME NEW q \in Seq(Notice), q # <<>>, NEW gone, Ordered(q, gone)
  PROVE  Ordered(Tail(q), gone)
<1> DEFINE t == Tail(q)
<1>1. Len(t) = Len(q) - 1 /\ Len(q) \in Nat /\ \A i \in 1 .. Len(t) : t[i] = q[i + 1]
  BY HeadTailProperties
<1> HIDE DEF t
<1> SUFFICES ASSUME NEW j \in 1 .. Len(t)
             PROVE  IF Gone(t[j]) THEN t[j].ids \subseteq gone
                    ELSE \A i \in 1 .. j : Gone(t[i]) => t[i].ids \cap t[j].ids = {}
  BY DEF Ordered, t
<1>2. j + 1 \in 1 .. Len(q) /\ \A i \in 1 .. j : i + 1 \in 1 .. j + 1 /\ i \in 1 .. Len(t)
  BY <1>1
<1>3. IF Gone(q[j + 1]) THEN q[j + 1].ids \subseteq gone
      ELSE \A i \in 1 .. j + 1 : Gone(q[i]) => q[i].ids \cap q[j + 1].ids = {}
  BY <1>2 DEF Ordered
<1> QED
  BY <1>1, <1>2, <1>3

LEMMA SilentAppend ==
  ASSUME NEW q \in Seq(Notice), NEW e \in Notice, NEW c, Silent(q, c), c \in e.ids => Gone(e)
  PROVE  Silent(Append(q, e), c)
<1>1. /\ Len(Append(q, e)) = Len(q) + 1 /\ Append(q, e)[Len(q) + 1] = e /\ Len(q) \in Nat
      /\ \A i \in 1 .. Len(q) : Append(q, e)[i] = q[i]
  BY Appended
<1>2. \A i \in 1 .. Len(q) + 1 : i \in 1 .. Len(q) \/ i = Len(q) + 1
  BY <1>1
<1> QED
  BY <1>1, <1>2 DEF Silent

LEMMA SilentTail ==
  ASSUME NEW q \in Seq(Notice), q # <<>>, NEW c, Silent(q, c)
  PROVE  Silent(Tail(q), c)
<1>1. Len(Tail(q)) = Len(q) - 1 /\ Len(q) \in Nat /\ \A i \in 1 .. Len(Tail(q)) : Tail(q)[i] = q[i + 1]
  BY HeadTailProperties
<1>2. \A i \in 1 .. Len(Tail(q)) : i + 1 \in 1 .. Len(q)
  BY <1>1
<1> QED
  BY <1>1, <1>2 DEF Silent

(* After a farewell the notices behind it are silent about its clients.    *)
LEMMA SilentBehind ==
  ASSUME NEW q \in Seq(Notice), q # <<>>, NEW gone, Ordered(q, gone), Gone(Head(q)),
         NEW c \in Head(q).ids
  PROVE  Silent(Tail(q), c) /\ c \in gone
<1>1. Len(Tail(q)) = Len(q) - 1 /\ Len(q) \in Nat \ {0} /\ Head(q) = q[1]
      /\ \A i \in 1 .. Len(Tail(q)) : Tail(q)[i] = q[i + 1]
  BY HeadTailProperties, EmptySeq
<1>2. 1 \in 1 .. Len(q)
  BY <1>1
<1>3. ASSUME NEW i \in 1 .. Len(Tail(q)), c \in Tail(q)[i].ids PROVE Gone(Tail(q)[i])
  <2>1. i + 1 \in 1 .. Len(q) /\ 1 \in 1 .. i + 1
    BY <1>1
  <2>2. Gone(q[i + 1]) \/ q[1].ids \cap q[i + 1].ids = {}
    BY <1>1, <2>1 DEF Ordered
  <2> QED
    BY <1>1, <1>3, <2>2
<1> QED
  BY <1>1, <1>2, <1>3 DEF Ordered, Silent

(* A client that is gone stays gone.                                       *)
LEMMA DepartedGrows ==
  ASSUME Typed, [Next]_vars
  PROVE  Departed \subseteq Departed'
<1>1. client \in [Conns -> {"new", "in", "closing", "gone"}]
  BY DEF Typed
<1>2. ASSUME client' = client PROVE Departed \subseteq Departed'
  BY <1>2 DEF Departed
<1>3. ASSUME NEW c \in Conns, NEW t, client[c] # "gone", client' = [client EXCEPT ![c] = t]
      PROVE  Departed \subseteq Departed'
  BY <1>1, <1>3 DEF Departed
<1>4. ASSUME NEW c \in Conns, NEW d \in DOMAIN data[c], RelayDataClosed(c, d)
      PROVE  Departed \subseteq Departed'
  BY <1>1, <1>2, <1>3, <1>4 DEF RelayDataClosed
<1>5. ASSUME NEW c \in Conns, ClientConnects(c) \/ ClientLeaves(c)
      PROVE  Departed \subseteq Departed'
  BY <1>3, <1>5 DEF ClientConnects, ClientLeaves, hasClientSocket
<1>6. CASE ConnectControl \/ RelayAcceptsControl \/ DaemonLosesControl
           \/ \E n \in DOMAIN controls : ControlCut(n) \/ RelayLosesControl(n) \/ DaemonHandlesNotice(n)
  BY <1>2, <1>6 DEF ConnectControl, RelayAcceptsControl, DaemonLosesControl, ControlCut,
                    RelayLosesControl, DaemonHandlesNotice
<1>7. CASE \E c \in Conns :
             \/ NudgeControl(c) \/ ResetControl(c) \/ ClientSends(c) \/ RelayAcceptsData(c)
             \/ DataOpenFails(c) \/ \E d \in DOMAIN data[c] : DaemonDataClosed(c, d)
  BY <1>2, <1>7 DEF NudgeControl, ResetControl, ClientSends, RelayAcceptsData, DataOpenFails,
                    DaemonDataClosed
<1>8. CASE UNCHANGED vars
  BY <1>2, <1>8 DEF vars
<1> QED
  BY <1>4, <1>5, <1>6, <1>7, <1>8 DEF Next, ControlStep, DataStep

(* What is sent to the control sockets.                                    *)
LEMMA Sent ==
  ASSUME Typed, NEW c \in Conns, ClientConnects(c) \/ NudgeControl(c) \/ ClientLeaves(c)
  PROVE  /\ UNCHANGED <<control, entry, farewells>>
         /\ \/ controls' = controls
            \/ \E e \in Notice :
                 /\ controls' = notifyControls(e)
                 /\ IF Gone(e) THEN e.ids \subseteq Departed' ELSE e.ids \cap Departed = {}
<1>1. client \in [Conns -> {"new", "in", "closing", "gone"}]
  BY DEF Typed
<1>2. CASE ClientConnects(c)
  <2> DEFINE e == [type |-> "connected", ids |-> {c}]
  <2>1. e \in Notice /\ ~Gone(e) /\ e.ids \cap Departed = {}
    BY <1>2, NoticeTypes DEF Gone, Departed, ClientConnects
  <2> QED
    BY <1>2, <2>1 DEF ClientConnects
<1>3. CASE NudgeControl(c)
  <2> DEFINE e == [type |-> "sync", ids |-> listConnectedConnectionIds]
  <2>1. e \in Notice /\ ~Gone(e) /\ e.ids \cap Departed = {}
    BY NoticeTypes DEF Gone, Departed, listConnectedConnectionIds, hasClientSocket
  <2> QED
    BY <1>3, <2>1 DEF NudgeControl
<1>4. CASE ClientLeaves(c)
  <2> DEFINE e == [type |-> "disconnected", ids |-> {c}]
  <2>1. e \in Notice /\ Gone(e) /\ e.ids \subseteq Departed'
    BY <1>1, <1>4, NoticeTypes DEF Gone, Departed, ClientLeaves
  <2> QED
    BY <1>4, <2>1 DEF ClientLeaves
<1> QED
  BY <1>2, <1>3, <1>4
LEMMA NoticesTyped ==
  ASSUME Typed
  PROVE  \A n \in DOMAIN controls : controls[n].notices \in Seq(Notice)
<1>1. \A n \in DOMAIN controls : controls[n] \in Control
  BY Shape DEF Typed
<1> QED
  BY <1>1 DEF Control

LEMMA NoticesKeep ==
  ASSUME Typed, NoticesOrdered, [Next]_vars
  PROVE  NoticesOrdered'
<1>a. Typed' /\ Departed \subseteq Departed'
  BY TypedKeeps, DepartedGrows
<1>b. controls \in Seq(Control) /\ DOMAIN controls = 1 .. Len(controls) /\ Len(controls) \in Nat
      /\ DOMAIN controls' = 1 .. Len(controls')
  BY <1>a, Shape DEF Typed
<1>c. \A n \in DOMAIN controls : /\ Ordered(controls[n].notices, Departed)
                                 /\ Ordered(controls[n].notices, Departed')
                                 /\ controls[n].notices \in Seq(Notice)
  BY <1>a, OrderedGrows, NoticesTyped DEF NoticesOrdered
<1>1. ASSUME Len(controls') = Len(controls),
             \A n \in DOMAIN controls : controls'[n].notices = controls[n].notices
      PROVE  NoticesOrdered'
  BY <1>b, <1>c, <1>1 DEF NoticesOrdered
<1>2. CASE ConnectControl
  <2> DEFINE e == [relay |-> "none", cut |-> FALSE, notices |-> <<>>]
  <2>1. <<>> \in Seq(Notice)
    OBVIOUS
  <2>2. e \in Control /\ e.notices = <<>>
    BY <2>1 DEF Control
  <2>3. controls' = Append(controls, e)
    BY <1>2 DEF ConnectControl
  <2> HIDE DEF e
  <2>4. /\ Len(controls') = Len(controls) + 1 /\ controls'[Len(controls) + 1] = e
        /\ \A i \in 1 .. Len(controls) : controls'[i] = controls[i]
    BY <1>b, <2>2, <2>3, Appended
  <2>5. DOMAIN controls' = DOMAIN controls \cup {Len(controls) + 1}
    BY <1>b, <2>4
  <2> QED
    BY <1>b, <1>c, <2>2, <2>4, <2>5, OrderedEmpty DEF NoticesOrdered
<1>3. CASE RelayAcceptsControl
  <2> DEFINE e == [type |-> "sync", ids |-> listConnectedConnectionIds]
  <2>1. ~Gone(e)
    BY DEF Gone
  <2>2. Ordered(<<e>>, Departed')
    <3>1. Len(<<e>>) = 1 /\ <<e>>[1] = e
      OBVIOUS
    <3>2. \A j \in 1 .. 1 : j = 1
      OBVIOUS
    <3> HIDE DEF e
    <3> QED
      BY <2>1, <3>1, <3>2 DEF Ordered
  <2>3. /\ Len(controls') = Len(controls) /\ controls'[control].notices = <<e>>
        /\ \A i \in DOMAIN controls \ {control} : controls'[i].notices = controls[i].notices
    BY <1>3, AcceptsControlFacts
  <2> HIDE DEF e
  <2>4. DOMAIN controls' = DOMAIN controls
    BY <1>b, <2>3
  <2> QED
    BY <1>c, <2>2, <2>3, <2>4 DEF NoticesOrdered
<1>4. CASE DaemonLosesControl
  BY <1>1, <1>4 DEF DaemonLosesControl
<1>5. ASSUME NEW n \in DOMAIN controls, DaemonHandlesNotice(n) PROVE NoticesOrdered'
  <2>1. /\ Len(controls') = Len(controls) /\ controls'[n].notices = Tail(controls[n].notices)
        /\ \A i \in DOMAIN controls : i # n => controls'[i] = controls[i]
        /\ controls[n].notices # <<>>
    BY <1>5, HandlesFacts
  <2>2. Ordered(Tail(controls[n].notices), Departed')
    BY <1>c, <2>1, OrderedTail
  <2>3. DOMAIN controls' = DOMAIN controls
    BY <1>b, <2>1
  <2> QED
    BY <1>c, <2>1, <2>2, <2>3 DEF NoticesOrdered
<1>6. ASSUME NEW n \in DOMAIN controls, ControlCut(n) PROVE NoticesOrdered'
  <2>1. /\ Len(controls') = Len(controls) /\ controls'[n].notices = <<>>
        /\ \A i \in DOMAIN controls : i # n => controls'[i] = controls[i]
    BY <1>6, ControlsCutFacts
  <2>3. DOMAIN controls' = DOMAIN controls
    BY <1>b, <2>1
  <2> QED
    BY <1>c, <2>1, <2>3, OrderedEmpty DEF NoticesOrdered
<1>7. ASSUME NEW n \in DOMAIN controls, RelayLosesControl(n) PROVE NoticesOrdered'
  BY <1>1, <1>7, RelayLosesFacts
<1>8. ASSUME NEW c \in Conns, ClientConnects(c) \/ NudgeControl(c) \/ ClientLeaves(c)
      PROVE  NoticesOrdered'
  <2>1. CASE controls' = controls
    BY <1>1, <2>1
  <2>2. ASSUME NEW e \in Notice, controls' = notifyControls(e),
               IF Gone(e) THEN e.ids \subseteq Departed' ELSE e.ids \cap Departed = {}
        PROVE  NoticesOrdered'
    <3>1. \A n \in DOMAIN controls : Ordered(Append(controls[n].notices, e), Departed')
      BY <1>a, <1>c, <2>2, OrderedAppend
    <3>2. /\ Len(controls') = Len(controls)
          /\ \A n \in DOMAIN controls : \/ controls'[n].notices = controls[n].notices
                                         \/ controls'[n].notices = Append(controls[n].notices, e)
      BY <2>2, Notified
    <3>3. DOMAIN controls' = DOMAIN controls
      BY <1>b, <3>2
    <3>4. \A n \in DOMAIN controls : Ordered(controls'[n].notices, Departed')
      BY <1>c, <3>1, <3>2
    <3> QED
      BY <3>3, <3>4 DEF NoticesOrdered
  <2> QED
    BY <1>8, <2>1, <2>2, Sent
<1>9. ASSUME NEW c \in Conns, ResetControl(c) PROVE NoticesOrdered'
  BY <1>1, <1>9, <1>b, ClosedControls DEF ResetControl
<1>10. CASE UNCHANGED vars
  BY <1>1, <1>10 DEF vars
<1>11. CASE \E c \in Conns :
             \/ ClientSends(c) \/ RelayAcceptsData(c) \/ DataOpenFails(c)
             \/ \E d \in DOMAIN data[c] : DaemonDataClosed(c, d) \/ RelayDataClosed(c, d)
  BY <1>1, <1>11 DEF ClientSends, RelayAcceptsData, DataOpenFails, DaemonDataClosed, RelayDataClosed
<1> QED
  BY <1>2, <1>3, <1>4, <1>5, <1>6, <1>7, <1>8, <1>9, <1>10, <1>11 DEF Next, ControlStep, DataStep

LEMMA FarewellsKeep ==
  ASSUME Typed, NoticesOrdered, FarewellsFinal, [Next]_vars
  PROVE  FarewellsFinal'
<1>a. Typed' /\ Departed \subseteq Departed'
  BY TypedKeeps, DepartedGrows
<1>b. /\ controls \in Seq(Control) /\ DOMAIN controls = 1 .. Len(controls) /\ Len(controls) \in Nat
      /\ control \in 0 .. Len(controls) /\ (control # 0 => control \in DOMAIN controls)
      /\ farewells \subseteq Conns /\ entry \in [Conns -> 0 .. MaxData]
  BY Shape DEF Typed
<1>c. \A n \in DOMAIN controls : controls[n].notices \in Seq(Notice)
  BY NoticesTyped
<1>d. \A c \in farewells : /\ c \in Departed /\ c \in Departed' /\ entry[c] = 0 /\ c \in Conns
                           /\ control # 0 => Silent(controls[control].notices, c)
  BY <1>a, <1>b DEF FarewellsFinal
<1>1. ASSUME farewells' = farewells, control' # 0 => control' = control,
             control' # 0 => controls'[control].notices \in {controls[control].notices, <<>>},
             \A c \in Conns : entry[c] = 0 => entry'[c] = 0
      PROVE  FarewellsFinal'
  <2>1. \A c : Silent(<<>>, c)
    BY DEF Silent
  <2>2. ASSUME NEW c \in farewells, control' # 0 PROVE Silent(controls'[control'].notices, c)
    BY <1>1, <1>d, <2>1, <2>2
  <2> QED
    BY <1>1, <1>d, <2>2 DEF FarewellsFinal
<1>2. CASE ConnectControl
  <2> DEFINE e == [relay |-> "none", cut |-> FALSE, notices |-> <<>>]
  <2>1. <<>> \in Seq(Notice)
    OBVIOUS
  <2>2. e \in Control /\ e.notices = <<>>
    BY <2>1 DEF Control
  <2>3. controls' = Append(controls, e) /\ control' = Len(controls) + 1
        /\ UNCHANGED <<entry, farewells>>
    BY <1>2 DEF ConnectControl
  <2> HIDE DEF e
  <2>4. controls'[control'].notices = <<>>
    BY <1>b, <2>2, <2>3, Appended
  <2>5. \A c : Silent(<<>>, c)
    BY DEF Silent
  <2> QED
    BY <1>d, <2>3, <2>4, <2>5 DEF FarewellsFinal
<1>3. CASE RelayAcceptsControl
  <2> DEFINE e == [type |-> "sync", ids |-> listConnectedConnectionIds]
  <2>1. e.ids \cap Departed = {}
    BY DEF listConnectedConnectionIds, hasClientSocket, Departed
  <2>2. controls'[control].notices = <<e>> /\ control' = control /\ UNCHANGED <<entry, farewells>>
    BY <1>3, AcceptsControlFacts DEF RelayAcceptsControl
  <2> HIDE DEF e
  <2>3. Len(<<e>>) = 1 /\ <<e>>[1] = e /\ \A j \in 1 .. 1 : j = 1
    OBVIOUS
  <2>4. \A c \in Departed : Silent(<<e>>, c)
    BY <2>1, <2>3 DEF Silent
  <2> QED
    BY <1>d, <2>2, <2>4 DEF FarewellsFinal
<1>4. CASE DaemonLosesControl
  BY <1>1, <1>4 DEF DaemonLosesControl
<1>5. ASSUME NEW n \in DOMAIN controls, DaemonHandlesNotice(n) PROVE FarewellsFinal'
  <2> DEFINE q == controls[n].notices
             e == Head(q)
  <2>1. /\ controls'[control].notices = Tail(q) /\ n = control /\ control' = control
        /\ q \in Seq(Notice) /\ q # <<>> /\ control # 0 /\ e \in Notice
    <3>1. controls'[n].notices = Tail(q) /\ q \in Seq(Notice) /\ q # <<>> /\ n = control /\ e \in Notice
      BY <1>5, HandlesFacts
    <3>2. control' = control
      BY <1>5 DEF DaemonHandlesNotice
    <3>3. n # 0
      BY <1>b
    <3> HIDE DEF q, e
    <3> QED
      BY <3>1, <3>2, <3>3
  <2>2. farewells' = IF Gone(e) THEN farewells \cup e.ids ELSE farewells
    BY <1>5 DEF DaemonHandlesNotice, Gone
  <2>3. Ordered(q, Departed)
    BY DEF NoticesOrdered
  <2>4. ASSUME NEW c \in Conns
        PROVE  /\ Gone(e) /\ (c \in e.ids \/ entry[c] = 0) => entry'[c] = 0
               /\ c \notin e.ids /\ entry[c] = 0 => entry'[c] = 0
    BY <1>5, HandlesData
  <2> HIDE DEF q, e
  <2>5. Gone(e) => \A c \in e.ids : Silent(Tail(q), c) /\ c \in Departed
    BY <2>1, <2>3, SilentBehind DEF e
  <2>6. \A c \in farewells : Silent(q, c) /\ Silent(Tail(q), c)
    BY <1>d, <2>1, SilentTail DEF q
  <2>7. \A c \in farewells : c \in e.ids => Gone(e)
    <3>1. Len(q) \in Nat \ {0}
      BY <2>1, EmptySeq
    <3>2. 1 \in 1 .. Len(q) /\ e = q[1]
      BY <2>1, <3>1 DEF e
    <3> QED
      BY <2>6, <3>2 DEF Silent
  <2>8. ASSUME NEW c \in farewells'
        PROVE  c \in Departed' /\ entry'[c] = 0 /\ Silent(Tail(q), c)
    <3>1. CASE c \in farewells
      BY <1>d, <2>4, <2>6, <2>7, <3>1
    <3>2. CASE Gone(e) /\ c \in e.ids
      <4>1. c \in Conns
        BY <2>1, <3>2 DEF Notice
      <4> QED
        BY <1>a, <2>4, <2>5, <3>2, <4>1
    <3> QED
      BY <2>2, <2>8, <3>1, <3>2
  <2> QED
    BY <2>1, <2>8 DEF FarewellsFinal
<1>6. ASSUME NEW n \in DOMAIN controls, ControlCut(n) PROVE FarewellsFinal'
  <2>1. UNCHANGED <<control, entry, farewells>>
    BY <1>6 DEF ControlCut
  <2>2. controls'[n].notices = <<>> /\ \A i \in DOMAIN controls : i # n => controls'[i] = controls[i]
    BY <1>6, ControlsCutFacts
  <2> QED
    BY <1>1, <1>b, <2>1, <2>2
<1>7. ASSUME NEW n \in DOMAIN controls, RelayLosesControl(n) PROVE FarewellsFinal'
  <2>1. UNCHANGED <<control, entry, farewells>>
    BY <1>7 DEF RelayLosesControl
  <2>2. controls'[n].notices = controls[n].notices
        /\ \A i \in DOMAIN controls : i # n => controls'[i] = controls[i]
    BY <1>7, RelayLosesFacts
  <2> QED
    BY <1>1, <1>b, <2>1, <2>2
<1>8. ASSUME NEW c \in Conns, ClientConnects(c) \/ NudgeControl(c) \/ ClientLeaves(c)
      PROVE  FarewellsFinal'
  <2>0. UNCHANGED <<control, entry, farewells>>
    BY <1>8, Sent
  <2>1. CASE controls' = controls
    BY <1>1, <2>0, <2>1
  <2>2. ASSUME NEW e \in Notice, controls' = notifyControls(e),
               IF Gone(e) THEN e.ids \subseteq Departed' ELSE e.ids \cap Departed = {}
        PROVE  FarewellsFinal'
    <3>1. ASSUME NEW x \in farewells, control # 0 PROVE Silent(controls'[control].notices, x)
      <4>1. x \in e.ids => Gone(e)
        BY <1>d, <2>2
      <4>2. control \in DOMAIN controls /\ controls[control].notices \in Seq(Notice)
            /\ Silent(controls[control].notices, x)
        BY <1>b, <1>c, <1>d, <3>1
      <4>3. Silent(Append(controls[control].notices, e), x)
        BY <4>1, <4>2, SilentAppend
      <4> QED
        BY <2>2, <4>2, <4>3, Notified
    <3> QED
      BY <1>d, <2>0, <3>1 DEF FarewellsFinal
  <2> QED
    BY <1>8, <2>1, <2>2, Sent
<1>9. ASSUME NEW c \in Conns, ResetControl(c) PROVE FarewellsFinal'
  <2>1. UNCHANGED <<control, entry, farewells>>
        /\ (controls' = controls \/ controls' = CloseAtRelay(controls))
    BY <1>9 DEF ResetControl
  <2>2. control # 0 => controls'[control].notices = controls[control].notices
    BY <1>b, <2>1, ClosedControls
  <2> QED
    BY <1>1, <2>1, <2>2
<1>10. CASE UNCHANGED vars
  BY <1>1, <1>10 DEF vars
<1>11. ASSUME NEW c \in Conns,
              \/ ClientSends(c) \/ RelayAcceptsData(c) \/ DataOpenFails(c)
              \/ \E d \in DOMAIN data[c] : DaemonDataClosed(c, d) \/ RelayDataClosed(c, d)
       PROVE  FarewellsFinal'
  <2>1. UNCHANGED <<control, controls, farewells>>
    BY <1>11 DEF ClientSends, RelayAcceptsData, DataOpenFails, DaemonDataClosed, RelayDataClosed
  <2>2. entry' = entry \/ entry' = [entry EXCEPT ![c] = 0]
    BY <1>11, <1>b DEF ClientSends, RelayAcceptsData, DataOpenFails, DaemonDataClosed, RelayDataClosed
  <2>3. \A x \in Conns : entry[x] = 0 => entry'[x] = 0
    BY <1>b, <2>2
  <2> QED
    BY <1>1, <2>1, <2>3
<1> QED
  BY <1>2, <1>3, <1>4, <1>5, <1>6, <1>7, <1>8, <1>9, <1>10, <1>11 DEF Next, ControlStep, DataStep
-----------------------------------------------------------------------------
(* The frames of a client.                                                 *)

LEMMA RunEmpty == Run(<<>>) /\ \A n : UpTo(<<>>, n)
BY DEF Run, UpTo

LEMMA RunAppend ==
  ASSUME NEW r \in Seq(Nat), NEW n \in Nat, Run(r), UpTo(r, n)
  PROVE  Run(Append(r, n + 1)) /\ UpTo(Append(r, n + 1), n + 1)
<1> DEFINE t == Append(r, n + 1)
<1>1. /\ t \in Seq(Nat) /\ Len(t) = Len(r) + 1 /\ t[Len(r) + 1] = n + 1 /\ Len(r) \in Nat
      /\ \A i \in 1 .. Len(r) : t[i] = r[i]
  BY Appended
<1> HIDE DEF t
<1>2. UpTo(t, n + 1)
  BY <1>1 DEF UpTo
<1>3. ASSUME NEW i \in 1 .. Len(t) - 1 PROVE t[i + 1] = t[i] + 1
  <2>1. CASE i = Len(r)
    <3>1. r # <<>> /\ i \in 1 .. Len(r)
      BY <1>1, <2>1
    <3>2. r[Len(r)] = n
      BY <3>1 DEF UpTo
    <3> QED
      BY <1>1, <2>1, <3>1, <3>2
  <2>2. CASE i # Len(r)
    <3>1. i \in 1 .. Len(r) - 1 /\ i \in 1 .. Len(r) /\ i + 1 \in 1 .. Len(r)
      BY <1>1, <2>2
    <3> QED
      BY <1>1, <3>1 DEF Run
  <2> QED
    BY <2>1, <2>2
<1> QED
  BY <1>2, <1>3 DEF Run, t

LEMMA RunTail ==
  ASSUME NEW r \in Seq(Nat), NEW n, r # <<>>, Run(r), UpTo(r, n)
  PROVE  Run(Tail(r)) /\ UpTo(Tail(r), n)
<1> DEFINE t == Tail(r)
<1>1. /\ t \in Seq(Nat) /\ Len(t) = Len(r) - 1 /\ Len(r) \in Nat \ {0} /\ Len(t) \in Nat
      /\ \A i \in 1 .. Len(t) : t[i] = r[i + 1]
  BY HeadTailProperties, EmptySeq
<1> HIDE DEF t
<1>2. ASSUME t # <<>> PROVE t[Len(t)] = n
  <2>1. Len(t) \in 1 .. Len(t)
    BY <1>1, <1>2
  <2>2. t[Len(t)] = r[Len(t) + 1] /\ Len(t) + 1 = Len(r)
    BY <1>1, <2>1
  <2> QED
    BY <2>2 DEF UpTo
<1>3. ASSUME NEW i \in 1 .. Len(t) - 1 PROVE t[i + 1] = t[i] + 1
  <2>1. i \in 1 .. Len(t) /\ i + 1 \in 1 .. Len(t) /\ i + 1 \in 1 .. Len(r) - 1
    BY <1>1
  <2>2. t[i] = r[i + 1] /\ t[i + 1] = r[i + 1 + 1]
    BY <1>1, <2>1
  <2> QED
    BY <2>1, <2>2 DEF Run
<1> QED
  BY <1>2, <1>3 DEF Run, UpTo, t

LEMMA FramesTyped ==
  ASSUME Typed, NEW c \in Conns
  PROVE  /\ pending[c] \in Seq(Nat) /\ sent[c] \in Nat /\ DOMAIN data[c] = 1 .. Len(data[c])
         /\ Len(data[c]) \in Nat /\ \A d \in DOMAIN data[c] : data[c][d].received \in Seq(Nat)
<1>1. 1 .. MaxFrames \subseteq Nat /\ sent[c] \in Nat
  BY RelayAssumption DEF Typed
<1>2. pending[c] \in Seq(1 .. MaxFrames) /\ data[c] \in Seq(Data)
  BY DEF Typed
<1>a. \A d \in DOMAIN data[c] : data[c][d] \in Data
  BY <1>2, Shape
<1>3. \A d \in DOMAIN data[c] : data[c][d].received \in Seq(1 .. MaxFrames)
  BY <1>a DEF Data
<1>4. \A r \in Seq(1 .. MaxFrames) : r \in Seq(Nat)
  BY <1>1, SeqMonotonic
<1> QED
  BY <1>1, <1>2, <1>3, <1>4, Shape

(* A client whose sockets receive nothing and none of which opens.         *)
LEMMA FramesStay ==
  ASSUME Typed, Typed', NEW c \in Conns, FramesOf(c), sent'[c] = sent[c],
         pending'[c] = pending[c] \/ pending'[c] = <<>>, Len(data'[c]) = Len(data[c]),
         \A d \in DOMAIN data[c] : /\ data'[c][d].received = data[c][d].received
                                   /\ data'[c][d].relay \in Listed => data[c][d].relay \in Listed
                                   /\ Forwarded(data'[c][d]) => Forwarded(data[c][d])
  PROVE  FramesOf(c)'
<1>1. DOMAIN data'[c] = DOMAIN data[c]
  <2>1. data[c] \in Seq(Data) /\ data'[c] \in Seq(Data)
    BY DEF Typed
  <2> QED
    BY <2>1, Shape
<1>2. hasServerDataSocket(c)' => hasServerDataSocket(c)
  BY <1>1 DEF hasServerDataSocket
<1>3. (hasServerDataSocket(c) => pending[c] = <<>>) /\ Run(pending[c]) /\ UpTo(pending[c], sent[c])
      /\ \A d \in DOMAIN data[c] : /\ Run(data[c][d].received)
                                    /\ Forwarded(data[c][d]) => UpTo(data[c][d].received, sent[c])
  BY DEF FramesOf
<1>4. Run(pending'[c]) /\ UpTo(pending'[c], sent'[c])
  BY <1>3, RunEmpty
<1>5. hasServerDataSocket(c)' => pending'[c] = <<>>
  BY <1>2, <1>3
<1>6. \A d \in DOMAIN data'[c] : /\ Run(data'[c][d].received)
                                 /\ Forwarded(data'[c][d]) => UpTo(data'[c][d].received, sent'[c])
  <2> TAKE d \in DOMAIN data'[c]
  <2>1. d \in DOMAIN data[c] /\ data'[c][d].received = data[c][d].received
        /\ (Forwarded(data'[c][d]) => Forwarded(data[c][d]))
    BY <1>1
  <2>2. Run(data[c][d].received)
        /\ (Forwarded(data[c][d]) => UpTo(data[c][d].received, sent[c]))
    <3>1. d \in DOMAIN data[c]
      BY <2>1
    <3> QED
      BY <3>1 DEF FramesOf
  <2> QED
    BY <2>1, <2>2
<1> QED
  BY <1>4, <1>5, <1>6 DEF FramesOf
LEMMA FramesSame ==
  ASSUME Typed, Typed', NEW c \in Conns, FramesOf(c), sent'[c] = sent[c],
         pending'[c] = pending[c], data'[c] = data[c]
  PROVE  FramesOf(c)'
BY FramesStay

(* A data socket of c is changed at one end.                               *)
LEMMA FramesOneSocket ==
  ASSUME Typed, Typed', NEW c \in Conns, FramesOf(c), sent'[c] = sent[c], pending'[c] = pending[c],
         NEW d \in DOMAIN data[c], NEW e \in Data, e.received = data[c][d].received,
         (e.relay = data[c][d].relay /\ e.daemon = "closed") \/ e.relay = "closed",
         data'[c] = [data[c] EXCEPT ![d] = e]
  PROVE  FramesOf(c)'
<1>1. data[c] \in Seq(Data) /\ d \in 1 .. Len(data[c])
  BY Shape DEF Typed
<1>2. Len(data'[c]) = Len(data[c]) /\ data'[c][d] = e
      /\ \A i \in DOMAIN data[c] : i # d => data'[c][i] = data[c][i]
  BY <1>1, DataChanged
<1>3. ~Forwarded(e) /\ (e.relay \in Listed => data[c][d].relay \in Listed)
  BY DEF Forwarded, Listed
<1>4. \A i \in DOMAIN data[c] : /\ data'[c][i].received = data[c][i].received
                                /\ data'[c][i].relay \in Listed => data[c][i].relay \in Listed
                                /\ Forwarded(data'[c][i]) => Forwarded(data[c][i])
  BY <1>2, <1>3
<1> QED
  BY <1>2, <1>4, FramesStay

(* A data socket for c is opened by the daemon.                            *)
LEMMA FramesFresh ==
  ASSUME Typed, Typed', NEW c \in Conns, FramesOf(c), sent'[c] = sent[c], pending'[c] = pending[c],
         data'[c] = Append(data[c], Fresh)
  PROVE  FramesOf(c)'
<1>1. data[c] \in Seq(Data) /\ data'[c] \in Seq(Data)
  BY DEF Typed
<1>2. /\ Len(data'[c]) = Len(data[c]) + 1 /\ Len(data[c]) \in Nat
      /\ data'[c][Len(data[c]) + 1] = Fresh
      /\ \A i \in 1 .. Len(data[c]) : data'[c][i] = data[c][i]
  BY <1>1, FreshTyped, Appended
<1>3. DOMAIN data[c] = 1 .. Len(data[c]) /\ DOMAIN data'[c] = DOMAIN data[c] \cup {Len(data[c]) + 1}
  BY <1>1, <1>2, Shape
<1>4. ~Forwarded(Fresh) /\ Fresh.relay \notin Listed /\ Fresh.received = <<>>
  BY DEF Forwarded, Listed, Fresh
<1>5. hasServerDataSocket(c)' => hasServerDataSocket(c)
  BY <1>2, <1>3, <1>4 DEF hasServerDataSocket
<1>6. ASSUME NEW d \in DOMAIN data'[c]
      PROVE  /\ Run(data'[c][d].received)
             /\ Forwarded(data'[c][d]) => UpTo(data'[c][d].received, sent'[c])
  <2>1. CASE d \in DOMAIN data[c]
    <3>1. data'[c][d] = data[c][d]
      BY <1>2, <1>3, <2>1
    <3>2. Run(data[c][d].received)
          /\ (Forwarded(data[c][d]) => UpTo(data[c][d].received, sent[c]))
      BY <2>1 DEF FramesOf
    <3> QED
      BY <3>1, <3>2
  <2>2. CASE d = Len(data[c]) + 1
    BY <1>2, <1>4, <2>2, RunEmpty
  <2> QED
    BY <1>3, <2>1, <2>2
<1> QED
  BY <1>5, <1>6 DEF FramesOf

(* A frame is forwarded, or buffered.                                      *)
LEMMA FramesSends ==
  ASSUME Typed, Typed', NEW c \in Conns, FramesOf(c), ClientSends(c)
  PROVE  FramesOf(c)'
<1>0. /\ sent'[c] = sent[c] + 1 /\ sent[c] \in Nat /\ pending[c] \in Seq(Nat)
      /\ data[c] \in Seq(Data) /\ data'[c] \in Seq(Data)
      /\ \A d \in DOMAIN data[c] : data[c][d].received \in Seq(Nat)
  BY FramesTyped DEF Typed, ClientSends
<1>1. CASE hasServerDataSocket(c)
  <2>1. /\ Len(data'[c]) = Len(data[c])
        /\ \A i \in DOMAIN data[c] :
             /\ data'[c][i].relay = data[c][i].relay /\ data'[c][i].daemon = data[c][i].daemon
             /\ data'[c][i].received =
                  IF Forwarded(data[c][i]) THEN Append(data[c][i].received, sent[c] + 1)
                  ELSE data[c][i].received
    BY <1>1, SendsFacts
  <2>2. DOMAIN data'[c] = DOMAIN data[c]
    BY <1>0, <2>1, Shape
  <2>3. pending[c] = <<>> /\ pending'[c] = <<>>
    BY <1>1 DEF FramesOf, ClientSends
  <2>4. ASSUME NEW d \in DOMAIN data'[c]
        PROVE  /\ Run(data'[c][d].received)
               /\ Forwarded(data'[c][d]) => UpTo(data'[c][d].received, sent'[c])
    <3>1. d \in DOMAIN data[c] /\ (Forwarded(data'[c][d]) <=> Forwarded(data[c][d]))
      BY <2>1, <2>2 DEF Forwarded
    <3>2. Run(data[c][d].received)
          /\ (Forwarded(data[c][d]) => UpTo(data[c][d].received, sent[c]))
      BY <3>1 DEF FramesOf
    <3>3. CASE Forwarded(data[c][d])
      <4>1. data'[c][d].received = Append(data[c][d].received, sent[c] + 1)
        BY <2>1, <3>1, <3>3
      <4> QED
        BY <1>0, <3>1, <3>2, <3>3, <4>1, RunAppend
    <3>4. CASE ~Forwarded(data[c][d])
      BY <2>1, <3>1, <3>2, <3>4
    <3> QED
      BY <3>3, <3>4
  <2> QED
    BY <2>3, <2>4, RunEmpty DEF FramesOf
<1>2. CASE ~hasServerDataSocket(c)
  <2>1. PICK t \in Seq(1 .. MaxFrames) :
          /\ t = pending[c] \/ (pending[c] # <<>> /\ t = Tail(pending[c]))
          /\ bufferFrame(pending[c], sent[c] + 1) = Append(t, sent[c] + 1)
    BY <1>2, SendsBuffer
  <2>2. data' = data /\ pending'[c] = Append(t, sent[c] + 1)
    <3>1. pending \in [Conns -> Seq(1 .. MaxFrames)]
      BY DEF Typed
    <3> QED
      BY <1>2, <2>1, <3>1, SendsBuffer
  <2>3. Run(t) /\ UpTo(t, sent[c]) /\ t \in Seq(Nat)
    <3>1. Run(pending[c]) /\ UpTo(pending[c], sent[c])
      BY DEF FramesOf
    <3>2. pending[c] # <<>> => Tail(pending[c]) \in Seq(Nat)
      BY <1>0, HeadTailProperties
    <3> QED
      BY <1>0, <2>1, <3>1, <3>2, RunTail
  <2>4. Run(pending'[c]) /\ UpTo(pending'[c], sent'[c])
    BY <1>0, <2>2, <2>3, RunAppend
  <2>5. ~hasServerDataSocket(c)' /\ \A d \in DOMAIN data[c] : ~Forwarded(data[c][d])
    BY <1>2, <2>2 DEF hasServerDataSocket, Forwarded, Listed
  <2>6. \A d \in DOMAIN data[c] : Run(data[c][d].received)
    BY DEF FramesOf
  <2> QED
    BY <2>2, <2>4, <2>5, <2>6 DEF FramesOf
<1> QED
  BY <1>1, <1>2

(* A data socket gets the frames that waited for it.                       *)
LEMMA FramesFlush ==
  ASSUME Typed, Typed', NEW c \in Conns, c \notin unflushed', FramesOf(c), RelayAcceptsData(c)
  PROVE  FramesOf(c)'
<1>1. PICK e \in Data :
        /\ entry[c] \in DOMAIN data[c]
        /\ Opens(c, entry[c], e) /\ sent' = sent
        /\ e.received = pending[c] /\ pending' = [pending EXCEPT ![c] = <<>>]
  BY AcceptsDataFacts
<1>2. /\ Len(data'[c]) = Len(data[c]) /\ data'[c][entry[c]] = e
      /\ \A i \in DOMAIN data[c] :
           i # entry[c] => /\ data'[c][i].relay = Closing(data[c][i].relay)
                           /\ data'[c][i].received = data[c][i].received
  BY <1>1, Opened
<1>3. DOMAIN data'[c] = DOMAIN data[c]
  <2>1. data[c] \in Seq(Data) /\ data'[c] \in Seq(Data)
    BY DEF Typed
  <2> QED
    BY <1>2, <2>1, Shape
<1>4. pending'[c] = <<>>
  <2>1. pending \in [Conns -> Seq(1 .. MaxFrames)]
    BY DEF Typed
  <2> QED
    BY <1>1, <2>1
<1>5. Run(pending[c]) /\ UpTo(pending[c], sent[c])
  BY DEF FramesOf
<1>6. ASSUME NEW d \in DOMAIN data'[c]
      PROVE  /\ Run(data'[c][d].received)
             /\ Forwarded(data'[c][d]) => UpTo(data'[c][d].received, sent'[c])
  <2>1. CASE d = entry[c]
    BY <1>1, <1>2, <1>5, <2>1
  <2>2. CASE d # entry[c]
    <3>1. ~Forwarded(data'[c][d]) /\ data'[c][d].received = data[c][d].received
      BY <1>2, <1>3, <2>2 DEF Forwarded, Closing
    <3>2. Run(data[c][d].received)
      BY <1>3 DEF FramesOf
    <3> QED
      BY <3>1, <3>2
  <2> QED
    BY <2>1, <2>2
<1> QED
  BY <1>4, <1>6, RunEmpty DEF FramesOf

LEMMA FramesKeep ==
  ASSUME Typed, FramesRun, [Next]_vars
  PROVE  FramesRun'
<1>a. Typed'
  BY TypedKeeps
<1>b. /\ data \in [Conns -> Seq(Data)] /\ pending \in [Conns -> Seq(1 .. MaxFrames)]
      /\ sent \in [Conns -> 0 .. MaxFrames]
  BY DEF Typed
<1>1. ASSUME UNCHANGED <<sent, pending, data, unflushed>> PROVE FramesRun'
  BY <1>a, <1>1, FramesSame DEF FramesRun
<1>2. ASSUME NEW c \in Conns, unflushed \subseteq unflushed',
             \A x \in Conns : x # c => /\ sent'[x] = sent[x] /\ pending'[x] = pending[x]
                                       /\ data'[x] = data[x],
             c \notin unflushed' => FramesOf(c)'
      PROVE  FramesRun'
  <2>1. ASSUME NEW x \in Conns \ unflushed' PROVE FramesOf(x)'
    <3>1. FramesOf(x)
      BY <1>2 DEF FramesRun
    <3>2. x # c => FramesOf(x)'
      BY <1>a, <1>2, <3>1, FramesSame
    <3> QED
      BY <1>2, <3>2
  <2> QED
    BY <2>1 DEF FramesRun
<1>3. ASSUME NEW n \in DOMAIN controls, DaemonHandlesNotice(n) PROVE FramesRun'
  <2>1. UNCHANGED <<sent, pending, unflushed>>
    BY <1>3 DEF DaemonHandlesNotice
  <2>2. ASSUME NEW c \in Conns \ unflushed PROVE FramesOf(c)'
    <3>1. FramesOf(c)
      BY DEF FramesRun
    <3>2. CASE data'[c] = data[c]
      BY <1>a, <2>1, <3>1, <3>2, FramesSame
    <3>3. ASSUME entry[c] \in DOMAIN data[c], NEW e \in Data,
                 e.relay = data[c][entry[c]].relay, e.daemon = "closed",
                 e.received = data[c][entry[c]].received,
                 data'[c] = [data[c] EXCEPT ![entry[c]] = e]
          PROVE  FramesOf(c)'
      BY <1>a, <2>1, <3>1, <3>3, FramesOneSocket
    <3>4. CASE data'[c] = Append(data[c], Fresh)
      BY <1>a, <2>1, <3>1, <3>4, FramesFresh
    <3> QED
      BY <1>3, <3>2, <3>3, <3>4, HandlesData
  <2> QED
    BY <2>1, <2>2 DEF FramesRun
<1>4. ASSUME NEW c \in Conns, ClientSends(c) PROVE FramesRun'
  <2>1. /\ unflushed' = unflushed
        /\ \A x \in Conns : x # c => /\ sent'[x] = sent[x] /\ pending'[x] = pending[x]
                                      /\ data'[x] = data[x]
    BY <1>4, <1>b DEF ClientSends
  <2>2. c \notin unflushed => FramesOf(c)'
    BY <1>a, <1>4, FramesSends DEF FramesRun
  <2> QED
    BY <1>2, <2>1, <2>2
<1>5. ASSUME NEW c \in Conns, ClientLeaves(c) PROVE FramesRun'
  <2>1. /\ unflushed' = unflushed /\ sent' = sent /\ pending' = [pending EXCEPT ![c] = <<>>]
        /\ \A x \in Conns : x # c => /\ pending'[x] = pending[x] /\ data'[x] = data[x]
    BY <1>5, <1>b DEF ClientLeaves
  <2>2. /\ Len(data'[c]) = Len(data[c])
        /\ \A i \in DOMAIN data[c] : /\ data'[c][i].relay = Closing(data[c][i].relay)
                                     /\ data'[c][i].received = data[c][i].received
    BY <1>5, LeavesFacts
  <2>3. \A i \in DOMAIN data[c] :
          /\ data'[c][i].relay \in Listed => data[c][i].relay \in Listed
          /\ ~Forwarded(data'[c][i])
    BY <2>2 DEF Closing, Listed, Forwarded
  <2>4. pending'[c] = <<>>
    BY <1>b, <2>1
  <2>5. c \notin unflushed => FramesOf(c)'
    BY <1>a, <2>1, <2>2, <2>3, <2>4, FramesStay DEF FramesRun
  <2> QED
    BY <1>2, <2>1, <2>5
<1>6. ASSUME NEW c \in Conns, RelayAcceptsData(c) PROVE FramesRun'
  <2>1. unflushed \subseteq unflushed' /\ sent' = sent
        /\ \A x \in Conns : x # c => /\ pending'[x] = pending[x] /\ data'[x] = data[x]
    BY <1>6, <1>b DEF RelayAcceptsData, Flush, FlushFails
  <2>2. c \notin unflushed' => FramesOf(c)'
    BY <1>a, <1>6, <2>1, FramesFlush DEF FramesRun
  <2> QED
    BY <1>2, <2>1, <2>2
<1>7. ASSUME NEW c \in Conns, NEW d \in DOMAIN data[c], NEW e \in Data,
             e.received = data[c][d].received,
             (e.relay = data[c][d].relay /\ e.daemon = "closed") \/ e.relay = "closed",
             data' = [data EXCEPT ![c] = [data[c] EXCEPT ![d] = e]],
             UNCHANGED <<sent, pending, unflushed>>
      PROVE  FramesRun'
  <2>1. data'[c] = [data[c] EXCEPT ![d] = e] /\ \A x \in Conns : x # c => data'[x] = data[x]
    BY <1>b, <1>7
  <2>2. c \notin unflushed => FramesOf(c)'
    BY <1>a, <1>7, <2>1, FramesOneSocket DEF FramesRun
  <2> QED
    BY <1>2, <1>7, <2>1, <2>2
<1>8. ASSUME NEW c \in Conns, DataOpenFails(c) PROVE FramesRun'
  <2>1. UNCHANGED <<sent, pending, unflushed>>
    BY <1>8 DEF DataOpenFails
  <2> QED
    BY <1>7, <1>8, <2>1, OpenFailsFacts
<1>9. ASSUME NEW c \in Conns, NEW d \in DOMAIN data[c], DaemonDataClosed(c, d) PROVE FramesRun'
  <2>1. UNCHANGED <<sent, pending, unflushed>>
    BY <1>9 DEF DaemonDataClosed
  <2> QED
    BY <1>7, <1>9, <2>1, DaemonClosedFacts
<1>10. ASSUME NEW c \in Conns, NEW d \in DOMAIN data[c], RelayDataClosed(c, d) PROVE FramesRun'
  <2>1. UNCHANGED <<sent, pending, unflushed>>
    BY <1>10 DEF RelayDataClosed
  <2> QED
    BY <1>7, <1>10, <2>1, RelayClosedFacts
<1>11. CASE ConnectControl \/ RelayAcceptsControl \/ DaemonLosesControl
           \/ \E n \in DOMAIN controls : ControlCut(n) \/ RelayLosesControl(n)
  BY <1>1, <1>11 DEF ConnectControl, RelayAcceptsControl, DaemonLosesControl, ControlCut,
                     RelayLosesControl
<1>12. CASE \E c \in Conns : ClientConnects(c) \/ NudgeControl(c) \/ ResetControl(c)
  BY <1>1, <1>12 DEF ClientConnects, NudgeControl, ResetControl
<1>13. CASE UNCHANGED vars
  BY <1>1, <1>13 DEF vars
<1> QED
  BY <1>3, <1>4, <1>5, <1>6, <1>8, <1>9, <1>10, <1>11, <1>12, <1>13 DEF Next, ControlStep, DataStep

-----------------------------------------------------------------------------
(* The theorems.                                                           *)

LEMMA InvHolds == Spec => []Inv
<1>1. Init => Inv
  <2> SUFFICES ASSUME Init PROVE Inv
    OBVIOUS
  <2>0. <<>> \in Seq(1 .. MaxFrames) /\ <<>> \in Seq(Data) /\ <<>> \in Seq(Control)
        /\ Len(<<>>) = 0 /\ DOMAIN <<>> = {}
    OBVIOUS
  <2>a. 0 \in 0 .. MaxFrames /\ 0 \in 0 .. MaxData /\ 0 \in 0 .. MaxFailures /\ 0 \in 0 .. 0
        /\ 0 <= MaxData /\ 0 <= BufferLimit /\ 0 <= MaxCuts
    BY RelayAssumption
  <2>1. Typed
    BY <2>0, <2>a DEF Init, Typed
  <2>2. TimersUnset
    BY DEF Init, TimersUnset
  <2>3. CutOff = {} /\ Reset = {} /\ Spent = {} /\ DOMAIN controls = {}
    BY <2>0 DEF Init, CutOff, Reset, Spent
  <2>4. ControlsCounted
    BY <2>3, <2>a, FS_EmptySet DEF ControlsCounted
  <2>5. NoticesOrdered /\ FarewellsFinal
    BY <2>3 DEF NoticesOrdered, FarewellsFinal, Init
  <2>6. FramesRun
    BY <2>0, RunEmpty DEF FramesRun, FramesOf, Init, hasServerDataSocket
  <2> QED
    BY <2>1, <2>2, <2>4, <2>5, <2>6 DEF Inv
<1>2. Inv /\ [Next]_vars => Inv'
  <2> SUFFICES ASSUME Inv, [Next]_vars PROVE Inv'
    OBVIOUS
  <2> QED
    BY TypedKeeps, TimersKeep, CountKeeps, NoticesKeep, FarewellsKeep, FramesKeep DEF Inv
<1> QED
  BY <1>1, <1>2, PTL DEF Spec

(* The variables keep their types and their bounds.  In particular the     *)
(* daemon opens no more control sockets than there are cuts and resets of  *)
(* a client, and one, however they interleave, and the buffer of a client  *)
(* never holds more than its limit.                                        *)
THEOREM TypeCorrect == Spec => []TypeOK
<1>1. Inv => TypeOK
  <2> SUFFICES ASSUME Inv PROVE TypeOK
    OBVIOUS
  <2>1. Typed /\ ControlsCounted
    BY DEF Inv
  <2>2. DOMAIN controls \subseteq (CutOff \cup Reset) \cup {control}
    BY <2>1 DEF ControlsCounted
  <2>3. /\ IsFiniteSet(CutOff \cup Reset)
        /\ Cardinality(CutOff \cup Reset) <= Cardinality(CutOff) + Cardinality(Reset)
    <3>1. /\ IsFiniteSet(CutOff \cup Reset)
          /\ Cardinality(CutOff \cup Reset)
               = Cardinality(CutOff) + Cardinality(Reset) - Cardinality(CutOff \cap Reset)
      BY <2>1, Finite, FS_Union
    <3>2. IsFiniteSet(CutOff \cap Reset)
      BY <2>1, Finite, FS_Subset
    <3>3. Cardinality(CutOff \cap Reset) \in Nat
      BY <3>2, FS_CardinalityType
    <3> QED
      BY <2>1, <3>1, <3>3, Finite
  <2>4. /\ IsFiniteSet((CutOff \cup Reset) \cup {control})
        /\ Cardinality((CutOff \cup Reset) \cup {control}) <= Cardinality(CutOff \cup Reset) + 1
    <3>1. /\ IsFiniteSet((CutOff \cup Reset) \cup {control})
          /\ Cardinality((CutOff \cup Reset) \cup {control})
               = IF control \in CutOff \cup Reset THEN Cardinality(CutOff \cup Reset)
                 ELSE Cardinality(CutOff \cup Reset) + 1
      BY <2>3, FS_AddElement
    <3>2. Cardinality(CutOff \cup Reset) \in Nat
      BY <2>3, FS_CardinalityType
    <3> QED
      BY <3>1, <3>2
  <2>5. Cardinality(DOMAIN controls) <= Cardinality((CutOff \cup Reset) \cup {control})
    BY <2>2, <2>4, FS_Subset
  <2>6. Len(controls) <= MaxControls
    <3>1. Cardinality(CutOff) <= MaxCuts /\ Cardinality(Reset) <= Cardinality(Spent)
      BY <2>1 DEF ControlsCounted
    <3>2. Cardinality(CutOff \cup Reset) \in Nat
          /\ Cardinality((CutOff \cup Reset) \cup {control}) \in Nat /\ MaxCuts \in Nat
      BY <2>3, <2>4, FS_CardinalityType, RelayAssumption
    <3>3. /\ Cardinality(DOMAIN controls) = Len(controls) /\ Len(controls) \in Nat
          /\ Cardinality(CutOff) \in Nat /\ Cardinality(Reset) \in Nat
          /\ Cardinality(Spent) \in Nat /\ Cardinality(Spent) <= Cardinality(Conns)
          /\ Cardinality(Conns) \in Nat
      BY <2>1, Finite
    <3> QED
      BY <2>3, <2>4, <2>5, <3>1, <3>2, <3>3 DEF MaxControls
  <2> QED
    BY <2>1, <2>6 DEF Typed, TypeOK
<1> QED BY <1>1, InvHolds, PTL

(* Once the daemon was told that a client is gone it keeps and opens no    *)
(* data socket for it: no list or notice is behind the farewell on the     *)
(* same control socket that names the client, and a new control socket     *)
(* starts with a list that does not.                                       *)
THEOREM FarewellsHold == Spec => []FarewellIsFinal
<1>1. Inv => FarewellIsFinal
  BY DEF Inv, FarewellsFinal, FarewellIsFinal
<1> QED BY <1>1, InvHolds, PTL

(* The daemon reads the frames of a client without a gap, for any limit of *)
(* the buffer and any number of data sockets, unless a flush failed.       *)
THEOREM FramesWithoutGap == Spec => []FramesContiguous
<1>1. Inv => FramesContiguous
  BY DEF Inv, FramesRun, FramesOf, Run, FramesContiguous
<1> QED BY <1>1, InvHolds, PTL
=============================================================================
