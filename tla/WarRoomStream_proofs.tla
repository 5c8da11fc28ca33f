------------------------ MODULE WarRoomStream_proofs ------------------------
(***************************************************************************)
(* Proofs about WarRoomStream, for every number of connections, every      *)
(* queue length, drain size, rate limit, poll interval and watch list.     *)
(***************************************************************************)
EXTENDS WarRoomStream, TLAPS

(***************************************************************************)
(* Type correctness.                                                       *)
(***************************************************************************)
Pcs == {"gone", "node", "nodes", "alert", "alerts", "fp", "body", "rest"}

Fps == [version : Int, log : Int]

ClientType == [pc : Pcs, hand : Seq(Event), count : 0..MaxEps, age : 0..2,
               lastFp : Fps, seen : Int]

TypeInv ==
    /\ queue \in [Lanes -> Seq(Event)]
    /\ version \in Nat /\ unbumped \in Nat /\ log \in Nat /\ starts \in Nat \ {0}
    /\ emitted \in [Lanes -> Nat]
    /\ shown \in [Lanes -> [Clients -> Seq(Event)]]
    /\ client \in [Clients -> ClientType]
    /\ \A c \in Clients : client[c].hand # <<>> <=> client[c].pc \in {"nodes", "alerts"}

(* The smaller of two numbers.                                             *)
LEMMA MinOfTwo ==
    ASSUME NEW a \in Int, NEW b \in Int
    PROVE  /\ Min({a, b}) \in {a, b}
           /\ Min({a, b}) <= a /\ Min({a, b}) <= b
  <1>1. \E x \in {a, b} : \A y \in {a, b} : x <= y
    OBVIOUS
  <1>2. Min({a, b}) \in {a, b} /\ \A y \in {a, b} : Min({a, b}) <= y
    BY <1>1 DEF Min
  <1> QED BY <1>2

LEMMA SmallerOf ==
    ASSUME NEW a \in Nat, NEW b \in Nat
    PROVE  Min({a, b}) \in 0..b
  <1>1. a \in Int /\ b \in Int
    OBVIOUS
  <1>2. Min({a, b}) \in {a, b} /\ Min({a, b}) <= b
    BY <1>1, MinOfTwo
  <1> QED BY <1>2

(* A new window of the rate limit changes nothing else of a connection.    *)
LEMMA WindowsKeep ==
    ASSUME NEW cl \in ClientType, NEW w \in Windows(cl)
    PROVE  /\ w \in ClientType
           /\ w.pc = cl.pc /\ w.hand = cl.hand /\ w.lastFp = cl.lastFp /\ w.seen = cl.seen
  <1>1. PICK old \in BOOLEAN : w = Window(cl, old)
    BY DEF Windows
  <1>2. CASE old
    <2>1. w = [cl EXCEPT !.count = 0, !.age = 0]
      BY <1>1, <1>2 DEF Window
    <2>2. 0 \in 0..MaxEps /\ 0 \in 0..2
      BY WarRoomStreamConstants
    <2> QED BY <2>1, <2>2 DEF ClientType
  <1>3. CASE ~ old
    BY <1>1, <1>3 DEF Window
  <1> QED BY <1>1, <1>2, <1>3

(* An event that is let through is counted, within the limit.              *)
LEMMA CountedKeeps ==
    ASSUME NEW cl \in ClientType, Allowed(cl)
    PROVE  /\ Counted(cl) \in ClientType
           /\ Counted(cl).pc = cl.pc /\ Counted(cl).hand = cl.hand
           /\ Counted(cl).lastFp = cl.lastFp /\ Counted(cl).seen = cl.seen
  <1>1. (IF MaxEps = 0 THEN 0 ELSE cl.count + 1) \in 0..MaxEps
    <2>1. cl.count \in 0..MaxEps /\ MaxEps \in Nat
      BY WarRoomStreamConstants DEF ClientType
    <2> QED BY <2>1 DEF Allowed
  <1> DEFINE n == IF MaxEps = 0 THEN 0 ELSE cl.count + 1
  <1>2. Counted(cl) = [cl EXCEPT !.count = n]
    BY DEF Counted
  <1> HIDE DEF n
  <1> QED BY <1>1, <1>2 DEF ClientType, n

(* A connection with events of a lane in hand, or past it.                 *)
LEMMA HoldingKeeps ==
    ASSUME NEW cl \in ClientType, NEW lane \in Lanes, NEW events \in Seq(Event)
    PROVE  /\ Holding(cl, lane, events) \in ClientType
           /\ Holding(cl, lane, events).hand = events
           /\ Holding(cl, lane, events).pc =
                 (IF events = <<>> THEN Following(lane) ELSE Sending(lane))
           /\ Holding(cl, lane, events).lastFp = cl.lastFp
           /\ Holding(cl, lane, events).seen = cl.seen
           /\ events # <<>> <=> Holding(cl, lane, events).pc \in {"nodes", "alerts"}
  BY DEF Holding, ClientType, Following, Sending, Lanes, Pcs

LEMMA GoneType ==
    Gone \in ClientType /\ Gone.hand = <<>> /\ Gone.pc = "gone"
  <1>1. 0 \in 0..MaxEps /\ 0 \in 0..2 /\ NoFp \in Fps /\ <<>> \in Seq(Event)
    BY WarRoomStreamConstants DEF NoFp, Fps
  <1> QED BY <1>1 DEF Gone, ClientType, Pcs

(* What is drained, and what stays.                                        *)
LEMMA TakenType ==
    ASSUME TypeInv, NEW lane \in Lanes
    PROVE  /\ Taken(lane) \in 0..Len(queue[lane])
           /\ SubSeq(queue[lane], 1, Taken(lane)) \in Seq(Event)
           /\ SubSeq(queue[lane], Taken(lane) + 1, Len(queue[lane])) \in Seq(Event)
  <1>1. DrainMax[lane] \in Nat /\ Len(queue[lane]) \in Nat /\ queue[lane] \in Seq(Event)
    BY WarRoomStreamConstants DEF TypeInv
  <1>2. Taken(lane) \in 0..Len(queue[lane])
    <2> DEFINE a == DrainMax[lane]
               b == Len(queue[lane])
    <2>1. Taken(lane) \in {a, b} /\ Taken(lane) <= b
      <3>1. a \in Int /\ b \in Int
        BY <1>1
      <3>2. Taken(lane) = Min({a, b})
        BY DEF Taken
      <3> HIDE DEF a, b
      <3> QED BY <3>1, <3>2, MinOfTwo
    <2> QED BY <1>1, <2>1
  <1> QED BY <1>1, <1>2

(***************************************************************************)
(* What a step does to the events of one lane.                             *)
(***************************************************************************)
Emitted(lane) ==
    /\ emitted[lane] + 1 <= MaxChanges
    /\ emitted'[lane] = emitted[lane] + 1
    /\ queue'[lane] = Pushed(queue[lane], lane, emitted[lane] + 1)
    /\ \A c \in Clients : /\ InHand(c, lane)' = InHand(c, lane)
                          /\ shown'[lane][c] = shown[lane][c]

Drained(c, lane) ==
    /\ InHand(c, lane) = <<>>
    /\ InHand(c, lane)' = SubSeq(queue[lane], 1, Taken(lane))
    /\ queue'[lane] = SubSeq(queue[lane], Taken(lane) + 1, Len(queue[lane]))
    /\ emitted'[lane] = emitted[lane]
    /\ \A d \in Clients : /\ d # c => InHand(d, lane)' = InHand(d, lane)
                          /\ shown'[lane][d] = shown[lane][d]

Sent(c, lane) ==
    /\ InHand(c, lane) # <<>>
    /\ InHand(c, lane)' = Tail(InHand(c, lane))
    /\ shown'[lane][c] = Append(shown[lane][c], Head(InHand(c, lane)))
    /\ queue'[lane] = queue[lane] /\ emitted'[lane] = emitted[lane]
    /\ \A d \in Clients : d # c => /\ InHand(d, lane)' = InHand(d, lane)
                                   /\ shown'[lane][d] = shown[lane][d]

Dropped(lane) ==
    /\ queue'[lane] \in {queue[lane], <<>>} /\ emitted'[lane] = emitted[lane]
    /\ \A c \in Clients : /\ InHand(c, lane)' \in {InHand(c, lane), <<>>}
                          /\ shown'[lane][c] = shown[lane][c]

LaneStep(lane) ==
    \/ Emitted(lane) \/ Dropped(lane)
    \/ \E c \in Clients : Drained(c, lane) \/ Sent(c, lane)

(* A connection takes a step of its own.                                   *)
LEMMA SetKeeps ==
    ASSUME TypeInv, NEW c \in Clients, NEW x \in ClientType, Set(c, x),
           x.hand # <<>> <=> x.pc \in {"nodes", "alerts"}
    PROVE  /\ client' \in [Clients -> ClientType]
           /\ \A d \in Clients : client'[d].hand # <<>> <=> client'[d].pc \in {"nodes", "alerts"}
           /\ client'[c] = x
           /\ \A d \in Clients : d # c => client'[d] = client[d]
  <1>1. client' = [client EXCEPT ![c] = x]
    BY DEF Set
  <1>2. client'[c] = x /\ \A d \in Clients : d # c => client'[d] = client[d]
    BY <1>1 DEF TypeInv
  <1>3. client' \in [Clients -> ClientType]
    BY <1>1 DEF TypeInv
  <1> QED BY <1>2, <1>3 DEF TypeInv

(* A step that only moves one connection, with an empty hand or one that   *)
(* is emptied.                                                             *)
LEMMA QuietStep ==
    ASSUME TypeInv, NEW c \in Clients, NEW x \in ClientType, Set(c, x),
           x.hand = <<>>, x.pc \notin {"nodes", "alerts"},
           UNCHANGED <<queue, version, unbumped, log, emitted, shown, starts>>
    PROVE  TypeInv' /\ \A lane \in Lanes : LaneStep(lane)
  <1>1. TypeInv'
    BY SetKeeps DEF TypeInv
  <1>2. client'[c] = x /\ \A d \in Clients : d # c => client'[d] = client[d]
    BY SetKeeps
  <1>3. ASSUME NEW lane \in Lanes
        PROVE  Dropped(lane)
    <2>1. \A d \in Clients : InHand(d, lane)' \in {InHand(d, lane), <<>>}
      BY <1>2 DEF InHand
    <2> QED BY <2>1 DEF Dropped
  <1> QED BY <1>1, <1>3 DEF LaneStep

LEMMA EmitKeeps ==
    ASSUME TypeInv, NEW lane \in Lanes, EmitEvent(lane)
    PROVE  TypeInv' /\ \A l \in Lanes : LaneStep(l)
  <1> DEFINE e == emitted[lane] + 1
  <1>1. e \in Event /\ emitted' = [emitted EXCEPT ![lane] = e]
    BY DEF EmitEvent, TypeInv, Event
  <1>2. Pushed(queue[lane], lane, e) \in Seq(Event)
    <2>1. queue[lane] \in Seq(Event) /\ Cap[lane] \in Nat \ {0}
      BY WarRoomStreamConstants DEF TypeInv
    <2>2. Len(queue[lane]) = Cap[lane] => Tail(queue[lane]) \in Seq(Event)
      BY <2>1
    <2> HIDE DEF e
    <2> QED BY <1>1, <2>1, <2>2 DEF Pushed
  <1>3. emitted'[lane] = e
    BY <1>1 DEF TypeInv
  <1>4. queue' = [queue EXCEPT ![lane] = Pushed(queue[lane], lane, e)]
    BY <1>3 DEF EmitEvent
  <1>5. TypeInv'
    <2>1. emitted' \in [Lanes -> Nat]
      BY <1>1 DEF TypeInv, Event
    <2>2. queue' \in [Lanes -> Seq(Event)]
      BY <1>2, <1>4 DEF TypeInv
    <2> QED BY <2>1, <2>2 DEF TypeInv, EmitEvent
  <1>6. e <= MaxChanges
    BY WarRoomStreamConstants DEF EmitEvent, MoreChanges, TypeInv, Lanes
  <1>7. \A l \in Lanes, c \in Clients : /\ InHand(c, l)' = InHand(c, l)
                                       /\ shown'[l][c] = shown[l][c]
    BY DEF EmitEvent, InHand
  <1>8. Emitted(lane)
    <2>1. queue'[lane] = Pushed(queue[lane], lane, e)
      BY <1>4 DEF TypeInv
    <2> QED BY <1>3, <1>6, <1>7, <2>1 DEF Emitted
  <1>9. ASSUME NEW l \in Lanes, l # lane PROVE Dropped(l)
    <2>1. queue'[l] = queue[l] /\ emitted'[l] = emitted[l]
      BY <1>1, <1>4, <1>9 DEF TypeInv
    <2> QED BY <1>7, <2>1 DEF Dropped
  <1> QED BY <1>5, <1>8, <1>9 DEF LaneStep

LEMMA DrainKeeps ==
    ASSUME TypeInv, NEW c \in Clients, NEW lane \in Lanes, Drain(c, lane)
    PROVE  TypeInv' /\ \A l \in Lanes : LaneStep(l)
  <1> DEFINE taken == SubSeq(queue[lane], 1, Taken(lane))
             x == Holding(client[c], lane, taken)
             left == SubSeq(queue[lane], Taken(lane) + 1, Len(queue[lane]))
  <1>1. taken \in Seq(Event) /\ left \in Seq(Event) /\ client[c] \in ClientType
    BY TakenType DEF TypeInv
  <1>2. /\ Set(c, x) /\ client[c].pc = lane
        /\ queue' = [queue EXCEPT ![lane] = left]
        /\ UNCHANGED <<version, unbumped, log, emitted, shown, starts>>
    BY DEF Drain
  <1> HIDE DEF taken, left
  <1>3. /\ x \in ClientType /\ x.hand = taken
        /\ x.pc = (IF taken = <<>> THEN Following(lane) ELSE Sending(lane))
        /\ x.hand # <<>> <=> x.pc \in {"nodes", "alerts"}
    BY <1>1, HoldingKeeps
  <1> HIDE DEF x
  <1>4. /\ client' \in [Clients -> ClientType]
        /\ \A d \in Clients : client'[d].hand # <<>> <=> client'[d].pc \in {"nodes", "alerts"}
        /\ client'[c] = x
        /\ \A d \in Clients : d # c => client'[d] = client[d]
    BY <1>2, <1>3, SetKeeps
  <1>5. TypeInv'
    <2>1. queue' \in [Lanes -> Seq(Event)]
      BY <1>1, <1>2 DEF TypeInv
    <2> QED BY <1>2, <1>4, <2>1 DEF TypeInv
  <1>6. Drained(c, lane)
    <2>1. queue'[lane] = left
      BY <1>2 DEF TypeInv
    <2>2. InHand(c, lane) = <<>>
      BY <1>2 DEF InHand, Sending, Lanes
    <2>3. InHand(c, lane)' = taken
      BY <1>3, <1>4 DEF InHand, Sending, Following, Lanes
    <2>4. \A d \in Clients : d # c => InHand(d, lane)' = InHand(d, lane)
      BY <1>4 DEF InHand
    <2> QED BY <1>2, <2>1, <2>2, <2>3, <2>4 DEF Drained, taken, left
  <1>7. ASSUME NEW l \in Lanes, l # lane PROVE Dropped(l)
    <2>1. queue'[l] = queue[l]
      BY <1>2, <1>7 DEF TypeInv
    <2>2. InHand(c, l)' = <<>>
      BY <1>3, <1>4, <1>7 DEF InHand, Sending, Following, Lanes
    <2>3. \A d \in Clients : InHand(d, l)' \in {InHand(d, l), <<>>}
      BY <1>4, <2>2 DEF InHand
    <2> QED BY <1>2, <2>1, <2>3 DEF Dropped
  <1> QED BY <1>5, <1>6, <1>7 DEF LaneStep

LEMMA SendKeeps ==
    ASSUME TypeInv, NEW c \in Clients, NEW lane \in Lanes, Send(c, lane)
    PROVE  TypeInv' /\ \A l \in Lanes : LaneStep(l)
  <1>1. client[c] \in ClientType /\ client[c].pc = Sending(lane)
    BY DEF Send, TypeInv
  <1> PICK w \in Windows(client[c]) :
        /\ Allowed(w)
        /\ Set(c, Holding(Counted(w), lane, Tail(w.hand)))
        /\ shown' = [shown EXCEPT ![lane][c] = Append(@, Head(w.hand))]
    BY DEF Send
  <1> DEFINE hand == client[c].hand
             x == Holding(Counted(w), lane, Tail(hand))
  <1>2. w \in ClientType /\ w.hand = hand
    BY <1>1, WindowsKeep
  <1>3. hand \in Seq(Event) /\ hand # <<>>
    <2>1. Sending(lane) \in {"nodes", "alerts"}
      BY DEF Sending
    <2> QED BY <1>1, <2>1 DEF TypeInv, ClientType
  <1>4. Tail(hand) \in Seq(Event) /\ Head(hand) \in Event
    BY <1>3
  <1>5. Counted(w) \in ClientType
    BY <1>2, CountedKeeps
  <1> HIDE DEF hand
  <1>6. /\ x \in ClientType /\ x.hand = Tail(hand)
        /\ x.pc = (IF Tail(hand) = <<>> THEN Following(lane) ELSE Sending(lane))
        /\ x.hand # <<>> <=> x.pc \in {"nodes", "alerts"}
    BY <1>4, <1>5, HoldingKeeps
  <1>7. Set(c, x)
    BY <1>2
  <1> HIDE DEF x
  <1>8. /\ client' \in [Clients -> ClientType]
        /\ \A d \in Clients : client'[d].hand # <<>> <=> client'[d].pc \in {"nodes", "alerts"}
        /\ client'[c] = x
        /\ \A d \in Clients : d # c => client'[d] = client[d]
    BY <1>6, <1>7, SetKeeps
  <1>9. shown' = [shown EXCEPT ![lane] = [shown[lane] EXCEPT ![c] = Append(shown[lane][c], Head(hand))]]
    BY <1>2 DEF TypeInv
  <1>10. UNCHANGED <<queue, version, unbumped, log, emitted, starts>>
    BY DEF Send
  <1>11. TypeInv'
    <2>1. Append(shown[lane][c], Head(hand)) \in Seq(Event)
      BY <1>4 DEF TypeInv
    <2>2. shown' \in [Lanes -> [Clients -> Seq(Event)]]
      BY <1>9, <2>1 DEF TypeInv
    <2> QED BY <1>8, <1>10, <2>2 DEF TypeInv
  <1>12. /\ shown'[lane][c] = Append(shown[lane][c], Head(hand))
         /\ \A d \in Clients : d # c => shown'[lane][d] = shown[lane][d]
         /\ \A l \in Lanes : l # lane => shown'[l] = shown[l]
    BY <1>9 DEF TypeInv
  <1>13. Sent(c, lane)
    <2>1. InHand(c, lane) = hand
      BY <1>1 DEF InHand, hand
    <2>2. InHand(c, lane)' = Tail(hand)
      BY <1>6, <1>8 DEF InHand, Sending, Following, Lanes
    <2>3. \A d \in Clients : d # c => InHand(d, lane)' = InHand(d, lane)
      BY <1>8 DEF InHand
    <2> QED BY <1>3, <1>10, <1>12, <2>1, <2>2, <2>3 DEF Sent
  <1>14. ASSUME NEW l \in Lanes, l # lane PROVE Dropped(l)
    <2>1. InHand(c, l)' = <<>>
      BY <1>6, <1>8, <1>14 DEF InHand, Sending, Following, Lanes
    <2>2. \A d \in Clients : InHand(d, l)' \in {InHand(d, l), <<>>}
      BY <1>8, <2>1 DEF InHand
    <2> QED BY <1>10, <1>12, <1>14, <2>2 DEF Dropped
  <1> QED BY <1>11, <1>13, <1>14 DEF LaneStep

(* Connections that come, go, are refused, take a snapshot or sleep.       *)
LEMMA OtherTurnKeeps ==
    ASSUME TypeInv, NEW c \in Clients,
           \/ Connect(c) \/ Disconnect(c) \/ Fingerprinted(c) \/ Snapshot(c) \/ Rest(c)
           \/ \E lane \in Lanes : Refuse(c, lane)
    PROVE  TypeInv' /\ \A lane \in Lanes : LaneStep(lane)
  <1> DEFINE cl == client[c]
             Quiet(x) == x \in ClientType /\ x.hand = <<>> /\ x.pc \notin {"nodes", "alerts"}
  <1>1. /\ cl \in ClientType
        /\ cl.pc \notin {"nodes", "alerts"} => cl.hand = <<>>
    BY DEF TypeInv
  <1>2. Fingerprint \in Fps
    BY DEF Fingerprint, Fps, TypeInv
  <1>3. UNCHANGED <<queue, version, unbumped, log, emitted, shown, starts>>
    BY DEF Connect, Disconnect, Fingerprinted, Snapshot, Rest, Refuse
  <1>4. \E x : Quiet(x) /\ Set(c, x)
    <2>1. CASE Connect(c)
      <3>1. Quiet([Gone EXCEPT !.pc = "node"])
        BY GoneType DEF ClientType, Pcs
      <3> QED BY <2>1, <3>1 DEF Connect
    <2>2. CASE Disconnect(c)
      BY <2>2, GoneType DEF Disconnect
    <2>3. CASE Fingerprinted(c)
      <3>1. cl.pc = "fp" /\ cl.hand = <<>>
        BY <1>1, <2>3 DEF Fingerprinted
      <3>2. CASE Set(c, [cl EXCEPT !.pc = "rest"])
        <4>1. Quiet([cl EXCEPT !.pc = "rest"])
          BY <1>1, <3>1 DEF ClientType, Pcs
        <4> QED BY <3>2, <4>1
      <3>3. CASE \E w \in Windows(cl) :
                    IF Allowed(w)
                    THEN Set(c, [Counted(w) EXCEPT !.pc = "body", !.lastFp = Fingerprint])
                    ELSE Set(c, [w EXCEPT !.pc = "rest"])
        <4> PICK w \in Windows(cl) :
                    IF Allowed(w)
                    THEN Set(c, [Counted(w) EXCEPT !.pc = "body", !.lastFp = Fingerprint])
                    ELSE Set(c, [w EXCEPT !.pc = "rest"])
          BY <3>3
        <4>1. w \in ClientType /\ w.hand = <<>>
          BY <1>1, <3>1, WindowsKeep
        <4>2. CASE Allowed(w)
          <5>1. Counted(w) \in ClientType /\ Counted(w).hand = <<>>
            BY <4>1, <4>2, CountedKeeps
          <5>2. Quiet([Counted(w) EXCEPT !.pc = "body", !.lastFp = Fingerprint])
            BY <1>2, <5>1 DEF ClientType, Pcs
          <5> QED BY <4>2, <5>2
        <4>3. CASE ~ Allowed(w)
          <5>1. Quiet([w EXCEPT !.pc = "rest"])
            BY <4>1 DEF ClientType, Pcs
          <5> QED BY <4>3, <5>1
        <4> QED BY <4>2, <4>3
      <3> QED BY <2>3, <3>2, <3>3 DEF Fingerprinted
    <2>4. CASE Snapshot(c)
      <3>1. Quiet([cl EXCEPT !.pc = "rest", !.seen = log])
        <4>1. log \in Int /\ cl.hand = <<>>
          BY <1>1, <2>4 DEF Snapshot, TypeInv
        <4> QED BY <1>1, <4>1 DEF ClientType, Pcs
      <3> QED BY <2>4, <3>1 DEF Snapshot
    <2>5. CASE Rest(c)
      <3>1. cl.hand = <<>>
        BY <1>1, <2>5 DEF Rest
      <3> PICK changed \in 0..Watched :
             \E w \in IF changed = 0 THEN {cl} ELSE Windows(cl) :
                Set(c, [w EXCEPT !.pc = "node", !.age = Min({@ + Interval, 2}),
                                 !.count = IF MaxEps = 0 THEN 0 ELSE Min({@ + changed, MaxEps})])
        BY <2>5 DEF Rest
      <3> PICK w \in IF changed = 0 THEN {cl} ELSE Windows(cl) :
                Set(c, [w EXCEPT !.pc = "node", !.age = Min({@ + Interval, 2}),
                                 !.count = IF MaxEps = 0 THEN 0 ELSE Min({@ + changed, MaxEps})])
        OBVIOUS
      <3>2. w \in ClientType /\ w.hand = <<>>
        BY <1>1, <3>1, WindowsKeep
      <3> DEFINE age == Min({w.age + Interval, 2})
                 count == IF MaxEps = 0 THEN 0 ELSE Min({w.count + changed, MaxEps})
                 x == [w EXCEPT !.pc = "node", !.age = age, !.count = count]
      <3>3. /\ w.age \in 0..2 /\ w.count \in 0..MaxEps /\ MaxEps \in Nat /\ Interval \in Nat
            /\ changed \in Nat
        BY <3>2, WarRoomStreamConstants DEF ClientType
      <3>4. age \in 0..2
        <4>1. w.age + Interval \in Nat /\ 2 \in Nat
          BY <3>3
        <4> QED BY <4>1, SmallerOf
      <3>5. count \in 0..MaxEps
        <4>1. w.count + changed \in Nat
          BY <3>3
        <4>2. Min({w.count + changed, MaxEps}) \in 0..MaxEps
          BY <3>3, <4>1, SmallerOf
        <4> QED BY <3>3, <4>2
      <3>6. Set(c, x)
        OBVIOUS
      <3> HIDE DEF age, count
      <3>7. Quiet(x)
        BY <3>2, <3>4, <3>5 DEF ClientType, Pcs
      <3> QED BY <3>6, <3>7
    <2>6. ASSUME NEW lane \in Lanes, Refuse(c, lane)
          PROVE  \E x : Quiet(x) /\ Set(c, x)
      <3> PICK w \in Windows(cl) : Set(c, Holding(w, lane, <<>>))
        BY <2>6 DEF Refuse
      <3>1. w \in ClientType
        BY <1>1, WindowsKeep
      <3>2. Quiet(Holding(w, lane, <<>>))
        <4>1. <<>> \in Seq(Event)
          OBVIOUS
        <4>2. Holding(w, lane, <<>>) \in ClientType /\ Holding(w, lane, <<>>).hand = <<>>
              /\ Holding(w, lane, <<>>).pc \notin {"nodes", "alerts"}
          BY <3>1, <4>1, HoldingKeeps
        <4> QED BY <4>2
      <3> QED BY <3>2
    <2> QED BY <2>1, <2>2, <2>3, <2>4, <2>5, <2>6
  <1> PICK x : Quiet(x) /\ Set(c, x)
    BY <1>4
  <1> QED BY <1>3, QuietStep

(* Steps of the server.                                                    *)
LEMMA ServerKeeps ==
    ASSUME TypeInv,
           \/ \E inServer \in BOOLEAN : WriteLog(inServer)
           \/ Bump \/ Restart \/ UNCHANGED streamVars
    PROVE  TypeInv' /\ \A lane \in Lanes : LaneStep(lane)
  <1>1. CASE Restart
    <2>1. TypeInv'
      BY <1>1, GoneType DEF Restart, TypeInv
    <2>2. \A lane \in Lanes, c \in Clients : InHand(c, lane)' = <<>>
      BY <1>1, GoneType DEF Restart, InHand
    <2>3. \A lane \in Lanes : Dropped(lane)
      BY <1>1, <2>2 DEF Restart, Dropped
    <2> QED BY <2>1, <2>3 DEF LaneStep
  <1>2. CASE (\E inServer \in BOOLEAN : WriteLog(inServer)) \/ Bump \/ UNCHANGED streamVars
    <2>1. TypeInv'
      BY <1>2 DEF WriteLog, Bump, streamVars, TypeInv
    <2>2. UNCHANGED <<queue, client, emitted, shown>>
      BY <1>2 DEF WriteLog, Bump, streamVars
    <2>3. \A lane \in Lanes : Dropped(lane)
      BY <2>2 DEF Dropped, InHand
    <2> QED BY <2>1, <2>3 DEF LaneStep
  <1> QED BY <1>1, <1>2

LEMMA StepKeeps ==
    ASSUME TypeInv, [StreamNext]_streamVars
    PROVE  TypeInv' /\ \A lane \in Lanes : LaneStep(lane)
  <1>1. Emitters \subseteq Lanes
    BY WarRoomStreamConstants
  <1> QED BY <1>1, EmitKeeps, DrainKeeps, SendKeeps, OtherTurnKeeps, ServerKeeps
          DEF StreamNext, Turn

LEMMA StreamTyped == StreamSpec => []TypeInv
  <1>1. StreamInit => TypeInv
    BY GoneType DEF StreamInit, TypeInv
  <1>2. TypeInv /\ [StreamNext]_streamVars => TypeInv'
    BY StepKeeps
  <1> QED BY <1>1, <1>2, PTL DEF StreamSpec

(***************************************************************************)
(* Snapshots.  A connection's fingerprint was taken from the log as it was *)
(* or before, and its snapshot not before that fingerprint.                *)
(***************************************************************************)
SeenInv ==
    \A c \in Clients :
        /\ client[c].lastFp.log <= log /\ client[c].seen <= log
        /\ client[c].pc # "body" => client[c].lastFp.log <= client[c].seen

LEMMA SeenStep ==
    ASSUME TypeInv, SeenInv, [StreamNext]_streamVars
    PROVE  SeenInv'
  <1> DEFINE Ok(x, l) == /\ x.lastFp.log <= l /\ x.seen <= l
                         /\ x.pc # "body" => x.lastFp.log <= x.seen
  <1>1. /\ client \in [Clients -> ClientType] /\ log \in Nat /\ log' \in Nat /\ log <= log'
        /\ client' \in [Clients -> ClientType]
    <2>1. log' = log \/ log' = log + 1
      <3>1. CASE \E inServer \in BOOLEAN : WriteLog(inServer)
        BY <3>1 DEF WriteLog
      <3>2. CASE log' = log
        BY <3>2
      <3>3. ASSUME NEW d \in Clients, Connect(d) \/ Disconnect(d) \/ Turn(d)
            PROVE  log' = log
        BY <3>3 DEF Connect, Disconnect, Turn, Drain, Send, Refuse, Fingerprinted, Snapshot, Rest
      <3> QED BY <3>1, <3>2, <3>3 DEF StreamNext, streamVars, EmitEvent, Bump, Restart
    <2> QED BY <2>1, StepKeeps DEF TypeInv
  <1>2. \A d \in Clients : Ok(client[d], log)
    BY DEF SeenInv
  <1>3. \A d \in Clients : Ok(client[d], log')
    <2> SUFFICES ASSUME NEW d \in Clients PROVE Ok(client[d], log')
      OBVIOUS
    <2>1. client[d].lastFp.log \in Int /\ client[d].seen \in Int
      BY <1>1 DEF ClientType, Fps
    <2> QED BY <1>1, <1>2, <2>1
  <1>4. Ok(Gone, log')
    BY <1>1 DEF Gone, NoFp
  <1>5. SUFFICES ASSUME NEW c \in Clients PROVE Ok(client'[c], log')
    BY DEF SeenInv
  <1>6. CASE client' = client
    BY <1>3, <1>6
  <1>7. CASE Restart
    BY <1>4, <1>7 DEF Restart
  <1>8. ASSUME NEW d \in Clients, NEW x, Set(d, x), Ok(x, log')
        PROVE  Ok(client'[c], log')
    <2> HIDE DEF Ok
    <2> QED BY <1>1, <1>3, <1>8 DEF Set
  <1>9. ASSUME NEW d \in Clients, Connect(d) \/ Disconnect(d)
        PROVE  Ok(client'[c], log')
    <2>1. Ok([Gone EXCEPT !.pc = "node"], log')
      BY <1>1 DEF Gone, NoFp
    <2> HIDE DEF Ok
    <2> QED BY <1>4, <1>8, <1>9, <2>1 DEF Connect, Disconnect
  <1>10. ASSUME NEW d \in Clients, Fingerprinted(d)
         PROVE  Ok(client'[c], log')
    <2>1. client[d] \in ClientType /\ client[d].seen <= log' /\ client[d].pc = "fp"
          /\ client[d].lastFp.log <= log' /\ client[d].lastFp.log <= client[d].seen
      BY <1>1, <1>3, <1>10 DEF Fingerprinted
    <2>2. log' = log /\ Fingerprint.log = log
      BY <1>10 DEF Fingerprinted, Fingerprint
    <2>3. CASE Set(d, [client[d] EXCEPT !.pc = "rest"])
      <3>1. Ok([client[d] EXCEPT !.pc = "rest"], log')
        BY <2>1 DEF ClientType
      <3> HIDE DEF Ok
      <3> QED BY <1>8, <2>3, <3>1
    <2>4. CASE \E w \in Windows(client[d]) :
                  IF Allowed(w)
                  THEN Set(d, [Counted(w) EXCEPT !.pc = "body", !.lastFp = Fingerprint])
                  ELSE Set(d, [w EXCEPT !.pc = "rest"])
      <3> PICK w \in Windows(client[d]) :
                  IF Allowed(w)
                  THEN Set(d, [Counted(w) EXCEPT !.pc = "body", !.lastFp = Fingerprint])
                  ELSE Set(d, [w EXCEPT !.pc = "rest"])
        BY <2>4
      <3>1. w \in ClientType /\ w.lastFp = client[d].lastFp /\ w.seen = client[d].seen
        BY <2>1, WindowsKeep
      <3>2. CASE Allowed(w)
        <4>1. Counted(w) \in ClientType /\ Counted(w).seen = client[d].seen
          BY <3>1, <3>2, CountedKeeps
        <4>2. Ok([Counted(w) EXCEPT !.pc = "body", !.lastFp = Fingerprint], log')
          BY <1>1, <2>1, <2>2, <4>1 DEF ClientType
        <4> HIDE DEF Ok
        <4> QED BY <1>8, <3>2, <4>2
      <3>3. CASE ~ Allowed(w)
        <4>1. Ok([w EXCEPT !.pc = "rest"], log')
          BY <2>1, <3>1 DEF ClientType
        <4> HIDE DEF Ok
        <4> QED BY <1>8, <3>3, <4>1
      <3> QED BY <3>2, <3>3
    <2> QED BY <1>10, <2>3, <2>4 DEF Fingerprinted
  <1>11. ASSUME NEW d \in Clients, Snapshot(d)
         PROVE  Ok(client'[c], log')
    <2>1. Ok([client[d] EXCEPT !.pc = "rest", !.seen = log], log')
      BY <1>1, <1>2, <1>11 DEF Snapshot, ClientType
    <2> HIDE DEF Ok
    <2> QED BY <1>8, <1>11, <2>1 DEF Snapshot
  <1>12. ASSUME NEW d \in Clients, NEW x \in ClientType, Set(d, x), x.pc # "body",
                x.lastFp = client[d].lastFp, x.seen = client[d].seen, client[d].pc # "body"
         PROVE  Ok(client'[c], log')
    <2>1. Ok(x, log')
      BY <1>3, <1>12
    <2> HIDE DEF Ok
    <2> QED BY <1>8, <1>12, <2>1
  <1>13. ASSUME NEW d \in Clients, NEW lane \in Lanes,
                Drain(d, lane) \/ Send(d, lane) \/ Refuse(d, lane)
         PROVE  Ok(client'[c], log')
    <2>1. client[d] \in ClientType /\ client[d].pc # "body"
      BY <1>1, <1>13 DEF Drain, Send, Refuse, Sending, Lanes
    <2>2. ASSUME NEW w \in ClientType, NEW events \in Seq(Event),
                 w.lastFp = client[d].lastFp, w.seen = client[d].seen,
                 Set(d, Holding(w, lane, events))
          PROVE  Ok(client'[c], log')
      <3>1. /\ Holding(w, lane, events) \in ClientType
            /\ Holding(w, lane, events).pc # "body"
            /\ Holding(w, lane, events).lastFp = client[d].lastFp
            /\ Holding(w, lane, events).seen = client[d].seen
        BY <2>2, HoldingKeeps DEF Following, Sending, Lanes
      <3> HIDE DEF Ok
      <3> QED BY <1>12, <2>1, <2>2, <3>1
    <2> HIDE DEF Ok
    <2>3. CASE Drain(d, lane)
      BY <2>1, <2>2, <2>3, TakenType DEF Drain
    <2>4. CASE Send(d, lane)
      <3> PICK w \in Windows(client[d]) :
            Allowed(w) /\ Set(d, Holding(Counted(w), lane, Tail(w.hand)))
        BY <2>4 DEF Send
      <3>1. w \in ClientType /\ w.hand = client[d].hand
            /\ w.lastFp = client[d].lastFp /\ w.seen = client[d].seen
        BY <2>1, WindowsKeep
      <3>2. Tail(w.hand) \in Seq(Event)
        <4>1. client[d].hand \in Seq(Event) /\ client[d].hand # <<>>
          BY <2>1, <2>4 DEF Send, Sending, TypeInv, ClientType
        <4> QED BY <3>1, <4>1
      <3>3. /\ Counted(w) \in ClientType
            /\ Counted(w).lastFp = client[d].lastFp /\ Counted(w).seen = client[d].seen
        BY <3>1, CountedKeeps
      <3> QED BY <2>2, <3>2, <3>3
    <2>5. CASE Refuse(d, lane)
      <3> PICK w \in Windows(client[d]) : Set(d, Holding(w, lane, <<>>))
        BY <2>5 DEF Refuse
      <3>1. w \in ClientType /\ w.lastFp = client[d].lastFp /\ w.seen = client[d].seen
        BY <2>1, WindowsKeep
      <3>2. <<>> \in Seq(Event)
        OBVIOUS
      <3> QED BY <2>2, <3>1, <3>2
    <2> QED BY <1>13, <2>3, <2>4, <2>5
  <1>14. ASSUME NEW d \in Clients, Rest(d)
         PROVE  Ok(client'[c], log')
    <2>1. client[d] \in ClientType /\ client[d].pc = "rest"
      BY <1>1, <1>14 DEF Rest
    <2> PICK w, age, count :
          /\ w = client[d] \/ w \in Windows(client[d])
          /\ Set(d, [w EXCEPT !.pc = "node", !.age = age, !.count = count])
      BY <1>14 DEF Rest
    <2>2. w \in ClientType /\ w.lastFp = client[d].lastFp /\ w.seen = client[d].seen
      BY <2>1, WindowsKeep
    <2>3. Ok([w EXCEPT !.pc = "node", !.age = age, !.count = count], log')
      <3>1. client[d].lastFp.log <= log' /\ client[d].seen <= log'
            /\ client[d].lastFp.log <= client[d].seen
        BY <1>3, <2>1
      <3> QED BY <2>2, <3>1 DEF ClientType
    <2> HIDE DEF Ok
    <2> QED BY <1>8, <2>3
  <1>15. CASE (\E lane \in Emitters : EmitEvent(lane)) \/ Bump \/ UNCHANGED streamVars
              \/ \E inServer \in BOOLEAN : WriteLog(inServer)
    BY <1>6, <1>15 DEF EmitEvent, Bump, WriteLog, streamVars
  <1> HIDE DEF Ok
  <1> QED BY <1>7, <1>9, <1>10, <1>11, <1>13, <1>14, <1>15 DEF StreamNext, Turn

(* A connection that sees nothing new in the fingerprint has been sent the *)
(* log as it is: for every number of connections and writers, although     *)
(* snapshots are refused, and the log changes while one is being taken.    *)
THEOREM SnapshotsAreCurrent == StreamSpec => []SnapshotCurrent
  <1>1. StreamInit => SeenInv
    BY DEF StreamInit, SeenInv, Gone, NoFp
  <1>2. TypeInv /\ SeenInv /\ [StreamNext]_streamVars => SeenInv'
    BY SeenStep
  <1>3. TypeInv /\ SeenInv => SnapshotCurrent
    <2> SUFFICES ASSUME TypeInv, SeenInv, NEW c \in Clients,
                        client[c].pc # "body", client[c].lastFp = Fingerprint
                 PROVE  client[c].seen = log
      BY DEF SnapshotCurrent
    <2>1. client[c].lastFp.log = log
      BY DEF Fingerprint
    <2>2. client[c].seen \in Int /\ log \in Nat
      BY DEF TypeInv, ClientType
    <2> QED BY <2>1, <2>2 DEF SeenInv
  <1> QED BY <1>1, <1>2, <1>3, StreamTyped, PTL DEF StreamSpec

(***************************************************************************)
(* Lemmas about sequences of events.                                       *)
(***************************************************************************)
LEMMA ContainsAppend ==
    ASSUME NEW s \in Seq(Event), NEW x \in Event, NEW e
    PROVE  Contains(Append(s, x), e) <=> Contains(s, e) \/ e = x
  <1>1. /\ Len(s) \in Nat /\ Len(Append(s, x)) = Len(s) + 1
        /\ \A i \in 1..Len(s) : Append(s, x)[i] = s[i]
        /\ Append(s, x)[Len(s) + 1] = x
    OBVIOUS
  <1>2. \A i : i \in 1..(Len(s) + 1) <=> i \in 1..Len(s) \/ i = Len(s) + 1
    BY <1>1
  <1> QED BY <1>1, <1>2 DEF Contains

LEMMA ContainsTail ==
    ASSUME NEW s \in Seq(Event), s # <<>>, NEW e
    PROVE  Contains(s, e) <=> e = Head(s) \/ Contains(Tail(s), e)
  <1>1. /\ Len(s) \in Nat \ {0} /\ Len(Tail(s)) = Len(s) - 1 /\ Head(s) = s[1]
        /\ \A i \in 1..(Len(s) - 1) : Tail(s)[i] = s[i + 1]
    OBVIOUS
  <1>2. ASSUME NEW i \in 1..Len(s), s[i] = e
        PROVE  e = Head(s) \/ Contains(Tail(s), e)
    <2>1. CASE i = 1
      BY <1>1, <1>2, <2>1
    <2>2. CASE i # 1
      <3>1. i - 1 \in 1..(Len(s) - 1) /\ Tail(s)[i - 1] = e
        BY <1>1, <1>2, <2>2
      <3> QED BY <1>1, <3>1 DEF Contains
    <2> QED BY <2>1, <2>2
  <1>3. ASSUME NEW i \in 1..Len(Tail(s)), Tail(s)[i] = e
        PROVE  Contains(s, e)
    <2>1. i + 1 \in 1..Len(s) /\ s[i + 1] = e
      BY <1>1, <1>3
    <2> QED BY <2>1 DEF Contains
  <1>4. Contains(s, Head(s))
    <2>1. 1 \in 1..Len(s)
      BY <1>1
    <2> QED BY <1>1, <2>1 DEF Contains
  <1> QED BY <1>2, <1>3, <1>4 DEF Contains

LEMMA ContainsConcat ==
    ASSUME NEW s \in Seq(Event), NEW t \in Seq(Event), NEW e
    PROVE  Contains(s \o t, e) <=> Contains(s, e) \/ Contains(t, e)
  <1>1. /\ Len(s) \in Nat /\ Len(t) \in Nat /\ Len(s \o t) = Len(s) + Len(t)
        /\ \A i \in 1..Len(s) : (s \o t)[i] = s[i]
        /\ \A i \in (Len(s) + 1)..(Len(s) + Len(t)) : (s \o t)[i] = t[i - Len(s)]
    OBVIOUS
  <1>2. ASSUME NEW i \in 1..Len(s \o t), (s \o t)[i] = e
        PROVE  Contains(s, e) \/ Contains(t, e)
    <2>1. CASE i \in 1..Len(s)
      BY <1>1, <1>2, <2>1 DEF Contains
    <2>2. CASE i \in (Len(s) + 1)..(Len(s) + Len(t))
      <3>1. i - Len(s) \in 1..Len(t) /\ t[i - Len(s)] = e
        BY <1>1, <1>2, <2>2
      <3> QED BY <3>1 DEF Contains
    <2> QED BY <1>1, <2>1, <2>2
  <1>3. ASSUME NEW i \in 1..Len(s), s[i] = e
        PROVE  Contains(s \o t, e)
    <2>1. i \in 1..Len(s \o t) /\ (s \o t)[i] = e
      BY <1>1, <1>3
    <2> QED BY <2>1 DEF Contains
  <1>4. ASSUME NEW i \in 1..Len(t), t[i] = e
        PROVE  Contains(s \o t, e)
    <2>1. i + Len(s) \in (Len(s) + 1)..(Len(s) + Len(t)) /\ i + Len(s) - Len(s) = i
      BY <1>1
    <2>2. i + Len(s) \in 1..Len(s \o t) /\ (s \o t)[i + Len(s)] = e
      BY <1>1, <1>4, <2>1
    <2> QED BY <2>2 DEF Contains
  <1> QED BY <1>2, <1>3, <1>4 DEF Contains

LEMMA IncreasingAppend ==
    ASSUME NEW s \in Seq(Event), NEW x \in Event, Increasing(s),
           \A e : Contains(s, e) => e < x
    PROVE  Increasing(Append(s, x))
  <1>1. /\ Len(s) \in Nat /\ Len(Append(s, x)) = Len(s) + 1
        /\ \A i \in 1..Len(s) : Append(s, x)[i] = s[i] /\ s[i] < x
        /\ Append(s, x)[Len(s) + 1] = x
    BY DEF Contains
  <1> QED BY <1>1 DEF Increasing

LEMMA IncreasingTail ==
    ASSUME NEW s \in Seq(Event), s # <<>>, Increasing(s)
    PROVE  /\ Increasing(Tail(s))
           /\ \A e : Contains(Tail(s), e) => Head(s) < e
  <1>1. /\ Len(s) \in Nat \ {0} /\ Len(Tail(s)) = Len(s) - 1 /\ Head(s) = s[1]
        /\ \A i \in 1..(Len(s) - 1) : Tail(s)[i] = s[i + 1]
    OBVIOUS
  <1> QED BY <1>1 DEF Increasing, Contains

LEMMA IncreasingConcat ==
    ASSUME NEW s \in Seq(Event), NEW t \in Seq(Event), Increasing(s), Increasing(t),
           \A e, f : Contains(s, e) /\ Contains(t, f) => e < f
    PROVE  Increasing(s \o t)
  <1>1. /\ Len(s) \in Nat /\ Len(t) \in Nat /\ Len(s \o t) = Len(s) + Len(t)
        /\ \A i \in 1..Len(s) : (s \o t)[i] = s[i]
        /\ \A i \in (Len(s) + 1)..(Len(s) + Len(t)) : (s \o t)[i] = t[i - Len(s)]
    OBVIOUS
  <1> SUFFICES ASSUME NEW i \in 1..Len(s \o t), NEW j \in 1..Len(s \o t), i < j
               PROVE  (s \o t)[i] < (s \o t)[j]
    BY DEF Increasing
  <1>2. CASE j \in 1..Len(s)
    <2>1. i \in 1..Len(s)
      BY <1>1, <1>2
    <2> QED BY <1>1, <1>2, <2>1 DEF Increasing
  <1>3. CASE i \in 1..Len(s) /\ j \in (Len(s) + 1)..(Len(s) + Len(t))
    <2>1. j - Len(s) \in 1..Len(t)
      BY <1>1, <1>3
    <2>2. Contains(s, s[i]) /\ Contains(t, t[j - Len(s)])
      BY <1>3, <2>1 DEF Contains
    <2> QED BY <1>1, <1>3, <2>2
  <1>4. CASE i \in (Len(s) + 1)..(Len(s) + Len(t))
    <2>1. /\ j \in (Len(s) + 1)..(Len(s) + Len(t))
          /\ i - Len(s) \in 1..Len(t) /\ j - Len(s) \in 1..Len(t) /\ i - Len(s) < j - Len(s)
      BY <1>1, <1>4
    <2>2. t[i - Len(s)] < t[j - Len(s)]
      BY <2>1 DEF Increasing
    <2> QED BY <1>1, <1>4, <2>1, <2>2
  <1> QED BY <1>1, <1>2, <1>3, <1>4

(***************************************************************************)
(* The events of a lane.  The queue is the last stretch of what was        *)
(* emitted; what connections hold or were shown came before it, held after *)
(* shown, each event with one connection.                                  *)
(***************************************************************************)
Owns(c, lane, e) == Contains(shown[lane][c], e) \/ Contains(InHand(c, lane), e)

Behind(lane) == emitted[lane] - Len(queue[lane])

LaneInv(lane) ==
    /\ Len(queue[lane]) <= Cap[lane]
    /\ Behind(lane) >= 0 /\ emitted[lane] <= MaxChanges
    /\ \A i \in 1..Len(queue[lane]) : queue[lane][i] = Behind(lane) + i
    /\ \A c \in Clients :
          /\ Increasing(shown[lane][c]) /\ Increasing(InHand(c, lane))
          /\ \A e, f : Contains(shown[lane][c], e) /\ Contains(InHand(c, lane), f) => e < f
          /\ \A e : Owns(c, lane, e) => e \in 1..Behind(lane)
    /\ \A c, d \in Clients : c # d => \A e : ~ (Owns(c, lane, e) /\ Owns(d, lane, e))

(* What a lane is made of.                                                 *)
LEMMA LaneTypes ==
    ASSUME TypeInv, NEW lane \in Lanes
    PROVE  /\ queue[lane] \in Seq(Event) /\ Len(queue[lane]) \in Nat
           /\ emitted[lane] \in Nat /\ Behind(lane) \in Int
           /\ Cap[lane] \in Nat \ {0}
           /\ \A c \in Clients : shown[lane][c] \in Seq(Event) /\ InHand(c, lane) \in Seq(Event)
  BY WarRoomStreamConstants DEF TypeInv, InHand, ClientType, Behind

LEMMA NextLaneTypes ==
    ASSUME TypeInv', NEW lane \in Lanes
    PROVE  /\ queue'[lane] \in Seq(Event) /\ Len(queue'[lane]) \in Nat
           /\ emitted'[lane] \in Nat
           /\ \A c \in Clients : shown'[lane][c] \in Seq(Event) /\ InHand(c, lane)' \in Seq(Event)
  BY WarRoomStreamConstants DEF TypeInv, InHand, ClientType

LEMMA NothingContained ==
    /\ \A e : ~ Contains(<<>>, e)
    /\ Increasing(<<>>)
  BY DEF Contains, Increasing

(* A step that leaves owners as they were, or takes some of them away, and *)
(* moves what is behind the queue no further back.                         *)
LEMMA OwnersStay ==
    ASSUME TypeInv, TypeInv', NEW lane \in Lanes, LaneInv(lane),
           Behind(lane) <= Behind(lane)',
           \A c \in Clients : /\ InHand(c, lane)' \in {InHand(c, lane), <<>>}
                              /\ shown'[lane][c] = shown[lane][c]
    PROVE  /\ \A c \in Clients :
                 /\ Increasing(shown[lane][c])' /\ Increasing(InHand(c, lane))'
                 /\ \A e, f : Contains(shown[lane][c], e)' /\ Contains(InHand(c, lane), f)' => e < f
                 /\ \A e : Owns(c, lane, e)' => e \in 1..Behind(lane)'
           /\ \A c, d \in Clients : c # d => \A e : ~ (Owns(c, lane, e)' /\ Owns(d, lane, e)')
  <1>1. ASSUME NEW c \in Clients, NEW e
        PROVE  /\ Contains(shown[lane][c], e)' <=> Contains(shown[lane][c], e)
               /\ Contains(InHand(c, lane), e)' => Contains(InHand(c, lane), e)
               /\ Owns(c, lane, e)' => Owns(c, lane, e)
    BY NothingContained DEF Owns
  <1>2. \A c \in Clients : Increasing(shown[lane][c])' /\ Increasing(InHand(c, lane))'
    BY NothingContained DEF LaneInv
  <1>3. Behind(lane) \in Int /\ Behind(lane)' \in Int
    BY LaneTypes, NextLaneTypes DEF Behind
  <1>4. \A e \in 1..Behind(lane) : e \in 1..Behind(lane)'
    BY <1>3
  <1> QED BY <1>1, <1>2, <1>4 DEF LaneInv

LEMMA EmittedKeeps ==
    ASSUME TypeInv, TypeInv', NEW lane \in Lanes, LaneInv(lane), Emitted(lane)
    PROVE  /\ LaneInv(lane)'
           /\ \/ Behind(lane)' = Behind(lane)
              \/ Behind(lane)' = Behind(lane) + 1 /\ Behind(lane) < emitted[lane]
  <1> DEFINE q == queue[lane]
             e == emitted[lane] + 1
  <1>1. /\ q \in Seq(Event) /\ Len(q) \in Nat /\ Cap[lane] \in Nat \ {0}
        /\ emitted[lane] \in Nat /\ e \in Event /\ Len(q) <= Cap[lane]
        /\ Behind(lane) = e - 1 - Len(q) /\ Behind(lane) >= 0 /\ Behind(lane) \in Int
        /\ \A i \in 1..Len(q) : q[i] = Behind(lane) + i
    BY LaneTypes DEF LaneInv, Behind, Event
  <1>2. queue'[lane] = Pushed(q, lane, e) /\ emitted'[lane] = e /\ e <= MaxChanges
    BY DEF Emitted
  <1>3. Behind(lane)' = e - Len(queue'[lane])
    BY <1>2 DEF Behind
  <1> HIDE DEF q, e
  <1>4. /\ Len(queue'[lane]) <= Cap[lane]
        /\ Behind(lane) <= Behind(lane)' /\ Behind(lane)' >= 0
        /\ \A i \in 1..Len(queue'[lane]) : queue'[lane][i] = Behind(lane)' + i
        /\ \/ Behind(lane)' = Behind(lane)
           \/ Behind(lane)' = Behind(lane) + 1 /\ Behind(lane) < e - 1
    <2>1. CASE Len(q) = Cap[lane]
      <3> DEFINE r == Tail(q)
      <3>1. /\ r \in Seq(Event) /\ Len(r) = Len(q) - 1 /\ Len(r) \in Nat
            /\ \A i \in 1..Len(r) : r[i] = q[i + 1]
        BY <1>1, <2>1
      <3>2. queue'[lane] = Append(r, e)
        BY <1>2, <2>1 DEF Pushed
      <3> HIDE DEF r
      <3>3. /\ Len(queue'[lane]) = Len(q)
            /\ \A i \in 1..Len(r) : queue'[lane][i] = r[i]
            /\ queue'[lane][Len(q)] = e
        BY <1>1, <3>1, <3>2
      <3>4. Behind(lane)' = Behind(lane) + 1
        BY <1>1, <1>3, <3>3 DEF Event
      <3>5. \A i \in 1..Len(r) : r[i] = Behind(lane) + 1 + i
        BY <1>1, <3>1
      <3>6. e = Behind(lane) + 1 + Len(q)
        BY <1>1 DEF Event
      <3>7. \A i : i \in 1..Len(q) <=> i \in 1..Len(r) \/ i = Len(q)
        BY <1>1, <2>1, <3>1
      <3>8. \A i \in 1..Len(q) : queue'[lane][i] = Behind(lane) + 1 + i
        BY <3>3, <3>5, <3>6, <3>7
      <3>9. Behind(lane) < e - 1
        BY <1>1, <2>1 DEF Event
      <3> QED BY <1>1, <3>3, <3>4, <3>8, <3>9
    <2>2. CASE Len(q) # Cap[lane]
      <3>1. queue'[lane] = Append(q, e)
        BY <1>2, <2>2 DEF Pushed
      <3>2. /\ Len(queue'[lane]) = Len(q) + 1
            /\ \A i \in 1..Len(q) : queue'[lane][i] = q[i]
            /\ queue'[lane][Len(q) + 1] = e
        BY <1>1, <3>1
      <3>3. Behind(lane)' = Behind(lane)
        BY <1>1, <1>3, <3>2 DEF Event
      <3>4. e = Behind(lane) + Len(q) + 1
        BY <1>1 DEF Event
      <3> DEFINE n == Len(q)
      <3> HIDE DEF n
      <3>5. \A i : i \in 1..(n + 1) => i \in 1..n \/ i = n + 1
        <4>1. n \in Nat
          BY <1>1 DEF n
        <4> QED BY <4>1
      <3>6. \A i \in 1..Len(q) : queue'[lane][i] = Behind(lane) + i
        BY <1>1, <3>2
      <3>7. queue'[lane][Len(q) + 1] = Behind(lane) + (Len(q) + 1)
        BY <1>1, <3>2, <3>4
      <3>8. Len(queue'[lane]) <= Cap[lane]
        BY <1>1, <2>2, <3>2
      <3>9. \A i \in 1..(n + 1) : queue'[lane][i] = Behind(lane) + i
        BY <3>5, <3>6, <3>7 DEF n
      <3> QED BY <1>1, <3>2, <3>3, <3>8, <3>9 DEF n
    <2> QED BY <2>1, <2>2
  <1>5. \A c \in Clients : /\ InHand(c, lane)' \in {InHand(c, lane), <<>>}
                           /\ shown'[lane][c] = shown[lane][c]
    BY DEF Emitted
  <1>6. LaneInv(lane)'
    BY <1>2, <1>4, <1>5, OwnersStay DEF LaneInv
  <1>7. e - 1 = emitted[lane]
    BY <1>1 DEF e
  <1> QED BY <1>4, <1>6, <1>7

LEMMA DroppedKeeps ==
    ASSUME TypeInv, TypeInv', NEW lane \in Lanes, LaneInv(lane), Dropped(lane)
    PROVE  /\ LaneInv(lane)'
           /\ Behind(lane) <= Behind(lane)' /\ emitted'[lane] = emitted[lane]
  <1>1. /\ Len(queue[lane]) \in Nat /\ emitted[lane] \in Nat /\ Cap[lane] \in Nat
        /\ emitted'[lane] = emitted[lane]
        /\ queue'[lane] = queue[lane] \/ queue'[lane] = <<>>
    BY LaneTypes DEF Dropped
  <1>2. Behind(lane)' = emitted[lane] - Len(queue'[lane])
    BY <1>1 DEF Behind
  <1>3. /\ Len(queue'[lane]) <= Cap[lane]
        /\ Behind(lane) <= Behind(lane)' /\ Behind(lane)' >= 0
        /\ \A i \in 1..Len(queue'[lane]) : queue'[lane][i] = Behind(lane)' + i
    BY <1>1, <1>2 DEF LaneInv, Behind
  <1> QED BY <1>1, <1>3, OwnersStay DEF LaneInv, Dropped

(* What a drain takes, and what it leaves.                                 *)
LEMMA DrainSplits ==
    ASSUME TypeInv, NEW lane \in Lanes, LaneInv(lane), NEW k \in 0..Len(queue[lane])
    PROVE  LET taken == SubSeq(queue[lane], 1, k)
               left  == SubSeq(queue[lane], k + 1, Len(queue[lane]))
           IN  /\ Increasing(taken)
               /\ \A e : Contains(taken, e) <=> e \in (Behind(lane) + 1)..(Behind(lane) + k)
               /\ Len(left) = Len(queue[lane]) - k
               /\ \A i \in 1..Len(left) : left[i] = Behind(lane) + k + i
  <1> DEFINE q == queue[lane]
             taken == SubSeq(q, 1, k)
             left == SubSeq(q, k + 1, Len(q))
  <1>1. /\ q \in Seq(Event) /\ Len(q) \in Nat /\ Behind(lane) \in Int
        /\ k \in 0..Len(q) /\ k \in Nat
        /\ \A i \in 1..Len(q) : q[i] = Behind(lane) + i
    BY LaneTypes DEF LaneInv
  <1> HIDE DEF q
  <1>2. /\ Len(taken) = k /\ \A i \in 1..k : taken[i] = q[i]
        /\ Len(left) = Len(q) - k /\ \A i \in 1..Len(left) : left[i] = q[i + k]
    BY <1>1
  <1> HIDE DEF taken, left
  <1>3. \A i \in 1..k : taken[i] = Behind(lane) + i
    BY <1>1, <1>2
  <1>4. Increasing(taken)
    BY <1>1, <1>2, <1>3 DEF Increasing
  <1>5. ASSUME NEW e
        PROVE  Contains(taken, e) <=> e \in (Behind(lane) + 1)..(Behind(lane) + k)
    <2>1. Contains(taken, e) => e \in (Behind(lane) + 1)..(Behind(lane) + k)
      BY <1>1, <1>2, <1>3 DEF Contains
    <2>2. ASSUME e \in (Behind(lane) + 1)..(Behind(lane) + k)
          PROVE  Contains(taken, e)
      <3>1. e - Behind(lane) \in 1..k /\ Behind(lane) + (e - Behind(lane)) = e
        BY <1>1, <2>2
      <3> QED BY <1>2, <1>3, <3>1 DEF Contains
    <2> QED BY <2>1, <2>2
  <1>6. \A i \in 1..Len(left) : left[i] = Behind(lane) + k + i
    BY <1>1, <1>2
  <1> QED BY <1>2, <1>4, <1>5, <1>6 DEF q, taken, left

LEMMA DrainedKeeps ==
    ASSUME TypeInv, TypeInv', NEW lane \in Lanes, LaneInv(lane), NEW c \in Clients,
           Drained(c, lane)
    PROVE  /\ LaneInv(lane)'
           /\ Behind(lane)' = Behind(lane) + Taken(lane)
           /\ \A e : Contains(InHand(c, lane), e)' <=>
                        e \in (Behind(lane) + 1)..(Behind(lane) + Taken(lane))
  <1> DEFINE k == Taken(lane)
             b == Behind(lane)
             taken == SubSeq(queue[lane], 1, k)
             left == SubSeq(queue[lane], k + 1, Len(queue[lane]))
  <1>1. /\ Len(queue[lane]) \in Nat /\ k \in 0..Len(queue[lane]) /\ emitted[lane] \in Nat
        /\ Cap[lane] \in Nat /\ b = emitted[lane] - Len(queue[lane]) /\ b >= 0 /\ b \in Int
        /\ Len(queue[lane]) <= Cap[lane] /\ emitted[lane] <= MaxChanges
    BY LaneTypes, TakenType DEF LaneInv, Behind
  <1>2. /\ Increasing(taken)
        /\ \A e : Contains(taken, e) <=> e \in (b + 1)..(b + k)
        /\ Len(left) = Len(queue[lane]) - k
        /\ \A i \in 1..Len(left) : left[i] = b + k + i
    BY <1>1, DrainSplits
  <1>3. /\ InHand(c, lane)' = taken /\ InHand(c, lane) = <<>>
        /\ queue'[lane] = left /\ emitted'[lane] = emitted[lane]
        /\ \A d \in Clients : /\ d # c => InHand(d, lane)' = InHand(d, lane)
                              /\ shown'[lane][d] = shown[lane][d]
    BY DEF Drained
  <1>4. Behind(lane)' = emitted'[lane] - Len(queue'[lane])
    BY DEF Behind
  <1> HIDE DEF k, taken, left
  <1>5. Behind(lane)' = b + k
    BY <1>1, <1>2, <1>3, <1>4
  <1> HIDE DEF b
  <1>6. /\ Len(queue'[lane]) <= Cap[lane]
        /\ Behind(lane)' >= 0 /\ emitted'[lane] <= MaxChanges
        /\ \A i \in 1..Len(queue'[lane]) : queue'[lane][i] = Behind(lane)' + i
    BY <1>1, <1>2, <1>3, <1>5
  <1>7. ASSUME NEW d \in Clients, NEW e
        PROVE  /\ Contains(shown[lane][d], e)' <=> Contains(shown[lane][d], e)
               /\ d # c => (Contains(InHand(d, lane), e)' <=> Contains(InHand(d, lane), e))
               /\ d # c => (Owns(d, lane, e)' <=> Owns(d, lane, e))
               /\ Contains(InHand(c, lane), e)' => e \in (b + 1)..(b + k)
               /\ Owns(c, lane, e)' => Owns(c, lane, e) \/ e \in (b + 1)..(b + k)
               /\ Owns(d, lane, e) => e \in 1..b
    BY <1>2, <1>3 DEF Owns, LaneInv, b
  <1>8. ASSUME NEW d \in Clients
        PROVE  /\ Increasing(shown[lane][d])' /\ Increasing(InHand(d, lane))'
               /\ \A e, f : Contains(shown[lane][d], e)' /\ Contains(InHand(d, lane), f)' => e < f
               /\ \A e : Owns(d, lane, e)' => e \in 1..Behind(lane)'
    <2>1. Increasing(shown[lane][d])' /\ Increasing(InHand(d, lane))'
      BY <1>2, <1>3 DEF LaneInv
    <2>2. ASSUME NEW e, NEW f, Contains(shown[lane][d], e)', Contains(InHand(d, lane), f)'
          PROVE  e < f
      <3>1. CASE d = c
        <4>1. e \in 1..b /\ f \in (b + 1)..(b + k)
          BY <1>7, <2>2, <3>1 DEF Owns
        <4> QED BY <1>1, <4>1
      <3>2. CASE d # c
        BY <1>7, <2>2, <3>2 DEF LaneInv
      <3> QED BY <3>1, <3>2
    <2>3. ASSUME NEW e, Owns(d, lane, e)'
          PROVE  e \in 1..Behind(lane)'
      <3>1. e \in 1..b \/ e \in (b + 1)..(b + k)
        BY <1>7, <2>3
      <3> QED BY <1>1, <1>5, <3>1
    <2> QED BY <2>1, <2>2, <2>3
  <1>9. ASSUME NEW d \in Clients, NEW f \in Clients, d # f, NEW e,
               Owns(d, lane, e)', Owns(f, lane, e)'
        PROVE  FALSE
    <2>1. ~ (e \in 1..b /\ e \in (b + 1)..(b + k))
      BY <1>1
    <2>2. ~ (Owns(d, lane, e) /\ Owns(f, lane, e))
      BY <1>9 DEF LaneInv
    <2> QED BY <1>7, <1>9, <2>1, <2>2
  <1>10. LaneInv(lane)'
    BY <1>6, <1>8, <1>9 DEF LaneInv
  <1> QED BY <1>2, <1>3, <1>5, <1>10 DEF b, k

LEMMA SentKeeps ==
    ASSUME TypeInv, TypeInv', NEW lane \in Lanes, LaneInv(lane), NEW c \in Clients,
           Sent(c, lane)
    PROVE  /\ LaneInv(lane)'
           /\ \A d \in Clients : \A e : Owns(d, lane, e)' <=> Owns(d, lane, e)
           /\ \A e : Contains(shown[lane][c], e)' <=>
                        Contains(shown[lane][c], e) \/ e = Head(InHand(c, lane))
  <1> DEFINE h == InHand(c, lane)
             s == shown[lane][c]
  <1>1. h \in Seq(Event) /\ h # <<>> /\ s \in Seq(Event) /\ Head(h) \in Event
    BY LaneTypes DEF Sent
  <1>2. /\ InHand(c, lane)' = Tail(h) /\ shown'[lane][c] = Append(s, Head(h))
        /\ queue'[lane] = queue[lane] /\ emitted'[lane] = emitted[lane]
        /\ \A d \in Clients : d # c => /\ InHand(d, lane)' = InHand(d, lane)
                                       /\ shown'[lane][d] = shown[lane][d]
    BY DEF Sent
  <1>3. Behind(lane)' = Behind(lane)
    BY <1>2 DEF Behind
  <1>4. /\ Increasing(s) /\ Increasing(h)
        /\ \A e, f : Contains(s, e) /\ Contains(h, f) => e < f
    BY DEF LaneInv
  <1> HIDE DEF h, s
  <1>5. \A e : Contains(h, e) <=> e = Head(h) \/ Contains(Tail(h), e)
    BY <1>1, ContainsTail
  <1>6. \A e : Contains(Append(s, Head(h)), e) <=> Contains(s, e) \/ e = Head(h)
    BY <1>1, ContainsAppend
  <1>7. Increasing(Append(s, Head(h)))
    BY <1>1, <1>4, <1>5, IncreasingAppend
  <1>8. Increasing(Tail(h)) /\ \A e : Contains(Tail(h), e) => Head(h) < e
    BY <1>1, <1>4, IncreasingTail
  <1>9. ASSUME NEW d \in Clients, NEW e
        PROVE  Owns(d, lane, e)' <=> Owns(d, lane, e)
    BY <1>2, <1>5, <1>6 DEF Owns, h, s
  <1>10. ASSUME NEW d \in Clients
         PROVE  /\ Increasing(shown[lane][d])' /\ Increasing(InHand(d, lane))'
                /\ \A e, f : Contains(shown[lane][d], e)' /\ Contains(InHand(d, lane), f)' => e < f
    <2>1. CASE d = c
      BY <1>2, <1>4, <1>5, <1>6, <1>7, <1>8, <2>1
    <2>2. CASE d # c
      BY <1>2, <2>2 DEF LaneInv
    <2> QED BY <2>1, <2>2
  <1>11. LaneInv(lane)'
    BY <1>2, <1>3, <1>9, <1>10 DEF LaneInv
  <1> QED BY <1>2, <1>6, <1>9, <1>11 DEF h, s

LEMMA LanesCorrect == StreamSpec => []\A lane \in Lanes : LaneInv(lane)
  <1>1. StreamInit => \A lane \in Lanes : LaneInv(lane)
    <2> SUFFICES ASSUME StreamInit, NEW lane \in Lanes
                 PROVE  LaneInv(lane)
      OBVIOUS
    <2>1. /\ queue[lane] = <<>> /\ emitted[lane] = 0
          /\ \A c \in Clients : shown[lane][c] = <<>> /\ InHand(c, lane) = <<>>
      BY GoneType DEF StreamInit, InHand
    <2>2. Cap[lane] \in Nat /\ MaxChanges \in Nat
      BY WarRoomStreamConstants
    <2> QED BY <2>1, <2>2, NothingContained DEF LaneInv, Behind, Owns
  <1>2. /\ TypeInv /\ (\A lane \in Lanes : LaneInv(lane)) /\ [StreamNext]_streamVars
        => (\A lane \in Lanes : LaneInv(lane))'
    <2> SUFFICES ASSUME TypeInv, \A lane \in Lanes : LaneInv(lane), [StreamNext]_streamVars,
                        NEW lane \in Lanes
                 PROVE  LaneInv(lane)'
      OBVIOUS
    <2>1. TypeInv' /\ LaneStep(lane)
      BY StepKeeps
    <2> QED BY <2>1, EmittedKeeps, DroppedKeeps, DrainedKeeps, SentKeeps DEF LaneStep
  <1> QED BY <1>1, <1>2, StreamTyped, PTL DEF StreamSpec

(* Nothing is sent out of order, twice or to two connections, and what a   *)
(* full queue drops is its oldest: for every number of connections, queue  *)
(* length, drain size and rate limit.                                      *)
THEOREM QueuesAreRight == StreamSpec => []QueuesRight
  <1>1. TypeInv /\ (\A lane \in Lanes : LaneInv(lane)) => QueuesRight
    <2> SUFFICES ASSUME TypeInv, \A lane \in Lanes : LaneInv(lane)
                 PROVE  QueuesRight
      OBVIOUS
    <2>1. StreamTypeOK
      BY DEF StreamTypeOK, TypeInv, ClientType, Pcs, LaneInv
    <2>2. InOrder
      <3> SUFFICES ASSUME NEW c \in Clients, NEW lane \in Lanes
                   PROVE  Increasing(shown[lane][c] \o InHand(c, lane) \o queue[lane])
        BY DEF InOrder
      <3> DEFINE s == shown[lane][c]
                 h == InHand(c, lane)
                 q == queue[lane]
                 b == Behind(lane)
      <3>1. /\ s \in Seq(Event) /\ h \in Seq(Event) /\ q \in Seq(Event) /\ s \o h \in Seq(Event)
            /\ Len(q) \in Nat /\ b \in Int
        BY LaneTypes
      <3>2. /\ Increasing(s) /\ Increasing(h)
            /\ \A e, f : Contains(s, e) /\ Contains(h, f) => e < f
            /\ \A e : Contains(s, e) \/ Contains(h, e) => e \in 1..b
            /\ \A i \in 1..Len(q) : q[i] = b + i
        BY DEF LaneInv, Owns
      <3> HIDE DEF s, h, q, b
      <3>3. Increasing(s \o h)
        BY <3>1, <3>2, IncreasingConcat
      <3>4. Increasing(q)
        BY <3>1, <3>2 DEF Increasing
      <3>5. ASSUME NEW e, NEW f, Contains(s \o h, e), Contains(q, f)
            PROVE  e < f
        <4>1. e \in 1..b
          BY <3>1, <3>2, <3>5, ContainsConcat
        <4>2. f \in Int /\ f > b
          BY <3>1, <3>2, <3>5 DEF Contains
        <4> QED BY <3>1, <4>1, <4>2
      <3>6. Increasing((s \o h) \o q)
        BY <3>1, <3>3, <3>4, <3>5, IncreasingConcat
      <3> QED BY <3>6 DEF s, h, q
    <2>3. NewestKept
      BY DEF NewestKept, LaneInv, Behind, Lanes
    <2>4. OneReceiver
      <3> SUFFICES ASSUME NEW c \in Clients, NEW d \in Clients, c # d, NEW e,
                          Contains(shown["alert"][c] \o InHand(c, "alert"), e),
                          Contains(shown["alert"][d] \o InHand(d, "alert"), e)
                   PROVE  FALSE
        BY DEF OneReceiver
      <3>1. Owns(c, "alert", e) /\ Owns(d, "alert", e)
        BY LaneTypes, ContainsConcat DEF Owns, Lanes
      <3> QED BY <3>1 DEF LaneInv, Lanes
    <2> QED BY <2>1, <2>2, <2>3, <2>4 DEF QueuesRight
  <1> QED BY <1>1, StreamTyped, LanesCorrect, PTL

(***************************************************************************)
(* The alerts implement EventDelivery.                                     *)
(***************************************************************************)
Shows(e) == \E c \in Clients : Contains(shown["alert"][c], e)
Holds(e) == \E c \in Clients : Contains(InHand(c, "alert"), e)

(* The fate of an alert, by where it is in the order of emission.          *)
FateRight ==
    \A e \in 1..MaxChanges :
        /\ Shows(e) => e <= Behind("alert") /\ ~ Holds(e) /\ Fate[e] = "shown"
        /\ Holds(e) => e <= Behind("alert") /\ Fate[e] = "held"
        /\ e <= Behind("alert") /\ ~ Shows(e) /\ ~ Holds(e) => Fate[e] = "lost"
        /\ e > Behind("alert") /\ e <= emitted["alert"] => Fate[e] = "queued"
        /\ e > emitted["alert"] => Fate[e] = "unborn"

LEMMA FateIsRight ==
    TypeInv /\ LaneInv("alert") => FateRight
  <1> SUFFICES ASSUME TypeInv, LaneInv("alert"), NEW e \in 1..MaxChanges
               PROVE  /\ Shows(e) => e <= Behind("alert") /\ ~ Holds(e) /\ Fate[e] = "shown"
                      /\ Holds(e) => e <= Behind("alert") /\ Fate[e] = "held"
                      /\ e <= Behind("alert") /\ ~ Shows(e) /\ ~ Holds(e) => Fate[e] = "lost"
                      /\ e > Behind("alert") /\ e <= emitted["alert"] => Fate[e] = "queued"
                      /\ e > emitted["alert"] => Fate[e] = "unborn"
    BY DEF FateRight
  <1> DEFINE b == Behind("alert")
             q == queue["alert"]
  <1>1. /\ Len(q) \in Nat /\ b \in Int /\ emitted["alert"] \in Nat /\ b + Len(q) = emitted["alert"]
        /\ \A i \in 1..Len(q) : q[i] = b + i
        /\ b >= 0
    <2>1. "alert" \in Lanes
      BY DEF Lanes
    <2>2. Len(q) \in Nat /\ b \in Int /\ emitted["alert"] \in Nat
      BY <2>1, LaneTypes
    <2>3. b = emitted["alert"] - Len(q)
      BY DEF Behind
    <2>4. (\A i \in 1..Len(q) : q[i] = b + i) /\ b >= 0
      BY DEF LaneInv
    <2> HIDE DEF b, q
    <2> QED BY <2>2, <2>3, <2>4
  <1>2. Fate[e] = IF Shows(e) THEN "shown" ELSE IF Holds(e) THEN "held"
                  ELSE IF Contains(q, e) THEN "queued"
                  ELSE IF e <= emitted["alert"] THEN "lost" ELSE "unborn"
    BY DEF Fate, Shows, Holds
  <1> HIDE DEF b, q
  <1>3. Contains(q, e) <=> e > b /\ e <= emitted["alert"]
    <2>1. Contains(q, e) => e > b /\ e <= emitted["alert"]
      BY <1>1 DEF Contains
    <2>2. ASSUME e > b, e <= emitted["alert"]
          PROVE  Contains(q, e)
      <3>1. e - b \in 1..Len(q) /\ b + (e - b) = e
        BY <1>1, <2>2
      <3> QED BY <1>1, <3>1 DEF Contains
    <2> QED BY <2>1, <2>2
  <1>4. Shows(e) \/ Holds(e) => e <= b
    <2>1. ASSUME NEW c \in Clients, Owns(c, "alert", e)
          PROVE  e <= b
      <3>1. e \in 1..b
        BY <2>1 DEF LaneInv, b
      <3> QED BY <1>1, <3>1
    <2> QED BY <2>1 DEF Shows, Holds, Owns
  <1>5. ASSUME Shows(e), Holds(e) PROVE FALSE
    <2> PICK c \in Clients : Contains(shown["alert"][c], e)
      BY <1>5 DEF Shows
    <2> PICK d \in Clients : Contains(InHand(d, "alert"), e)
      BY <1>5 DEF Holds
    <2>1. CASE c = d
      <3>1. e < e
        BY <2>1 DEF LaneInv
      <3> QED BY <3>1
    <2>2. CASE c # d
      BY <2>2 DEF LaneInv, Owns
    <2> QED BY <2>1, <2>2
  <1> QED BY <1>1, <1>2, <1>3, <1>4, <1>5 DEF b
LEMMA NextFateIsRight ==
    ASSUME TypeInv', LaneInv("alert")'
    PROVE  FateRight'
  BY FateIsRight, PTL

(* A fate is a function of the alerts; it is read off alert by alert.      *)
LEMMA FateShape ==
    /\ DOMAIN Fate = 1..MaxChanges /\ DOMAIN Fate' = 1..MaxChanges
    /\ Fate = [e \in 1..MaxChanges |-> Fate[e]]
    /\ Fate' = [e \in 1..MaxChanges |-> Fate'[e]]
  BY DEF Fate

(* Where an alert is, before and after a step.                             *)
BothRight ==
    /\ FateRight /\ FateRight'
    /\ Behind("alert") \in Nat /\ Behind("alert")' \in Nat
    /\ emitted["alert"] \in Nat /\ emitted'["alert"] \in Nat /\ MaxChanges \in Nat
    /\ Behind("alert") <= emitted["alert"] /\ Behind("alert")' <= emitted'["alert"]
    /\ emitted["alert"] <= MaxChanges /\ emitted'["alert"] <= MaxChanges

LEMMA RightBeforeAndAfter ==
    ASSUME TypeInv, TypeInv', LaneInv("alert"), LaneInv("alert")'
    PROVE  BothRight
  <1>1. "alert" \in Lanes /\ MaxChanges \in Nat
    BY WarRoomStreamConstants DEF Lanes
  <1>2. FateRight /\ FateRight'
    BY FateIsRight, NextFateIsRight
  <1>3. /\ Len(queue["alert"]) \in Nat /\ emitted["alert"] \in Nat
        /\ Len(queue'["alert"]) \in Nat /\ emitted'["alert"] \in Nat
    BY <1>1, LaneTypes, NextLaneTypes
  <1>4. /\ Behind("alert") >= 0 /\ emitted["alert"] <= MaxChanges
        /\ Behind("alert")' >= 0 /\ emitted'["alert"] <= MaxChanges
    BY DEF LaneInv
  <1>5. /\ Behind("alert") = emitted["alert"] - Len(queue["alert"])
        /\ Behind("alert")' = emitted'["alert"] - Len(queue'["alert"])
    BY DEF Behind
  <1> QED BY <1>1, <1>2, <1>3, <1>4, <1>5 DEF BothRight

LEMMA DroppedLoses ==
    ASSUME BothRight, Dropped("alert"), Behind("alert") <= Behind("alert")'
    PROVE  Delivery!Lose
  <1>1. \A e : (Shows(e)' <=> Shows(e)) /\ (Holds(e)' => Holds(e))
    BY NothingContained DEF Dropped, Shows, Holds
  <1>2. emitted'["alert"] = emitted["alert"]
    BY DEF Dropped
  <1>3. ASSUME NEW e \in 1..MaxChanges
        PROVE  Fate'[e] = Fate[e] \/ (Fate[e] \in {"queued", "held"} /\ Fate'[e] = "lost")
    <2>1. CASE Shows(e)
      BY <1>1, <2>1 DEF BothRight, FateRight
    <2>2. CASE Holds(e)
      BY <1>1, <1>2, <2>2 DEF BothRight, FateRight
    <2>3. CASE ~ Shows(e) /\ ~ Holds(e)
      BY <1>1, <1>2, <2>3 DEF BothRight, FateRight
    <2> QED BY <2>1, <2>2, <2>3
  <1> QED BY <1>3, FateShape DEF Delivery!Lose, Delivery!Come

LEMMA DrainedTakes ==
    ASSUME BothRight, NEW c \in Clients, Drained(c, "alert"), Taken("alert") \in Nat,
           Behind("alert")' = Behind("alert") + Taken("alert"),
           \A e : Contains(InHand(c, "alert"), e)' <=>
                     e \in (Behind("alert") + 1)..(Behind("alert") + Taken("alert"))
    PROVE  Delivery!Take
  <1> DEFINE b == Behind("alert")
             k == Taken("alert")
  <1>1. \A e : Shows(e)' <=> Shows(e)
    BY DEF Drained, Shows
  <1>2. \A e : Holds(e)' <=> Holds(e) \/ e \in (b + 1)..(b + k)
    <2>1. \A e : ~ Contains(InHand(c, "alert"), e)
      BY NothingContained DEF Drained
    <2>2. \A d \in Clients : d # c => InHand(d, "alert")' = InHand(d, "alert")
      BY DEF Drained
    <2> QED BY <2>1, <2>2 DEF Holds
  <1>3. emitted'["alert"] = emitted["alert"]
    BY DEF Drained
  <1>4. b \in Nat /\ k \in Nat /\ Behind("alert")' = b + k
    BY DEF BothRight
  <1> HIDE DEF b, k
  <1>5. ASSUME NEW e \in 1..MaxChanges
        PROVE  Fate'[e] = Fate[e] \/ (Fate[e] \in {"queued"} /\ Fate'[e] = "held")
    <2>1. CASE Shows(e)
      BY <1>1, <2>1 DEF BothRight, FateRight
    <2>2. CASE Holds(e)
      BY <1>2, <2>2 DEF BothRight, FateRight
    <2>3. CASE ~ Shows(e) /\ ~ Holds(e) /\ e \in (b + 1)..(b + k)
      <3>1. Fate'[e] = "held" /\ e <= emitted["alert"]
        BY <1>2, <1>3, <1>4, <2>3 DEF BothRight, FateRight
      <3>2. e > Behind("alert")
        BY <1>4, <2>3 DEF b
      <3> QED BY <3>1, <3>2 DEF BothRight, FateRight
    <2>4. CASE ~ Shows(e) /\ ~ Holds(e) /\ e \notin (b + 1)..(b + k)
      <3>1. ~ Shows(e)' /\ ~ Holds(e)'
        BY <1>1, <1>2, <2>4
      <3>2. e <= Behind("alert") \/ e > Behind("alert")'
        BY <1>4, <2>4 DEF b
      <3>3. e <= Behind("alert") => e <= Behind("alert")'
        BY <1>4 DEF b
      <3> QED BY <1>3, <2>4, <3>1, <3>2, <3>3 DEF BothRight, FateRight
    <2> QED BY <2>1, <2>2, <2>3, <2>4
  <1> QED BY <1>5, FateShape DEF Delivery!Take, Delivery!Come

LEMMA EmittedEmits ==
    ASSUME BothRight, Emitted("alert"),
           \/ Behind("alert")' = Behind("alert")
           \/ Behind("alert")' = Behind("alert") + 1 /\ Behind("alert") < emitted["alert"]
    PROVE  \E e \in 1..MaxChanges : Delivery!Emit(e)
  <1> DEFINE b == Behind("alert")
             n == emitted["alert"] + 1
  <1>1. \A e : (Shows(e)' <=> Shows(e)) /\ (Holds(e)' <=> Holds(e))
    BY DEF Emitted, Shows, Holds
  <1>2. emitted'["alert"] = n /\ n \in 1..MaxChanges /\ emitted["alert"] = n - 1 /\ n \in Nat
    BY DEF Emitted, BothRight
  <1>3. b \in Nat /\ b <= n - 1
    BY DEF BothRight
  <1>4. \A e \in 1..MaxChanges : e > b => ~ Shows(e) /\ ~ Holds(e)
    BY <1>3 DEF BothRight, FateRight
  <1>5. Fate[n] = "unborn"
    BY <1>2 DEF BothRight, FateRight
  <1>6. Fate'[n] = "queued"
    <2>1. n > Behind("alert")' /\ n <= emitted'["alert"]
      BY <1>2, <1>3
    <2> QED BY <1>2, <2>1 DEF BothRight, FateRight
  <1>7. ASSUME NEW e \in 1..MaxChanges, e # n, e <= b \/ e > Behind("alert")'
        PROVE  Fate'[e] = Fate[e]
    <2>1. e <= emitted["alert"] <=> e <= emitted'["alert"]
      BY <1>2, <1>7
    <2>2. e <= b <=> e <= Behind("alert")'
      BY <1>3, <1>7
    <2>3. emitted["alert"] \in Int /\ emitted'["alert"] \in Int /\ b \in Int /\ Behind("alert")' \in Int
      BY <1>3 DEF BothRight
    <2> QED BY <1>1, <2>1, <2>2, <2>3 DEF BothRight, FateRight
  <1>8. CASE Behind("alert")' = b
    <2>1. \A e \in 1..MaxChanges : e # n => Fate'[e] = Fate[e]
      BY <1>3, <1>7, <1>8
    <2>2. Fate' = [Fate EXCEPT ![n] = "queued"]
      BY <1>2, <1>6, <2>1, FateShape
    <2> QED BY <1>2, <1>5, <2>2 DEF Delivery!Emit
  <1>9. CASE Behind("alert")' = b + 1 /\ b < emitted["alert"]
    <2> DEFINE o == b + 1
    <2>1. o \in 1..MaxChanges /\ o # n /\ o > b /\ o <= emitted["alert"] /\ o <= Behind("alert")'
      <3>1. MaxChanges \in Nat /\ o \in Nat \ {0} /\ o = b + 1
        BY <1>3 DEF BothRight
      <3>2. n <= MaxChanges
        BY <1>2
      <3> HIDE DEF o, n
      <3> QED BY <1>2, <1>3, <1>9, <3>1, <3>2
    <2> HIDE DEF o
    <2>2. Fate[o] = "queued"
      BY <2>1 DEF BothRight, FateRight
    <2>3. Fate'[o] = "lost"
      BY <1>1, <1>4, <2>1 DEF BothRight, FateRight
    <2>4. \A e \in 1..MaxChanges : e # n /\ e # o => Fate'[e] = Fate[e]
      BY <1>3, <1>7, <1>9 DEF o
    <2>5. Fate' = [Fate EXCEPT ![n] = "queued", ![o] = "lost"]
      BY <1>2, <1>6, <2>1, <2>3, <2>4, FateShape
    <2> QED BY <1>2, <1>5, <2>1, <2>2, <2>5 DEF Delivery!Emit
  <1> QED BY <1>8, <1>9

LEMMA SentShows ==
    ASSUME BothRight, NEW c \in Clients, Sent(c, "alert"), LaneInv("alert"), TypeInv,
           \A d \in Clients : \A e : Owns(d, "alert", e)' <=> Owns(d, "alert", e),
           \A e : Contains(shown["alert"][c], e)' <=>
                     Contains(shown["alert"][c], e) \/ e = Head(InHand(c, "alert"))
    PROVE  \E e \in 1..MaxChanges : Delivery!Show(e)
  <1> DEFINE h == InHand(c, "alert")
             x == Head(h)
  <1>1. h \in Seq(Event) /\ h # <<>> /\ Contains(h, x)
    <2>1. h \in Seq(Event) /\ h # <<>>
      BY LaneTypes DEF Sent, Lanes
    <2> HIDE DEF h
    <2>2. 1 \in 1..Len(h) /\ h[1] = x
      BY <2>1
    <2> QED BY <2>1, <2>2 DEF Contains
  <1>2. x \in 1..MaxChanges /\ Holds(x)
    <2>1. Owns(c, "alert", x)
      BY <1>1 DEF Owns
    <2>2. x \in 1..Behind("alert")
      BY <2>1 DEF LaneInv
    <2>3. Behind("alert") \in Nat /\ Behind("alert") <= MaxChanges /\ MaxChanges \in Nat
      BY DEF BothRight
    <2> HIDE DEF x
    <2>4. x \in 1..MaxChanges
      BY <2>2, <2>3
    <2> QED BY <1>1, <2>4 DEF Holds
  <1>3. \A d \in Clients : d # c => shown'["alert"][d] = shown["alert"][d]
    BY DEF Sent
  <1>4. \A e : Shows(e)' <=> Shows(e) \/ e = x
    BY <1>3 DEF Shows
  <1>5. \A e : Shows(e)' \/ Holds(e)' <=> Shows(e) \/ Holds(e)
    BY DEF Shows, Holds, Owns
  <1>6. emitted'["alert"] = emitted["alert"] /\ Behind("alert")' = Behind("alert")
    BY DEF Sent, Behind
  <1> HIDE DEF x, h
  <1>7. Fate[x] = "held" /\ Fate'[x] = "shown"
    BY <1>2, <1>4 DEF BothRight, FateRight
  <1>8. ASSUME NEW e \in 1..MaxChanges, e # x
        PROVE  Fate'[e] = Fate[e]
    <2>1. CASE Shows(e)
      BY <1>4, <2>1 DEF BothRight, FateRight
    <2>2. CASE ~ Shows(e)
      <3>1. ~ Shows(e)' /\ (Holds(e)' <=> Holds(e))
        BY <1>4, <1>5, <1>8, <2>2
      <3> QED BY <1>6, <2>2, <3>1 DEF BothRight, FateRight
    <2> QED BY <2>1, <2>2
  <1>9. Fate' = [Fate EXCEPT ![x] = "shown"]
    BY <1>2, <1>7, <1>8, FateShape
  <1> QED BY <1>2, <1>7, <1>9 DEF Delivery!Show

(* Every alert goes from the queue to at most one connection and is then   *)
(* shown there or lost, and nothing comes back, whichever drains, sends,   *)
(* refusals, closed connections and restarts come between: the stream      *)
(* implements EventDelivery.                                               *)
THEOREM AlertsAreDelivered == StreamSpec => AlertsDelivered
  <1>1. "alert" \in Lanes
    BY DEF Lanes
  <1>2. StreamInit => Delivery!EInit
    <2> SUFFICES ASSUME StreamInit
                 PROVE  Delivery!EInit
      OBVIOUS
    <2>1. queue["alert"] = <<>> /\ emitted["alert"] = 0
      BY <1>1 DEF StreamInit
    <2>2. \A c \in Clients : shown["alert"][c] = <<>> /\ InHand(c, "alert") = <<>>
      BY <1>1, GoneType DEF StreamInit, InHand, Sending
    <2>3. \A e \in 1..MaxChanges : ~ (e <= 0)
      BY WarRoomStreamConstants
    <2> QED BY <2>1, <2>2, <2>3, NothingContained DEF Delivery!EInit, Fate
  <1>3. /\ TypeInv /\ TypeInv' /\ (\A lane \in Lanes : LaneInv(lane))
        /\ (\A lane \in Lanes : LaneInv(lane))' /\ [StreamNext]_streamVars
        => [Delivery!ENext]_Fate
    <2> SUFFICES ASSUME TypeInv, TypeInv', \A lane \in Lanes : LaneInv(lane),
                        (\A lane \in Lanes : LaneInv(lane))', [StreamNext]_streamVars
                 PROVE  Delivery!ENext
      OBVIOUS
    <2>1. LaneInv("alert") /\ LaneInv("alert")'
      BY <1>1
    <2>2. LaneStep("alert")
      BY <1>1, StepKeeps
    <2>3. BothRight
      BY <2>1, RightBeforeAndAfter
    <2>4. CASE Emitted("alert")
      BY <1>1, <2>1, <2>3, <2>4, EmittedKeeps, EmittedEmits DEF Delivery!ENext
    <2>5. CASE Dropped("alert")
      BY <1>1, <2>1, <2>3, <2>5, DroppedKeeps, DroppedLoses DEF Delivery!ENext
    <2>6. ASSUME NEW c \in Clients, Drained(c, "alert")
          PROVE  Delivery!ENext
      <3>1. Taken("alert") \in Nat
        BY <1>1, TakenType, LaneTypes
      <3> QED BY <1>1, <2>1, <2>3, <2>6, <3>1, DrainedKeeps, DrainedTakes DEF Delivery!ENext
    <2>7. ASSUME NEW c \in Clients, Sent(c, "alert")
          PROVE  Delivery!ENext
      BY <1>1, <2>1, <2>3, <2>7, SentKeeps, SentShows DEF Delivery!ENext
    <2> QED BY <2>2, <2>4, <2>5, <2>6, <2>7 DEF LaneStep
  <1> QED BY <1>2, <1>3, StreamTyped, LanesCorrect, PTL
          DEF StreamSpec, AlertsDelivered, Delivery!EventSpec
=============================================================================
