--------------------------- MODULE WarRoomStream ---------------------------
(***************************************************************************)
(* The war-room event stream (war_room_stream.py and event_gen in api.py). *)
(* Two bounded in-memory queues, one of graph-node events and one of price *)
(* alerts, a version counter, and one generator per connection that drains *)
(* the queues, asks a rate limit before every event, and sends a snapshot  *)
(* of the intent log whenever a fingerprint changed.                       *)
(*                                                                         *)
(* The queues are of one process, the server.  The research graph runs in  *)
(* main.py's process (run_crew.py starts it as a subprocess): its node     *)
(* events go to queues that nobody drains, and the server's node queue     *)
(* gets none.                                                              *)
(***************************************************************************)
EXTENDS Integers, Sequences, SequencesExt, FiniteSetsExt

CONSTANTS Clients,   \* browsers, with one connection each at a time
          Cap,       \* [Lanes -> maxlen of the deque]      (200 and 64)
          DrainMax,  \* [Lanes -> max_items of one drain]   (50 and 16)
          MaxEps,    \* SSE_MAX_EVENTS_PER_SEC, 0 for no limit
          Interval,  \* half seconds between two polls      (TERMINAL_SSE_POLL_SEC)
          Watched,   \* number of symbols a connection watches
          Emitters,  \* the lanes that something in this process emits to
          MaxChanges \* bound on emits, log changes and restarts

Lanes == {"node", "alert"}

ASSUME WarRoomStreamConstants ==
    /\ Cap \in [Lanes -> Nat \ {0}] /\ DrainMax \in [Lanes -> Nat \ {0}]
    /\ MaxEps \in Nat /\ Watched \in Nat /\ Interval \in Nat \ {0}
    /\ Emitters \subseteq Lanes /\ MaxChanges \in Nat

VARIABLES queue,    \* [Lanes -> events]: the two deques
          version,  \* _stream_version of the server
          unbumped, \* threads of the server between a change and its bump
          log,      \* number of changes of the intent log: its mtime
          client,   \* locals of each connection's event_gen
          \* what happened so far
          emitted,  \* [Lanes -> number of events emitted]
          shown,    \* [Lanes -> [Clients -> events sent]]
          starts    \* times the server was started

streamVars == <<queue, version, unbumped, log, client, emitted, shown, starts>>

MoreChanges == emitted["node"] + emitted["alert"] + log + starts <= MaxChanges

(* Operators named X_Mutant_<mistake> are not part of the specification:   *)
(* each is a plausible mistake in X that the runs must reject.             *)

Event == Nat \ {0}   \* events of a lane are numbered as they are emitted

NoFp == [version |-> -1, log |-> -1]

Gone == [pc |-> "gone", hand |-> <<>>, count |-> 0, age |-> 0,
         lastFp |-> NoFp, seen |-> -1]
Open(c) == client[c].pc # "gone"

StreamInit ==
    /\ queue = [lane \in Lanes |-> <<>>]
    /\ version = 0 /\ unbumped = 0 /\ log = 0
    /\ client = [c \in Clients |-> Gone]
    /\ emitted = [lane \in Lanes |-> 0]
    /\ shown = [lane \in Lanes |-> [c \in Clients |-> <<>>]]
    /\ starts = 1

(***************************************************************************)
(* Producers: append under the lock, then bump under the lock again.       *)
(***************************************************************************)

(* deque(maxlen=..): the oldest makes room.                                *)
Pushed(q, lane, e) ==
    IF Len(q) = Cap[lane] THEN Append(Tail(q), e) ELSE Append(q, e)

EmitEvent(lane) ==
    /\ MoreChanges
    /\ emitted' = [emitted EXCEPT ![lane] = @ + 1]
    /\ queue' = [queue EXCEPT ![lane] = Pushed(@, lane, emitted'[lane])]
    /\ unbumped' = unbumped + 1
    /\ UNCHANGED <<version, log, client, shown, starts>>

(* A PATCH, a POST or the server's own paper tick writes the log, then     *)
(* bumps; the research graph and the scheduled tick bump a counter of      *)
(* their own process, which nobody reads.                                  *)
WriteLog(inServer) ==
    /\ MoreChanges
    /\ log' = log + 1
    /\ unbumped' = IF inServer THEN unbumped + 1 ELSE unbumped
    /\ UNCHANGED <<queue, version, client, emitted, shown, starts>>

Bump ==
    /\ unbumped > 0
    /\ unbumped' = unbumped - 1
    /\ version' = version + 1
    /\ UNCHANGED <<queue, log, client, emitted, shown, starts>>

(***************************************************************************)
(* The rate limit.  A window is a second long and is replaced by the first *)
(* call after its end.  age is the time that has surely passed in it, in   *)
(* half seconds up to 2; it may be over sooner, since a turn takes time.   *)
(***************************************************************************)
Window(cl, old) ==
    IF old THEN [cl EXCEPT !.count = 0, !.age = 0] ELSE cl

Windows(cl) == {Window(cl, old) : old \in IF cl.age = 2 THEN {TRUE} ELSE BOOLEAN}

Allowed(cl) == MaxEps = 0 \/ cl.count < MaxEps

Counted(cl) == [cl EXCEPT !.count = IF MaxEps = 0 THEN 0 ELSE @ + 1]

(***************************************************************************)
(* event_gen of one connection.                                            *)
(***************************************************************************)
Set(c, cl) == client' = [client EXCEPT ![c] = cl]

(* A browser may connect again; event_gen starts with empty locals.        *)
Connect(c) ==
    /\ ~ Open(c)
    /\ Set(c, [Gone EXCEPT !.pc = "node"])
    /\ UNCHANGED <<queue, version, unbumped, log, emitted, shown, starts>>

(* The generator ends at the top of its loop or is cancelled at a yield;   *)
(* what it had drained is lost.                                            *)
Disconnect(c) ==
    /\ Open(c)
    /\ Set(c, Gone)
    /\ UNCHANGED <<queue, version, unbumped, log, emitted, shown, starts>>

Sending(lane)   == IF lane = "node" THEN "nodes" ELSE "alerts"
Following(lane) == IF lane = "node" THEN "alert" ELSE "fp"

(* The connection cl with these events of the lane still to send.          *)
Holding(cl, lane, events) ==
    [cl EXCEPT !.hand = events,
               !.pc = IF events = <<>> THEN Following(lane) ELSE Sending(lane)]

Taken(lane) == Min({DrainMax[lane], Len(queue[lane])})

(* Copies the queue and leaves it as it is. *)
Drain_Mutant_Peeks(c, lane) ==
    /\ client[c].pc = lane
    /\ Set(c, Holding(client[c], lane, SubSeq(queue[lane], 1, Taken(lane))))
    /\ UNCHANGED <<queue, version, unbumped, log, emitted, shown, starts>>

(* drain_graph_node_events, drain_price_alert_events: one step, they hold  *)
(* the lock from the first pop to the last.                                *)
Drain(c, lane) ==
    /\ client[c].pc = lane
    /\ LET q == queue[lane] IN
       /\ Set(c, Holding(client[c], lane, SubSeq(q, 1, Taken(lane))))
       /\ queue' = [queue EXCEPT ![lane] = SubSeq(q, Taken(lane) + 1, Len(q))]
    /\ UNCHANGED <<version, unbumped, log, emitted, shown, starts>>

(* Sends the events last first. *)
Send_Mutant_Reversed(c, lane) ==
    /\ client[c].pc = Sending(lane)
    /\ \E cl \in Windows(client[c]) :
          /\ Allowed(cl)
          /\ Set(c, Holding(Counted(cl), lane, Front(cl.hand)))
          /\ shown' = [shown EXCEPT ![lane][c] = Append(@, Last(cl.hand))]
    /\ UNCHANGED <<queue, version, unbumped, log, emitted, starts>>

Send(c, lane) ==
    /\ client[c].pc = Sending(lane)
    /\ \E cl \in Windows(client[c]) :
          /\ Allowed(cl)
          /\ Set(c, Holding(Counted(cl), lane, Tail(cl.hand)))
          /\ shown' = [shown EXCEPT ![lane][c] = Append(@, Head(cl.hand))]
    /\ UNCHANGED <<queue, version, unbumped, log, emitted, starts>>

(* The loop breaks at the first refused event: it and those behind it are  *)
(* off the queue and are not sent.  (The one warning per window is left    *)
(* out.)                                                                   *)
Refuse(c, lane) ==
    /\ client[c].pc = Sending(lane)
    /\ \E cl \in Windows(client[c]) : ~ Allowed(cl) /\ Set(c, Holding(cl, lane, <<>>))
    /\ UNCHANGED <<queue, version, unbumped, log, emitted, shown, starts>>

(* Without the mtime: trusts that every change is bumped. *)
Fingerprint_Mutant_VersionOnly == [version |-> version, log |-> 0]

Fingerprint == [version |-> version, log |-> log]

(* A new fingerprint asks for a snapshot; refused by the limit, it is      *)
(* asked for again in the next turn, since last_fp stays as it was.        *)
Fingerprinted(c) ==
    /\ client[c].pc = "fp"
    /\ \/ /\ client[c].lastFp = Fingerprint
          /\ Set(c, [client[c] EXCEPT !.pc = "rest"])
       \/ /\ client[c].lastFp # Fingerprint
          /\ \E cl \in Windows(client[c]) :
                IF Allowed(cl)
                THEN Set(c, [Counted(cl) EXCEPT !.pc = "body", !.lastFp = Fingerprint])
                ELSE Set(c, [cl EXCEPT !.pc = "rest"])
    /\ UNCHANGED <<queue, version, unbumped, log, emitted, shown, starts>>

(* get_war_room_latest reads the log after the fingerprint was taken;      *)
(* requests on the thread pool and other processes change it in between.   *)
Snapshot(c) ==
    /\ client[c].pc = "body"
    /\ Set(c, [client[c] EXCEPT !.pc = "rest", !.seen = log])
    /\ UNCHANGED <<queue, version, unbumped, log, emitted, shown, starts>>

(* Quotes that changed are sent through the same limit, then the generator *)
(* sleeps.                                                                 *)
Rest(c) ==
    /\ client[c].pc = "rest"
    /\ \E changed \in 0..Watched :
          \E cl \in IF changed = 0 THEN {client[c]} ELSE Windows(client[c]) :
             Set(c, [cl EXCEPT !.pc = "node", !.age = Min({@ + Interval, 2}),
                               !.count = IF MaxEps = 0 THEN 0 ELSE Min({@ + changed, MaxEps})])
    /\ UNCHANGED <<queue, version, unbumped, log, emitted, shown, starts>>

(* The server is started anew: its memory and its connections are gone.    *)
Restart ==
    /\ MoreChanges
    /\ starts' = starts + 1
    /\ queue' = [lane \in Lanes |-> <<>>]
    /\ version' = 0 /\ unbumped' = 0
    /\ client' = [c \in Clients |-> Gone]
    /\ UNCHANGED <<log, emitted, shown>>

Turn(c) == \/ \E lane \in Lanes : Drain(c, lane) \/ Send(c, lane) \/ Refuse(c, lane)
           \/ Fingerprinted(c) \/ Snapshot(c) \/ Rest(c)

StreamNext ==
    \/ \E lane \in Emitters : EmitEvent(lane)
    \/ \E inServer \in BOOLEAN : WriteLog(inServer)
    \/ Bump \/ Restart
    \/ \E c \in Clients : Connect(c) \/ Disconnect(c) \/ Turn(c)

StreamSpec == StreamInit /\ [][StreamNext]_streamVars

(***************************************************************************)
(* Properties.                                                             *)
(***************************************************************************)
StreamTypeOK ==
    /\ queue \in [Lanes -> Seq(Event)]
    /\ \A lane \in Lanes : Len(queue[lane]) <= Cap[lane]
    /\ version \in Nat /\ unbumped \in Nat /\ log \in Nat /\ starts \in Nat
    /\ emitted \in [Lanes -> Nat]
    /\ shown \in [Lanes -> [Clients -> Seq(Event)]]
    /\ \A c \in Clients :
          /\ client[c].pc \in {"gone", "node", "nodes", "alert", "alerts",
                               "fp", "body", "rest"}
          /\ client[c].hand # <<>> <=> client[c].pc \in {"nodes", "alerts"}
          /\ client[c].count \in 0..MaxEps /\ client[c].age \in 0..2

InHand(c, lane) == IF client[c].pc = Sending(lane) THEN client[c].hand ELSE <<>>

(* Within a lane, what a connection was sent, has in hand, and may still   *)
(* be sent from the queue is in the order of emission and without          *)
(* repetition, whatever the other connections drain in between.            *)
Increasing(s) == \A i, j \in 1..Len(s) : i < j => s[i] < s[j]

InOrder ==
    \A c \in Clients, lane \in Lanes :
        Increasing(shown[lane][c] \o InHand(c, lane) \o queue[lane])

(* Of the alerts, those still on the queue are the last ones emitted: the  *)
(* oldest go first, to a connection or to make room.                       *)
NewestKept ==
    LET q == queue["alert"] IN
    \A i \in 1..Len(q) : q[i] = emitted["alert"] - Len(q) + i

(* Every alert has one fate: it is on the queue, in one connection's hand, *)
(* shown to one connection, or lost, and never moves back.                 *)
Fate == [e \in 1..MaxChanges |->
            IF \E c \in Clients : Contains(shown["alert"][c], e) THEN "shown"
            ELSE IF \E c \in Clients : Contains(InHand(c, "alert"), e) THEN "held"
            ELSE IF Contains(queue["alert"], e) THEN "queued"
            ELSE IF e <= emitted["alert"] THEN "lost" ELSE "unborn"]

Delivery == INSTANCE EventDelivery WITH Events <- 1..MaxChanges, fate <- Fate

AlertsDelivered == Delivery!EventSpec

(* No two connections have or were shown the same alert.                   *)
OneReceiver ==
    \A c, d \in Clients : c # d =>
        \A e \in 1..MaxChanges :
            ~ (/\ Contains(shown["alert"][c] \o InHand(c, "alert"), e)
               /\ Contains(shown["alert"][d] \o InHand(d, "alert"), e))

(* The two queues as a whole: nothing is sent out of order, twice or to    *)
(* two connections, and what a full queue drops is its oldest.             *)
QueuesRight == StreamTypeOK /\ InOrder /\ NewestKept /\ OneReceiver

(* A connection never takes itself to be up to date when it is not: with   *)
(* nothing new in the fingerprint, the last snapshot it was sent is of the *)
(* log as it is, although a snapshot may be refused by the limit, the log  *)
(* may change while one is taken, and other processes write the log        *)
(* without a bump.                                                         *)
SnapshotCurrent ==
    \A c \in Clients :
        Open(c) /\ client[c].pc # "body" /\ client[c].lastFp = Fingerprint
            => client[c].seen = log
=============================================================================
