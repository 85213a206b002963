----------------------------- MODULE TradeFeed -----------------------------
(***************************************************************************)
(* The trade path: the trade channel of run_ws_ingestion and               *)
(* handle_trade_frame (src/src/ws.rs), in front of the channel and writer  *)
(* of module Writer.  The exchange is external: it executes trades, answers*)
(* a subscription with the last few trades and the last few liquidations,  *)
(* then sends each new one.  Nothing on this channel tells the session     *)
(* that it missed a message: what one connection or process lost comes     *)
(* back, if at all, with the answer to the next subscription.              *)
(***************************************************************************)
EXTENDS Integers, Sequences, FiniteSets, RowSequences

CONSTANTS Market,          \* the markets subscribed, all of them in the symbol cache
          TradesOf,        \* TradesOf[m]: the type of each trade of m, in order
          Replay,          \* how many trades of a list an answer reaches back
          MaxWire,         \* bound: frames in flight
          Fault,           \* the kinds of fault that may happen
          MaxFaults,       \* bound: faults in a behaviour
          Kinds,           \* the kinds that the trades may have: see kind
          ChannelCapacity, BatchCapacity  \* of Writer

ASSUME TradeFeedAssumption ==
  /\ \A m \in Market : TradesOf[m] \in Seq({"trade", "liquidation"})
  /\ {Replay, MaxWire, MaxFaults} \subseteq Nat
  /\ {ChannelCapacity, BatchCapacity} \subseteq Nat \ {0}
  /\ \A kinds \in Kinds : \A m \in Market :
       kinds[m] \in [DOMAIN TradesOf[m] -> {"good", "unreadable", "unstorable"}]

VARIABLES kind,      \* kind[m][n]: what the ingestor can make of trade n of m
          executed,  \* the exchange: how many trades of each market there were
          asked,     \* markets whose subscription is on its way
          live,      \* the exchange: markets whose trades it sends us
          wire,      \* frames on their way to the session, in order
          session,   \* "open", or "waiting" for the next connection
          pending,   \* trades of the running handler's frame, to be sent
          joined,    \* history: executed[m] when this connection's answer was made
          faults,    \* how many faults there have been
          channel, batch, writing, phase, trades

feedVars == <<kind, executed, asked, live, wire, session, pending, joined, faults>>
writerVars == <<channel, batch, writing, phase, trades>>
vars == <<feedVars, writerVars>>

\* A trade as a frame carries it.  "unreadable": its price, size or timestamp
\* does not parse.  "unstorable": its type is none that the table admits.  It may
\* be so in one frame, or, when that is its kind, in every frame that has it.
Trade ==
  UNION {{[market |-> m, n |-> n, is |-> is] :
            n \in DOMAIN TradesOf[m], is \in {"good", "unreadable", "unstorable"}} :
         m \in Market}
Good(m, n) == [market |-> m, n |-> n, is |-> "good"]
Sent(m, n) == [market |-> m, n |-> n, is |-> kind[m][n]]

Writer == INSTANCE Writer WITH
  BookRow <- {},
  TradeRow <- {trade \in Trade : trade.is # "unreadable"},
  KeyOf <- [trade \in Trade |-> <<trade.market, trade.n>>],
  orderbook <- <<>>, sent <- <<>>, before <- 0, exits <- 0, MaxSent <- 0, MaxExits <- 0

NotJoined == -1
-----------------------------------------------------------------------------
(* The exchange and the network *)

\* The trades of one list, of the first `upto` of m: oldest first.
OfType(type, m, upto) ==
  LET numbers == OfKind({n \in 1..upto : TradesOf[m][n] = type}, [n \in 1..upto |-> n])
  IN  [i \in DOMAIN numbers |-> Sent(m, numbers[i])]
\* What an answer holds of a list: the last of it, newest first.
Recent(list) ==
  LET reach == IF Len(list) <= Replay THEN Len(list) ELSE Replay
  IN  [i \in 1..reach |-> list[Len(list) + 1 - i]]

Frame(m, regular, liquidations) ==
  [market |-> m, trades |-> regular, liquidation_trades |-> liquidations, json |-> TRUE]
SubscribedFrame(m) ==
  Frame(m, Recent(OfType("trade", m, executed[m])),
           Recent(OfType("liquidation", m, executed[m])))
UpdateFrame(m, n) ==
  IF TradesOf[m][n] = "trade" THEN Frame(m, <<Sent(m, n)>>, <<>>)
                              ELSE Frame(m, <<>>, <<Sent(m, n)>>)

Spoil(list, is) == {[list EXCEPT ![i].is = is] : i \in DOMAIN list}
Garbled(frame) ==
  {[frame EXCEPT !.json = FALSE]}
    \cup UNION {
      {[frame EXCEPT !.trades = list] : list \in Spoil(frame.trades, is)}
        \cup {[frame EXCEPT !.liquidation_trades = list] :
                list \in Spoil(frame.liquidation_trades, is)} :
      is \in {"unreadable", "unstorable"}}

Inject(fault) ==
  /\ fault \in Fault
  /\ faults < MaxFaults
  /\ faults' = faults + 1

Deliver(frame) ==
  \/ wire' = Append(wire, frame) /\ UNCHANGED faults
  \/ Inject("garbled") /\ \E bad \in Garbled(frame) : wire' = Append(wire, bad)

Execute(m) ==
  /\ executed[m] < Len(TradesOf[m])
  /\ executed' = [executed EXCEPT ![m] = @ + 1]
  /\ IF m \in live
     THEN Len(wire) < MaxWire /\ Deliver(UpdateFrame(m, executed[m] + 1))
     ELSE UNCHANGED <<wire, faults>>
  /\ UNCHANGED <<kind, asked, live, session, pending, joined, writerVars>>

\* The exchange answers the subscription, or stays silent.
Answer(m) ==
  /\ m \in asked
  /\ Len(wire) < MaxWire
  /\ asked' = asked \ {m}
  /\ \/ /\ Deliver(SubscribedFrame(m))
        /\ live' = live \cup {m}
        /\ joined' = [joined EXCEPT ![m] = executed[m]]
     \/ Inject("silent") /\ UNCHANGED <<wire, live, joined>>
  /\ UNCHANGED <<kind, executed, session, pending, writerVars>>
-----------------------------------------------------------------------------
(* The session *)

Init ==
  /\ kind \in Kinds
  /\ executed = [m \in Market |-> 0]
  /\ asked = {} /\ live = {}
  /\ wire = <<>>
  /\ session = "waiting"
  /\ pending = <<>>
  /\ joined = [m \in Market |-> NotJoined]
  /\ faults = 0
  /\ Writer!Init

Connect ==
  /\ session = "waiting"
  /\ session' = "open"
  /\ asked' = Market
  /\ UNCHANGED <<kind, executed, live, wire, pending, joined, faults, writerVars>>

\* run_ws_ingestion returns Err.  The rows it sent are still with the writer.
EndSession ==
  /\ session' = "waiting"
  /\ asked' = {} /\ live' = {}
  /\ wire' = <<>>
  /\ pending' = <<>>
  /\ joined' = [m \in Market |-> NotJoined]
  /\ UNCHANGED <<kind, executed>>

\* A full channel makes the handler wait: no other branch runs until the last
\* trade of the frame is sent.
Idle == session = "open" /\ pending = <<>>

\* The stream ended, or another channel's frame failed.
ConnectionEnds ==
  /\ Idle
  /\ Inject("disconnect")
  /\ EndSession
  /\ UNCHANGED writerVars

TradesIn(frame) == frame.trades \o frame.liquidation_trades

HandleTradeFrame ==
  /\ Idle
  /\ wire # <<>>
  /\ Head(wire).json
  /\ pending' = TradesIn(Head(wire))
  /\ wire' = Tail(wire)
  /\ UNCHANGED <<kind, executed, asked, live, session, joined, faults, writerVars>>
RejectFrame ==
  /\ Idle
  /\ wire # <<>>
  /\ ~Head(wire).json
  /\ EndSession
  /\ UNCHANGED <<faults, writerVars>>

SendRow ==
  /\ pending # <<>>
  /\ Head(pending).is # "unreadable"
  /\ Writer!Enqueue(Head(pending))
  /\ pending' = Tail(pending)
  /\ UNCHANGED <<kind, executed, asked, live, wire, session, joined, faults>>
\* trade_row fails in the middle of a frame: the trades before were sent, the
\* ones after are not.
TradeRowSkipped ==
  /\ pending # <<>>
  /\ Head(pending).is = "unreadable"
  /\ pending' = Tail(pending)
  /\ UNCHANGED <<kind, executed, asked, live, wire, session, joined, faults, writerVars>>
TradeRowFails ==
  /\ pending # <<>>
  /\ Head(pending).is = "unreadable"
  /\ EndSession
  /\ UNCHANGED <<faults, writerVars>>
-----------------------------------------------------------------------------
(* The writer, behind the table's CHECK on trade_type *)

AnyType == TRUE
AdmittedTypes == \A i \in DOMAIN writing : writing[i].is = "good"

InsertTrades == AdmittedTypes /\ Writer!InsertTrades
WriterStep ==
  /\ Writer!Receive \/ Writer!Tick \/ InsertTrades \/ Writer!InsertOrderbookMessages
  /\ UNCHANGED feedVars

\* One refused row fails the whole insert, and the writer exits the process.
FlushFailsQuietly ==
  /\ phase = "trades"
  /\ ~AdmittedTypes
  /\ writing' = <<>> /\ phase' = "idle"
  /\ UNCHANGED <<feedVars, channel, batch, trades>>
FlushFails ==
  /\ phase = "trades"
  /\ ~AdmittedTypes
  /\ Writer!EndProcess
  /\ EndSession
  /\ UNCHANGED faults

\* A failed funding poll, or a crash.
Exit ==
  /\ Inject("exit")
  /\ Writer!EndProcess
  /\ EndSession

Next ==
  \/ \E m \in Market : Execute(m) \/ Answer(m)
  \/ Connect
  \/ ConnectionEnds
  \/ HandleTradeFrame
  \/ RejectFrame
  \/ SendRow
  \/ TradeRowFails
  \/ WriterStep
  \/ FlushFails
  \/ Exit

Spec == Init /\ [][Next]_vars

\* The select! loop reads what there is, the reconnect loop never ends, the
\* writer's loop and ticker run, and the exchange takes each request.
FairSpec ==
  /\ Spec
  /\ \A m \in Market : WF_vars(Answer(m))
  /\ WF_vars(Connect) /\ WF_vars(HandleTradeFrame) /\ WF_vars(RejectFrame)
  /\ WF_vars(SendRow) /\ WF_vars(TradeRowFails)
  /\ WF_vars(WriterStep) /\ WF_vars(FlushFails)
-----------------------------------------------------------------------------
Numbers(list) == {<<list[i].market, list[i].n>> : i \in DOMAIN list}
OnItsWay ==
  Numbers(Writer!InFlight) \cup Numbers(pending)
    \cup UNION {Numbers(wire[i].trades) \cup Numbers(wire[i].liquidation_trades) :
                   i \in DOMAIN wire}
Stored == {<<row.market, row.n>> : row \in trades}

\* Types; what is stored are trades that the exchange executed, as they were.
TypeOK ==
  /\ executed \in [Market -> Nat]
  /\ asked \cup live \subseteq Market
  /\ Len(wire) <= MaxWire
  /\ session = "waiting" => wire = <<>> /\ pending = <<>> /\ asked = {} /\ live = {}
  /\ \A row \in trades :
       \E m \in Market : \E n \in 1..executed[m] : row = Good(m, n)

\* The answer to the next subscription would hold trade n of m.
InReach(m, n, upto) ==
  Cardinality({k \in (n + 1)..upto : TradesOf[m][k] = TradesOf[m][n]}) < Replay

\* A connection that was answered for a market leaves no trade out: whatever was
\* in reach of the answer or came after it is stored or on its way to the table,
\* liquidations too, also when a handler waits for the channel, a frame of the
\* session before was cut short, or a process died with its batch.  (A trade
\* that cannot be read or stored is on its way until it ends the connection.)
NoTradeLeftOut ==
  \A m \in Market : joined[m] # NotJoined =>
    \A n \in 1..executed[m] :
      (n > joined[m] \/ InReach(m, n, joined[m])) => <<m, n>> \in Stored \cup OnItsWay

\* The exchange was silent about m, and handle_trade_frame will wait for it as
\* long as this connection lasts: book_check looks at order books only.
Silenced(m) == session = "open" /\ m \notin asked /\ m \notin live

\* A trade that can be read or stored in no frame is in every answer, and ends
\* one session or process after the other, until newer trades push it out.
HeldUp ==
  \E m \in Market : \E n \in 1..executed[m] :
    kind[m][n] # "good" /\ InReach(m, n, executed[m])

\* A trade is stored in the end, after any garbled frame, lost connection,
\* failed flush or exit, unless newer ones push it out of the replay first;
\* also behind a trade that is never accepted, once that is out of reach.
EveryTradeIsStored ==
  \A m \in Market : \A n \in DOMAIN TradesOf[m] :
    (executed[m] >= n /\ kind[m][n] = "good")
      ~> \/ <<m, n>> \in Stored
         \/ ~InReach(m, n, executed[m])
         \/ Silenced(m)
         \/ HeldUp
=============================================================================
