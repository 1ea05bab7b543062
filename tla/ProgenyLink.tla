---------------------------- MODULE ProgenyLink ----------------------------
(***************************************************************************)
(* Falcon's WebSocket client (falcon/src/progeny_protocol.py): the module  *)
(* globals _ws, _receive_task, _reconnect_task and _closing, the receive   *)
(* loops, the reconnect task and close().                                  *)
(*                                                                         *)
(* Connections are numbered in the order they are opened.  A receive task  *)
(* has the number of the connection whose opening created it; it reads _ws *)
(* only when it first runs.  A step is the code of one task between two    *)
(* suspensions.                                                            *)
(***************************************************************************)
EXTENDS Integers, Sequences

CONSTANTS
  MaxConns,        \* bound: connections opened
  MaxDrops,        \* bound: connections lost to the network or to Progeny
  MaxRefusals,     \* bound: connection attempts refused
  MaxTicks,        \* bound: calls of send_tick
  FrameTypes       \* what Progeny may answer to a tick: a subset of
                   \* {"ack", "turn_response", "invalid"}

ASSUME LinkAssumption ==
  /\ MaxConns \in Nat \ {0}
  /\ MaxDrops \in Nat /\ MaxRefusals \in Nat /\ MaxTicks \in Nat
  /\ FrameTypes \subseteq {"ack", "turn_response", "invalid"}

Conns == 1..MaxConns
None == 0

VARIABLES
  ws,              \* _ws: None or a connection
  closing,         \* _closing
  receiveTask,     \* _receive_task: None or the number of a receive task
  loop,            \* state of each receive task
  reading,         \* the connection each receive task iterates over
  reconnect,       \* state of _reconnect_task
  main,            \* lifespan: where startup or shutdown stands
  sock,            \* each connection: "unopened", "open" or "dead"
  owed,            \* ticks Progeny has taken from each connection, unanswered
  inbox,           \* frames received on each connection and not yet read
  ticks,           \* ticks given to send_tick so far
  dropped,         \* of these, dropped because _ws was None
  drops, refusals  \* connections lost, attempts refused

linkVars == <<ws, closing, receiveTask, loop, reading, reconnect, main, sock,
              owed, inbox, ticks, dropped, drops, refusals>>
wireVars == <<sock, owed, inbox, drops>>
clientVars == <<ws, closing, receiveTask, loop, reading, reconnect, main>>

Opened == {c \in Conns : sock[c] # "unopened"}
NextConn == CHOOSE c \in Conns : sock[c] = "unopened" /\ \A d \in 1..(c - 1) : d \in Opened

LinkInit ==
  /\ ws = None /\ closing = FALSE /\ receiveTask = None
  /\ loop = [c \in Conns |-> "none"]
  /\ reading = [c \in Conns |-> None]
  /\ reconnect = "idle"
  /\ main = "connecting"                  \* lifespan calls connect()
  /\ sock = [c \in Conns |-> "unopened"]
  /\ owed = [c \in Conns |-> 0]
  /\ inbox = [c \in Conns |-> <<>>]
  /\ ticks = 0 /\ dropped = 0 /\ drops = 0 /\ refusals = 0

-----------------------------------------------------------------------------
(* _schedule_reconnect: nothing while closing or while one is under way.    *)
ScheduleReconnect(shutting) ==
  reconnect' = IF shutting \/ reconnect # "idle" THEN reconnect ELSE "sleeping"

MutEstablish ==                    \* one receive task is enough
  /\ Opened # Conns
  /\ ws' = NextConn
  /\ receiveTask' = NextConn
  /\ loop' = [loop EXCEPT ![NextConn] =
               IF \E k \in Conns : loop[k] = "callback" THEN "none" ELSE "created"]
  /\ sock' = [sock EXCEPT ![NextConn] = "open"]
  /\ UNCHANGED <<closing, reading, owed, inbox, ticks, dropped, drops, refusals>>

(* _establish_connection, success: _ws is the new connection and a receive *)
(* task is created, which runs later.                                      *)
Establish ==
  /\ Opened # Conns
  /\ ws' = NextConn
  /\ receiveTask' = NextConn
  /\ loop' = [loop EXCEPT ![NextConn] = "created"]
  /\ sock' = [sock EXCEPT ![NextConn] = "open"]
  /\ UNCHANGED <<closing, reading, owed, inbox, ticks, dropped, drops, refusals>>

Refused ==
  /\ refusals < MaxRefusals
  /\ refusals' = refusals + 1
  /\ ws' = None
  /\ UNCHANGED <<closing, receiveTask, loop, reading, sock, owed, inbox, ticks,
                 dropped, drops>>

(* connect(), awaited by the lifespan *)
ConnectSucceeds ==
  /\ main = "connecting"
  /\ Establish
  /\ main' = "up"
  /\ UNCHANGED reconnect

ConnectFails ==
  /\ main = "connecting"
  /\ Refused
  /\ main' = "up"
  /\ ScheduleReconnect(closing)

(* A receive task that the event loop can run at once: it has not started, *)
(* or has a frame to read, or its connection closed while it was reading.  *)
Ready(k) ==
  \/ loop[k] = "created"
  \/ loop[k] = "reading" /\ (inbox[reading[k]] # <<>> \/ sock[reading[k]] = "dead")

(* _reconnect_with_backoff: the sleep of a second or more is over, then the *)
(* attempt.  The event loop runs the tasks that are ready before a timer   *)
(* set after they became so; only a receive task inside its callback can   *)
(* outlast the sleep.  A refused attempt calls _schedule_reconnect, which  *)
(* sees this very task not done, and the task sleeps again.                *)
BackoffElapses ==
  /\ reconnect = "sleeping"
  /\ \A k \in Conns : ~Ready(k)
  /\ reconnect' = "connecting"
  /\ UNCHANGED <<ws, closing, receiveTask, loop, reading, main, ticks, dropped,
                 refusals, wireVars>>

ReconnectSucceeds ==
  /\ reconnect = "connecting"
  /\ Establish
  /\ reconnect' = "idle"
  /\ UNCHANGED main

MutReconnectFails ==               \* the task is not yet done: no new one
  /\ reconnect = "connecting"
  /\ Refused
  /\ reconnect' = "idle"
  /\ UNCHANGED main

ReconnectFails ==
  /\ reconnect = "connecting"
  /\ Refused
  /\ reconnect' = IF closing THEN "idle" ELSE "sleeping"
  /\ UNCHANGED main

-----------------------------------------------------------------------------
(* send_tick: dropped without a connection; on a dead one ConnectionClosed  *)
(* schedules a reconnect and leaves _ws alone.                             *)
SendTick ==
  /\ ticks < MaxTicks
  /\ ticks' = ticks + 1
  /\ \/ /\ ws = None
        /\ dropped' = dropped + 1
        /\ UNCHANGED <<owed, reconnect>>
     \/ /\ ws # None
        /\ IF sock[ws] = "open"
             THEN owed' = [owed EXCEPT ![ws] = @ + 1] /\ UNCHANGED reconnect
             ELSE ScheduleReconnect(closing) /\ UNCHANGED owed
        /\ UNCHANGED dropped
  /\ UNCHANGED <<ws, closing, receiveTask, loop, reading, main, sock, inbox,
                 drops, refusals>>

MutLoopStarts(k) ==                \* without the assertion
  /\ loop[k] = "created"
  /\ loop' = [loop EXCEPT ![k] = "reading"]
  /\ reading' = [reading EXCEPT ![k] = ws]
  /\ UNCHANGED <<ws, closing, receiveTask, reconnect, main, ticks, dropped,
                 refusals, wireVars>>

(* The receive task runs for the first time: its assertion, outside the try *)
(* block, ends it when _ws is None by then.                                *)
LoopStarts(k) ==
  /\ loop[k] = "created"
  /\ loop' = [loop EXCEPT ![k] = IF ws = None THEN "ended" ELSE "reading"]
  /\ reading' = [reading EXCEPT ![k] = ws]
  /\ UNCHANGED <<ws, closing, receiveTask, reconnect, main, ticks, dropped,
                 refusals, wireVars>>

MutFinally(k) ==                   \* reconnecting is left to send_tick
  /\ loop' = [loop EXCEPT ![k] = "ended"]
  /\ ws' = None
  /\ UNCHANGED reconnect

(* the finally block of the receive loop *)
Finally(k) ==
  /\ loop' = [loop EXCEPT ![k] = "ended"]
  /\ ws' = None
  /\ ScheduleReconnect(closing)

(* One frame: an ack is logged, a turn_response awaits the callback (text  *)
(* look-up, speech synthesis), an invalid one raises out of the loop.      *)
ReadFrame(k) ==
  LET c == reading[k] IN
  /\ loop[k] = "reading"
  /\ inbox[c] # <<>>
  /\ inbox' = [inbox EXCEPT ![c] = Tail(@)]
  /\ CASE Head(inbox[c]) = "ack" -> UNCHANGED <<loop, ws, reconnect>>
       [] Head(inbox[c]) = "turn_response" ->
            loop' = [loop EXCEPT ![k] = "callback"] /\ UNCHANGED <<ws, reconnect>>
       [] Head(inbox[c]) = "invalid" -> Finally(k)
  /\ UNCHANGED <<closing, receiveTask, reading, main, sock, owed, ticks,
                 dropped, drops, refusals>>

CallbackDone(k) ==
  /\ loop[k] = "callback"
  /\ loop' = [loop EXCEPT ![k] = "reading"]
  /\ UNCHANGED <<ws, closing, receiveTask, reading, reconnect, main, ticks,
                 dropped, refusals, wireVars>>

(* Frames that had arrived are read before the loop learns of the close.   *)
LoopSeesClose(k) ==
  /\ loop[k] = "reading"
  /\ inbox[reading[k]] = <<>>
  /\ sock[reading[k]] = "dead"
  /\ Finally(k)
  /\ UNCHANGED <<closing, receiveTask, reading, main, ticks, dropped, refusals,
                 wireVars>>

-----------------------------------------------------------------------------
(* close(), awaited by the lifespan; other tasks run at its awaits.         *)
CloseBegins ==
  /\ main = "up"
  /\ closing' = TRUE
  /\ main' = "cancel_reconnect"
  /\ UNCHANGED <<ws, receiveTask, loop, reading, reconnect, ticks, dropped,
                 refusals, wireVars>>

CancelReconnect ==
  /\ main = "cancel_reconnect"
  /\ reconnect' = "idle"
  /\ main' = "cancel_receive"
  /\ UNCHANGED <<ws, closing, receiveTask, loop, reading, ticks, dropped,
                 refusals, wireVars>>

(* Cancelling the receive task runs its finally block, unless it never ran. *)
CancelReceive ==
  /\ main = "cancel_receive"
  /\ main' = "close_socket"
  /\ LET k == receiveTask IN
       IF k = None
         THEN UNCHANGED <<ws, loop>>
         ELSE /\ loop' = [loop EXCEPT ![k] = "ended"]
              /\ ws' = IF loop[k] \in {"reading", "callback"} THEN None ELSE ws
  /\ UNCHANGED <<closing, receiveTask, reading, reconnect, ticks, dropped,
                 refusals, wireVars>>

CloseSocket ==
  /\ main = "close_socket"
  /\ main' = "closed"
  /\ ws' = None
  /\ sock' = IF ws = None THEN sock ELSE [sock EXCEPT ![ws] = "dead"]
  /\ UNCHANGED <<closing, receiveTask, loop, reading, reconnect, owed, inbox,
                 ticks, dropped, drops, refusals>>

-----------------------------------------------------------------------------
(* The wire and Progeny: every tick is answered on the connection it came   *)
(* on; a connection may be lost.                                           *)
ProgenyAnswers(c, type) ==
  /\ sock[c] = "open"
  /\ owed[c] > 0
  /\ owed' = [owed EXCEPT ![c] = @ - 1]
  /\ inbox' = [inbox EXCEPT ![c] = Append(@, type)]
  /\ UNCHANGED <<sock, drops, ticks, dropped, refusals, clientVars>>

ConnectionLost(c) ==
  /\ sock[c] = "open"
  /\ drops < MaxDrops
  /\ drops' = drops + 1
  /\ sock' = [sock EXCEPT ![c] = "dead"]
  /\ UNCHANGED <<owed, inbox, ticks, dropped, refusals, clientVars>>

LinkNext ==
  \/ ConnectSucceeds \/ ConnectFails
  \/ BackoffElapses \/ ReconnectSucceeds \/ ReconnectFails
  \/ SendTick
  \/ \E k \in Conns : LoopStarts(k) \/ ReadFrame(k) \/ CallbackDone(k) \/ LoopSeesClose(k)
  \/ CloseBegins \/ CancelReconnect \/ CancelReceive \/ CloseSocket
  \/ \E c \in Conns : ConnectionLost(c) \/ \E type \in FrameTypes : ProgenyAnswers(c, type)

LinkSpec == LinkInit /\ [][LinkNext]_linkVars

(* Every task that can run does; a callback returns; an attempt is decided. *)
FairLink ==
  /\ LinkSpec
  /\ WF_linkVars(ConnectSucceeds \/ ConnectFails)
  /\ WF_linkVars(BackoffElapses)
  /\ WF_linkVars(ReconnectSucceeds \/ ReconnectFails)
  /\ \A k \in Conns : /\ WF_linkVars(LoopStarts(k))
                      /\ WF_linkVars(ReadFrame(k))
                      /\ WF_linkVars(CallbackDone(k))
                      /\ WF_linkVars(LoopSeesClose(k))
  /\ WF_linkVars(CancelReconnect \/ CancelReceive \/ CloseSocket)

-----------------------------------------------------------------------------
LoopStates == {"none", "created", "reading", "callback", "ended"}

LinkTypeOK ==
  /\ ws \in {None} \union Opened
  /\ closing \in BOOLEAN
  /\ receiveTask \in {None} \union Opened
  /\ loop \in [Conns -> LoopStates]
  /\ reading \in [Conns -> {None} \union Opened]
  /\ \A k \in Conns : loop[k] \in {"reading", "callback"} => reading[k] # None
  /\ reconnect \in {"idle", "sleeping", "connecting"}
  /\ main \in {"connecting", "up", "cancel_reconnect", "cancel_receive",
               "close_socket", "closed"}
  /\ sock \in [Conns -> {"unopened", "open", "dead"}]
  /\ owed \in [Conns -> 0..MaxTicks]
  /\ inbox \in [Conns -> Seq(FrameTypes)]
  /\ ticks \in 0..MaxTicks /\ dropped \in 0..MaxTicks
  /\ drops \in 0..MaxDrops /\ refusals \in 0..MaxRefusals

Alive(k) == loop[k] \in {"created", "reading", "callback"}
Usable == ws # None /\ sock[ws] = "open"

(* Connections and receive tasks come in pairs, one pair after the other:  *)
(* _receive_task is the newest of the tasks, and _ws is the newest         *)
(* connection or None.                                                     *)
NewestPair ==
  /\ Opened = 1..receiveTask
  /\ ws \in {None, receiveTask}
  /\ \A k \in Conns : loop[k] = "none" <=> k \notin Opened

(* A receive loop reads the connection it was created for, although it     *)
(* takes _ws as it finds it when it first runs: no other connection is     *)
(* established before that.                                                *)
EachReadsItsOwn ==
  /\ \A k \in Conns : loop[k] \in {"reading", "callback"} => reading[k] = k
  /\ \A k \in Conns : loop[k] = "created" => k = receiveTask
  /\ reconnect = "connecting" => \A k \in Conns : loop[k] # "created"

(* As long as the link is not shutting down, a connection in _ws has its   *)
(* receive task, and without one a reconnect is under way.                 *)
SomebodysJob ==
  /\ main = "connecting" => receiveTask = None /\ reconnect = "idle"
  /\ closing <=> main \notin {"connecting", "up"}
  /\ ~closing /\ ws # None => Alive(ws)
  /\ main = "up" /\ ws = None => reconnect # "idle"

(* What every state of the link satisfies: types, a tick owed or dropped   *)
(* has been sent, and the relations between _ws, the tasks and the         *)
(* connections that the two properties below rest on.                      *)
LinkInvariant ==
  /\ LinkTypeOK
  /\ dropped <= ticks /\ \A c \in Conns : owed[c] <= ticks
  /\ NewestPair
  /\ EachReadsItsOwn
  /\ SomebodysJob

(* Until close(), an unusable link is always somebody's job: a reconnect is *)
(* under way, or a receive task has yet to find its connection dead and    *)
(* will schedule one.  (A new receive task's assertion can fail, and       *)
(* send_tick leaves a dead _ws in place; neither may strand Falcon.)       *)
NeverStranded ==
  main = "up" /\ ~closing /\ ~Usable =>
    \/ reconnect # "idle"
    \/ \E k \in Conns : Alive(k) /\ ws = k

(* The connection ticks are sent on is one whose answers are read: with _ws *)
(* set to c, a receive task is reading c or about to.                      *)
ListensWhereItTalks ==
  ~closing /\ Usable =>
    \E k \in Conns : \/ loop[k] = "created" /\ k = ws
                     \/ loop[k] \in {"reading", "callback"} /\ reading[k] = ws

(* Once losses and refusals are over, Falcon gets a usable link back, unless *)
(* it is shutting down.                                                    *)
LinkRecovers == (main = "up") ~> (Usable \/ closing)

(* send_tick drops a tick only while no connection to Progeny stands       *)
(* (docstring of send_tick).                                               *)
DropsOnlyWhenDisconnected ==
  [][dropped' > dropped =>
       ~ \E c \in Conns : sock[c] = "open" /\ loop[c] \in {"reading", "callback"}]_linkVars

(* close() shuts the WebSocket connection down (docstring of close).        *)
CloseClosesTheSocket == main = "closed" => \A c \in Conns : sock[c] # "open"
=============================================================================
