---------------------------- MODULE FalconRelay ----------------------------
(***************************************************************************)
(* Falcon's request side (falcon/api/routes.py): player inputs that hold   *)
(* their HTTP connection open until a turn response arrives, SKSE polls,   *)
(* just_say lines, the response queue and the _response_ready event; and   *)
(* the turn-response callback that feeds them.                             *)
(*                                                                         *)
(* The accumulator is used by what it promises (EventFeed): what is        *)
(* buffered leaves with the next package.  Progeny is the external party:  *)
(* it answers the packages that carry player input one at a time, in the   *)
(* order they arrived (its pipeline lock), and may fail to.  A step is the *)
(* code of one task between two suspensions.  A stream request suspends in *)
(* wait(), and before it in the socket write of force_tick when the write  *)
(* buffer is full (SendSuspends).                                          *)
(***************************************************************************)
EXTENDS Integers, Sequences, SequencesExt

CONSTANTS
  Streams,         \* player inputs sent on a stream path (catch-all route)
  Typed,           \* player inputs sent to /comm.php, which does not hold
  Says,            \* just_say lines
  QueueMax,        \* deque(maxlen=64)
  SendSuspends,    \* may the socket write of a forced tick suspend?
  LoopsOverlap,    \* may receive loops overlap, after a reconnection?
  LinkFails,       \* may a tick be dropped, may a turn go unanswered?
  ClientsLeave     \* may CHIM give up on a held connection?

Inputs == Streams \union Typed
Texts == Inputs \union Says

(* What a turn says: the text that answers an input, or nothing at all.     *)
Empty == "empty"
Pending == "pending"

ASSUME RelayAssumption ==
  /\ Streams \intersect Typed = {} /\ Streams \intersect Says = {}
  /\ Typed \intersect Says = {}
  /\ {Empty, Pending} \intersect Texts = {}
  /\ QueueMax \in Nat \ {0}
  /\ SendSuspends \in BOOLEAN /\ LoopsOverlap \in BOOLEAN
  /\ LinkFails \in BOOLEAN /\ ClientsLeave \in BOOLEAN

VARIABLES
  pending,          \* player inputs pushed and not yet in a package
  unsent,          \* inputs and lines the game has not produced yet
  turns,           \* packages with player input that Progeny has taken
  frames,          \* turn_response frames on the way to the receive loop
  callbacks,       \* the frames whose callbacks await Qdrant or speech
  queue,           \* _response_queue
  ready,           \* _response_ready
  sending,         \* stream handlers suspended in the write of force_tick
  waiting,         \* stream handlers in _response_ready.wait(), in order
  woken,           \* stream handlers the event has released, in order
  answer,          \* what each stream handler returned
  gone,            \* stream handlers whose client has given up
  polled,          \* texts SKSE polled
  enqueued,        \* history: texts appended to the queue, in order
  dequeued         \* history: texts popped or evicted from it, in order

relayVars == <<pending, unsent, turns, frames, callbacks, queue, ready, sending,
               waiting, woken, answer, gone, polled, enqueued, dequeued>>
queueVars == <<queue, enqueued, dequeued>>
httpVars == <<unsent, sending, answer, gone, polled>>

RelayInit ==
  /\ pending = <<>> /\ unsent = Inputs \union Says
  /\ turns = <<>> /\ frames = <<>> /\ callbacks = {}
  /\ queue = <<>> /\ ready = FALSE
  /\ sending = {} /\ waiting = <<>> /\ woken = <<>>
  /\ answer = [s \in Streams |-> Pending]
  /\ gone = {} /\ polled = {}
  /\ enqueued = <<>> /\ dequeued = <<>>

-----------------------------------------------------------------------------
MutSetReady ==                     \* one waiter per answer
  /\ ready' = TRUE
  /\ woken' = IF waiting = <<>> THEN woken ELSE Append(woken, Head(waiting))
  /\ waiting' = IF waiting = <<>> THEN <<>> ELSE Tail(waiting)

(* _response_ready.set(): the flag, and every handler that waits, is done.  *)
SetReady ==
  /\ ready' = TRUE
  /\ woken' = woken \o waiting
  /\ waiting' = <<>>

(* deque(maxlen).append: a full queue drops its oldest text *)
Enqueue(text) ==
  /\ enqueued' = Append(enqueued, text)
  /\ IF Len(queue) < QueueMax
       THEN queue' = Append(queue, text) /\ UNCHANGED dequeued
       ELSE /\ queue' = Append(Tail(queue), text)
            /\ dequeued' = Append(dequeued, Head(queue))

(* _dequeue_response *)
NextText == IF queue = <<>> THEN Empty ELSE Head(queue)

MutDequeuePeeks ==                 \* the text stays for the next taker
  /\ dequeued' = IF queue = <<>> THEN dequeued ELSE Append(dequeued, Head(queue))
  /\ UNCHANGED <<queue, enqueued>>

Dequeue ==
  /\ queue' = IF queue = <<>> THEN queue ELSE Tail(queue)
  /\ dequeued' = IF queue = <<>> THEN dequeued ELSE Append(dequeued, Head(queue))
  /\ UNCHANGED enqueued

(* send_tick of a package: Progeny answers the last player input in it, if *)
(* there is one; a package without is not a turn.                          *)
Send(inputs) ==
  \/ turns' = IF inputs = <<>> THEN turns ELSE Append(turns, Last(inputs))
  \/ LinkFails /\ UNCHANGED turns

(* _response_ready.clear(), then wait().                                    *)
Hold(s) ==
  /\ ready' = FALSE
  /\ waiting' = Append(waiting, s)

(* A player input on a stream path: push, force_tick, then hold.            *)
StreamInput(s) ==
  /\ s \in unsent
  /\ unsent' = unsent \ {s}
  /\ Send(Append(pending, s))
  /\ pending' = <<>>
  /\ \/ Hold(s) /\ UNCHANGED sending
     \/ /\ SendSuspends
        /\ sending' = sending \union {s}
        /\ UNCHANGED <<ready, waiting>>
  /\ UNCHANGED <<frames, callbacks, woken, answer, gone, polled, queueVars>>

(* The write is done: force_tick returns and the handler holds.             *)
SendReturns(s) ==
  /\ s \in sending
  /\ sending' = sending \ {s}
  /\ Hold(s)
  /\ UNCHANGED <<pending, turns, frames, callbacks, woken, unsent, answer, gone,
                 polled, queueVars>>

(* The released handlers resume in the order they waited.                   *)
HandlerReturns ==
  /\ woken # <<>>
  /\ answer' = [answer EXCEPT ![Head(woken)] = NextText]
  /\ woken' = Tail(woken)
  /\ Dequeue
  /\ UNCHANGED <<sending, pending, unsent, turns, frames, callbacks, ready, waiting, gone,
                 polled>>

(* A player input sent to /comm.php is an event like any other.             *)
TypedInput(t) ==
  /\ t \in unsent
  /\ unsent' = unsent \ {t}
  /\ pending' = Append(pending, t)
  /\ UNCHANGED <<sending, turns, frames, callbacks, ready, waiting, woken, answer, gone,
                 polled, queueVars>>

(* The tick loop ships what is buffered.                                    *)
TickLoop ==
  /\ pending # <<>>
  /\ Send(pending)
  /\ pending' = <<>>
  /\ UNCHANGED <<frames, callbacks, ready, waiting, woken, httpVars, queueVars>>

MutJustSay(l) ==                   \* and everyone who waits is told
  /\ l \in unsent
  /\ unsent' = unsent \ {l}
  /\ Enqueue(l)
  /\ SetReady
  /\ UNCHANGED <<sending, pending, turns, frames, callbacks, answer, gone, polled>>

(* just_say: queued verbatim; nobody is signalled.                          *)
JustSay(l) ==
  /\ l \in unsent
  /\ unsent' = unsent \ {l}
  /\ Enqueue(l)
  /\ UNCHANGED <<sending, pending, turns, frames, callbacks, ready, waiting, woken, answer,
                 gone, polled>>

(* SKSE's `request` event.  CHIM does not poll while it holds a stream open  *)
(* (comment at line 276).                                                  *)
Poll ==
  /\ queue # <<>>
  /\ polled' = polled \union {Head(queue)}
  /\ Dequeue
  /\ \A s \in Streams : s \in unsent \/ s \in gone \/ answer[s] # Pending
  /\ UNCHANGED <<sending, pending, unsent, turns, frames, callbacks, ready, waiting, woken,
                 answer, gone>>

(* CHIM's HTTP timeout: the client is gone, the handler keeps waiting.      *)
ClientGivesUp(s) ==
  /\ ClientsLeave
  /\ s \notin unsent /\ s \notin gone /\ answer[s] = Pending
  /\ gone' = gone \union {s}
  /\ UNCHANGED <<sending, pending, unsent, turns, frames, callbacks, ready, waiting, woken,
                 answer, polled, queueVars>>

-----------------------------------------------------------------------------
(* External: Progeny answers with a text, with no response at all (nobody   *)
(* to schedule, or only empty ones), or never.                             *)
ProgenyReplies ==
  /\ turns # <<>>
  /\ turns' = Tail(turns)
  /\ \/ \E text \in {Head(turns), Empty} : frames' = Append(frames, text)
     \/ LinkFails /\ UNCHANGED frames
  /\ UNCHANGED <<pending, callbacks, ready, waiting, woken, httpVars, queueVars>>

(* _handle_turn_response: an empty turn only signals; the others await text *)
(* look-up and speech first.  A receive loop reads on when its callback has *)
(* returned; the loop of an older connection may still be in its own.      *)
TurnArrives ==
  /\ callbacks = {} \/ LoopsOverlap
  /\ frames # <<>>
  /\ frames' = Tail(frames)
  /\ IF Head(frames) = Empty
       THEN SetReady /\ UNCHANGED callbacks
       ELSE /\ callbacks' = callbacks \union {Head(frames)}
            /\ UNCHANGED <<ready, waiting, woken>>
  /\ UNCHANGED <<pending, turns, httpVars, queueVars>>

(* The end of a callback: the wire text, when there is any and nothing      *)
(* raised, is queued; the event is set in every case (finally).            *)
TurnHandled(text) ==
  /\ text \in callbacks
  /\ callbacks' = callbacks \ {text}
  /\ SetReady
  /\ Enqueue(text) \/ UNCHANGED queueVars
  /\ UNCHANGED <<pending, turns, frames, httpVars>>

RelayNext ==
  \/ \E s \in Streams : StreamInput(s) \/ SendReturns(s) \/ ClientGivesUp(s)
  \/ HandlerReturns
  \/ \E t \in Typed : TypedInput(t)
  \/ \E l \in Says : JustSay(l)
  \/ TickLoop \/ Poll
  \/ ProgenyReplies \/ TurnArrives
  \/ \E text \in Inputs : TurnHandled(text)

RelaySpec == RelayInit /\ [][RelayNext]_relayVars

(* Tasks that can run do; Progeny answers what it took (see LinkFails). *)
FairRelay ==
  /\ RelaySpec
  /\ \A s \in Streams : WF_relayVars(SendReturns(s))
  /\ WF_relayVars(HandlerReturns)
  /\ WF_relayVars(TickLoop)
  /\ WF_relayVars(ProgenyReplies)
  /\ WF_relayVars(TurnArrives)
  /\ \A text \in Inputs : WF_relayVars(TurnHandled(text))

-----------------------------------------------------------------------------
RelayTypeOK ==
  /\ pending \in Seq(Inputs) /\ unsent \subseteq Texts
  /\ turns \in Seq(Inputs) /\ frames \in Seq(Inputs \union {Empty})
  /\ callbacks \subseteq Inputs
  /\ queue \in Seq(Texts) /\ Len(queue) <= QueueMax
  /\ ready \in BOOLEAN
  /\ sending \subseteq Streams /\ waiting \in Seq(Streams) /\ woken \in Seq(Streams)
  /\ answer \in [Streams -> Texts \union {Empty, Pending}]
  /\ gone \subseteq Streams /\ polled \subseteq Texts
  /\ enqueued \in Seq(Texts) /\ dequeued \in Seq(Texts)

(* The response queue is a queue: texts leave it in the order they came, to *)
(* one taker each, whether a handler, a poll or the bound takes them.      *)
QueueIsFifo == enqueued = dequeued \o queue

(* A text goes to one place: no line is spoken twice, however many handlers *)
(* one signal releases.                                                    *)
SpokenOnce ==
  /\ \A s, t \in Streams : s # t /\ answer[s] \in Texts => answer[s] # answer[t]
  /\ \A s \in Streams : answer[s] \notin polled

(* Once the event is set, nobody is left waiting: a handler that waits has  *)
(* cleared it after the last turn was handled.                             *)
SetReleasesAll == ready => waiting = <<>>

(* A text is in one place on its way from the game to its taker: not yet    *)
(* produced, buffered, with Progeny, in a frame, in a callbacks, queued,     *)
(* or taken; and there it is once.  What was spoken has been taken.         *)
Occurring(s) == Range(s) \ {Empty}
NoRepeat(s) == \A i, j \in DOMAIN s : s[i] = s[j] /\ s[i] # Empty => i = j
OnePlace ==
  LET taken    == Occurring(dequeued)
      queued   == Occurring(queue) \union taken
      called   == callbacks \union queued
      answered == Occurring(frames) \union called
      asked    == Occurring(turns) \union answered
  IN  /\ NoRepeat(pending) /\ NoRepeat(turns) /\ NoRepeat(frames) /\ NoRepeat(queue)
      /\ unsent \intersect (Occurring(pending) \union asked) = {}
      /\ Occurring(pending) \intersect asked = {}
      /\ Occurring(turns) \intersect answered = {}
      /\ Occurring(frames) \intersect called = {}
      /\ callbacks \intersect queued = {}
      /\ Occurring(queue) \intersect taken = {}
      /\ (polled \union Range(answer)) \intersect Texts \subseteq taken

(* What every state of the relay satisfies: its variables have their types  *)
(* and bounds, texts leave the response queue in their order, the event    *)
(* releases all who wait, and a text is in one place.                      *)
RelayInvariant == RelayTypeOK /\ QueueIsFifo /\ SetReleasesAll /\ OnePlace

(* A handler is held until a turn is handled, never released by a poll, a   *)
(* just_say line or another input.                                         *)
OnlyATurnReleases ==
  [][Len(woken') > Len(woken) => Len(frames') < Len(frames) \/ callbacks' # callbacks]_relayVars

(* The response a stream handler returns is the turn's text or empty, never *)
(* left pending: every input Progeny answers unblocks its handler, whether *)
(* or not there is anything to say (docstring of _handle_turn_response).   *)
StreamAnswered ==
  \A s \in Streams : (s \notin unsent) ~> (answer[s] # Pending)

-----------------------------------------------------------------------------
(* What the documentation says, and the code does not do: a held request   *)
(* may stay held (StreamAnswered above, if a send suspends), or be         *)
(* released by the turn of another input.                                  *)

(* A stream connection is held until Progeny responds to its input, and the *)
(* response comes back on the same connection (docstring of the catch-all  *)
(* route).                                                                 *)
AnswersItsOwnInput ==
  \A s \in Streams : answer[s] \in {Pending, Empty, s}

(* No reply is spent on a client that is gone: the safety net the comment   *)
(* at line 275 counts on leaves the next reply to those who wait.          *)
NoReplyToTheDeparted ==
  \A s \in gone : answer[s] \in {Pending, Empty}
=============================================================================
