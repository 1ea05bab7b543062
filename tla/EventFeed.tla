----------------------------- MODULE EventFeed -----------------------------
(***************************************************************************)
(* What Falcon's tick accumulator promises to the rest of the system: the  *)
(* events the game produced reach the tick callback in the order they were *)
(* produced, each of them once, in batches of at least one event.          *)
(* Nothing is said of buffers, timers or tasks.                            *)
(***************************************************************************)
EXTENDS Naturals, Sequences

CONSTANT Event          \* everything the game can produce

VARIABLES
  produced,             \* the events accepted from the game, in order
  delivered             \* the events handed over so far, in order

feedVars == <<produced, delivered>>

(* delivered extends what was delivered before and stays within produced *)
Prefix(s, t) == /\ Len(s) <= Len(t)
                /\ \A i \in 1..Len(s) : s[i] = t[i]

FeedInit == /\ produced = <<>>
            /\ delivered = <<>>

Produce == /\ produced' \in Seq(Event)
           /\ Len(produced') = Len(produced) + 1
           /\ Prefix(produced, produced')
           /\ UNCHANGED delivered

Deliver == /\ delivered' \in Seq(Event)
           /\ Len(delivered) < Len(delivered')
           /\ Prefix(delivered, delivered')
           /\ Prefix(delivered', produced)
           /\ UNCHANGED produced

FeedNext == Produce \/ Deliver

FeedSpec == FeedInit /\ [][FeedNext]_feedVars
=============================================================================
