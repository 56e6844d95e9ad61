-------------------------------- MODULE Ping --------------------------------
(***************************************************************************)
(* The ping command of a device (netdevice.py:152-250) and the listener    *)
(* lists of its EventManager (observers.py:93-131).  Every series of echo  *)
(* requests keeps a handler in one list, and every echo reply the device   *)
(* receives calls the handlers of all series, while they remove themselves *)
(* from that list.  The network is external: a reply comes at any time, in *)
(* any order, or never.  The timeout is the caller's, so the events of the *)
(* queue run in any order too.                                             *)
(***************************************************************************)
EXTENDS Integers, FiniteSets, SequencesExt

CONSTANTS Series,    \* the calls of ping
          Count,     \* Count[k]: the number of requests asked for
          MaxFlaps   \* bound on how often the route to the target goes

ASSUME CountAssumption ==
  /\ Count \in [Series -> Nat \ {0}]
  /\ MaxFlaps \in Nat

VARIABLES
  device,  \* the device: listeners, pingid and the state of its series
  events,  \* the events in the queue and the replies on their way
  routed,  \* whether the device has a route to the target
  flaps    \* how often the route went

vars == <<device, events, routed, flaps>>

(* An event of a series: the first request ("first"), the timeout of a     *)
(* request ("timer") or the reply to one, named by the id of the request.  *)
On(t, k, i) == [type |-> t, series |-> k, id |-> i]

(* A series: requests remaining, the id sent last, whether it counts as    *)
(* lost ("none" before the first), and whether the device reported to have *)
(* no route.  The id a new series waits for is a guess, which holds unless *)
(* another series sends before it does.                                    *)
Fresh(k) == [remaining |-> Count[k], lastsent |-> device.pingid + 2,
             lost |-> "none", unrouted |-> FALSE]

-----------------------------------------------------------------------------
(* EventManager.listen.                                                    *)
Listen(d, k) == [d EXCEPT !.listeners = Append(@, k)]

(* Fault: the first handler of the list goes, whoever asks.                *)
StopListeningFirst(d, k) ==
  IF d.listeners = <<>> THEN d ELSE [d EXCEPT !.listeners = Tail(@)]

(* EventManager.stop_listening: the first handler that is the one asked    *)
(* for.                                                                    *)
StopListening(d, k) == [d EXCEPT !.listeners = RemoveFirst(@, k)]

NextId(d) == d.pingid + 1

(* Fault: the timer is set only for requests that are followed by others.  *)
SetOffNotLast(d, k) ==
  {On("reply", k, d.pingid + 1)} \cup
    {On("timer", k, d.pingid + 1) : i \in 2 .. d.series[k].remaining}

(* What send_packet leaves in the queue: its timeout and, in time, the     *)
(* reply of the target.                                                    *)
SetOff(d, k) == {On("timer", k, NextId(d)), On("reply", k, NextId(d))}

(* send_packet, in a world w of a device and the events it enqueued; a     *)
(* device without a route gives up, and sets no timer.                     *)
SendPacket(w, k) ==
  LET d == w.device
      s == d.series[k]
  IN  IF ~ routed
      THEN [w EXCEPT !.device.series[k].unrouted = TRUE]
      ELSE [device |->
              [pingid |-> NextId(d), listeners |-> d.listeners,
               series |-> [d.series EXCEPT ![k] =
                             [remaining |-> s.remaining - 1, lastsent |-> NextId(d),
                              lost |-> "yes", unrouted |-> s.unrouted]]],
            queue |-> w.queue \cup SetOff(d, k)]

(* Fault: a series whose last request is out is not looked after.          *)
CheckAndSendAlways(w, k) == SendPacket(w, k)

CheckAndSend(w, k) ==
  IF w.device.series[k].remaining > 0
  THEN SendPacket(w, k)
  ELSE [w EXCEPT !.device = StopListening(@, k)]

(* Fault: the reply to any request answers the last one.                   *)
AnsweredByAny(d, k, id) == [d EXCEPT !.series[k].lost = "no"]

Answered(d, k, id) ==
  IF id = d.series[k].lastsent THEN [d EXCEPT !.series[k].lost = "no"] ELSE d

PingHandler(w, k, id) ==
  CheckAndSend([w EXCEPT !.device = Answered(@, k, id)], k)

(* EventManager.observe calls the listeners by their place in the list; a  *)
(* handler that removes itself moves the next one into its place, and that *)
(* one is not called.                                                      *)
Observe(d, id) ==
  LET called[i \in 0 .. Len(d.listeners)] ==
        IF i = 0 THEN [device |-> d, queue |-> {}]
        ELSE IF i <= Len(called[i - 1].device.listeners)
             THEN PingHandler(called[i - 1], called[i - 1].device.listeners[i], id)
             ELSE called[i - 1]
  IN  called[Len(d.listeners)]

-----------------------------------------------------------------------------
Started(k) == k \in DOMAIN device.series
Listening(k) == Contains(device.listeners, k)

Becomes(w, e) ==
  /\ device' = w.device
  /\ events' = (events \ {e}) \cup w.queue
  /\ UNCHANGED <<routed, flaps>>

(* ping: the handler is registered at once, the first request sent later.  *)
PingCommand(k) ==
  /\ ~ Started(k)
  /\ device' = [pingid |-> NextId(device), listeners |-> Listen(device, k).listeners,
                series |-> [j \in DOMAIN device.series \cup {k} |->
                              IF j = k THEN Fresh(k) ELSE device.series[j]]]
  /\ events' = events \cup {On("first", k, 0)}
  /\ UNCHANGED <<routed, flaps>>

(* The first request is sent 50 ms after the command, whatever its handler *)
(* did meanwhile.                                                          *)
First(e) ==
  /\ e.type = "first"
  /\ Becomes(SendPacket([device |-> device, queue |-> {}], e.series), e)

Timeout(e) ==
  /\ e.type = "timer"
  /\ Becomes(CheckAndSend([device |-> device, queue |-> {}], e.series), e)

(* process_packet: an echo reply is an ICMP event of the device.           *)
EchoReply(e) ==
  /\ e.type = "reply"
  /\ Becomes(Observe(device, e.id), e)

(* The network loses a request or its reply.                               *)
Lose(e) ==
  /\ e.type = "reply"
  /\ events' = events \ {e}
  /\ UNCHANGED <<device, routed, flaps>>

(* The route to the target goes and comes back.                            *)
RouteChange ==
  /\ routed => flaps < MaxFlaps
  /\ routed' = ~ routed
  /\ flaps' = IF routed THEN flaps + 1 ELSE flaps
  /\ UNCHANGED <<device, events>>

Init ==
  /\ device = [pingid |-> 0, listeners |-> <<>>, series |-> [k \in {} |-> 0]]
  /\ events = {}
  /\ routed = TRUE
  /\ flaps = 0

Next ==
  \/ \E k \in Series : PingCommand(k)
  \/ \E e \in events : First(e) \/ Timeout(e) \/ EchoReply(e) \/ Lose(e)
  \/ RouteChange

Spec == Init /\ [][Next]_vars

(* The loop of run_until runs every event that is scheduled                *)
(* (topology.py:321); nothing is assumed of the network.                   *)
OwnEvents == \E e \in events : First(e) \/ Timeout(e)
FairSpec == Spec /\ WF_vars(OwnEvents)

-----------------------------------------------------------------------------
(* A handler never stays for good: as long as a series listens, an event   *)
(* of it is in the queue that looks after it, or the device reported that  *)
(* it has no route (netdevice.py:198, 210, 241).                           *)
HandlersLookedAfter ==
  \A k \in Series : Listening(k) =>
    \/ device.series[k].unrouted
    \/ \E e \in events : e.series = k /\ e.type \in {"first", "timer"}

(* Replies to other series hurry a series along, even before its first     *)
(* request is due; that makes it send one request too many at most, and    *)
(* only with its first one (netdevice.py:193, 247).                        *)
SentAsAsked ==
  \A k \in DOMAIN device.series :
    device.series[k].remaining >= (IF On("first", k, 0) \in events THEN 0 ELSE -1)

(* A request that counts as lost is answered by the reply to itself only,  *)
(* whatever other series and late replies do (netdevice.py:177).           *)
AnsweredByItself ==
  [][\A k \in DOMAIN device.series :
       (device.series[k].lost = "yes" /\ device'.series[k].lost = "no") =>
         On("reply", k, device.series[k].lastsent) \in events \ events']_vars

(* Every series comes to its end and leaves the list, also when no reply   *)
(* ever comes, unless the device had no route.                             *)
SeriesEnds ==
  \A k \in Series :
    Started(k) ~> (~ Listening(k) \/ device.series[k].unrouted)
=============================================================================
