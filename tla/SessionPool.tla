----------------------------- MODULE SessionPool -----------------------------
(***************************************************************************)
(* The pooled WebSocket transport of gateway-backend-codex                 *)
(* (websocket_transport.rs).  A pool maps a session key to one session, a  *)
(* task that owns a socket and answers one response.create at a time.      *)
(* Requests of one key share its session: a visible turn and its           *)
(* offshoots do.  A request is sent in attempts: it queues its command on  *)
(* the pooled session, or dials a new one, waits for the first item and,   *)
(* when the socket turns out to be gone, forgets the session and tries     *)
(* again.  After the first event it relays, it never tries again.          *)
(*                                                                         *)
(* The pool's mutex and a session's `alive` flag are read and written      *)
(* between awaits, so every stretch between two awaits is a step.  Bodies, *)
(* headers and pings that are answered are left out.  An event is named by *)
(* the attempt it answers and by what the transport tells apart:           *)
(*   "event"     a text the gateway decodes; "garbled" one it does not     *)
(*   "terminal"  response.completed, .failed, .cancelled or error          *)
(*   "closed"    an error of the socket whose text is retryable            *)
(*   "fatal"     an error of the socket whose text is not                  *)
(***************************************************************************)
EXTENDS Naturals, Sequences

CONSTANTS
  Request,      (* callers of send_event_stream                              *)
  Key,          (* WebSocketSessionKey                                       *)
  MaxRecycles,  (* WebSocketRetryPolicy::max_recycles                        *)
  MaxSessions,  (* bound: sockets that are ever opened                       *)
  MaxEvents,    (* bound: events of a response before its terminal one       *)
  MaxWire       (* bound: events the backend sent that no task has read      *)

ASSUME BoundsAssumption == MaxRecycles \in Nat /\ MaxSessions \in Nat /\ MaxEvents \in Nat
                          /\ MaxWire \in Nat

VARIABLES
  pool,     (* WebSocketSessionPool.sessions; 0 where a key has none         *)
  session,  (* the sessions opened so far; a chain id is an index            *)
  request   (* the calls in progress                                         *)

vars == <<pool, session, request>>

Error    == {"closed", "fatal", "garbled"}
ItemKind == {"event", "terminal"} \cup Error
Attempt  == Request \X (0 .. MaxRecycles)
Item     == [of : Attempt, kind : ItemKind]

(* An item that ends its response, and one that ends the socket. *)
Terminal(kind) == kind = "terminal"
Breaks(kind)   == kind \in {"closed", "fatal"}

(* should_recycle_websocket_error under the default policy, and *)
(* is_transport_lifecycle_error: only a lost socket is either.   *)
Recyclable(kind) == kind = "closed"

NewSession == [task |-> "idle", queue |-> <<>>, opener |-> <<>>, serving |-> <<>>,
               owed |-> <<>>, told |-> 0, wire |-> <<>>, open |-> TRUE]
NewRequest == [pc |-> "new", key |-> CHOOSE k \in Key : TRUE, delta |-> FALSE,
               session |-> 0, recycles |-> 0, inbox |-> <<>>, seen |-> <<>>]

(* The attempt a request is at, and whether somebody still holds the       *)
(* receiving end of an attempt's channel.                                  *)
Current(r)   == <<r, request[r].recycles>>
Listening(a) == a = Current(a[1]) /\ request[a[1]].pc \in {"awaiting", "streaming"}

(* `alive`: cleared as soon as the task knows that it will return. *)
Alive(s) == session[s].task \in {"idle", "forwarding"}

(* The sending end of an attempt's channel: it is in the command, which is *)
(* queued, or held by the task that forwards its response.                 *)
Pending(a) ==
  \E s \in DOMAIN session :
    \/ \E i \in DOMAIN session[s].queue : session[s].queue[i] = a
    \/ session[s].serving = a

Init ==
  /\ pool = [k \in Key |-> 0]
  /\ session = <<>>
  /\ request = [r \in Request |-> NewRequest]

(***************************************************************************)
(* The calling side                                                        *)
(***************************************************************************)

(* The call is over: its end of the channel is dropped with the rest. *)
Ended(r) ==
  [request EXCEPT ![r] = [NewRequest EXCEPT !.pc = "over", !.delta = request[r].delta]]

(* evict: by key, whichever session is there by now. *)
Evicted(r) == [pool EXCEPT ![request[r].key] = 0]

(* The recycling arms of send_event_stream. *)
Recycle(r) ==
  /\ request[r].recycles < MaxRecycles
  /\ pool' = Evicted(r)
  /\ request' = [request EXCEPT ![r].pc = "choosing", ![r].session = 0, ![r].inbox = <<>>,
                                ![r].recycles = @ + 1]
  /\ UNCHANGED session

(* The last failure is the caller's: an error, or a stream of one error. *)
Fail(r, evicts) ==
  /\ pool' = IF evicts THEN Evicted(r) ELSE pool
  /\ request' = Ended(r)
  /\ UNCHANGED session

(* send_attempt failed before a stream existed. *)
AttemptFails(r) ==
  \/ Recycle(r)
  \/ request[r].recycles = MaxRecycles /\ Fail(r, FALSE)

(* A delta is only planned while the key has a live chain *)
(* (chain_decision_for_request); the chain may die before it is used.      *)
Arrive(r) ==
  /\ request[r].pc = "new"
  /\ \E k \in Key, delta \in BOOLEAN :
       /\ delta => pool[k] # 0 /\ Alive(pool[k])
       /\ request' = [request EXCEPT ![r].pc = "choosing", ![r].key = k, ![r].delta = delta]
  /\ UNCHANGED <<pool, session>>

(* get_alive_session: a dead session is evicted, a delta without a live    *)
(* one fails for good, and a full request goes on to dial.                 *)
Choose(r) ==
  LET s == pool[request[r].key]
      live == s # 0 /\ Alive(s)
  IN
  /\ request[r].pc = "choosing"
  /\ pool' = IF live THEN pool ELSE Evicted(r)
  /\ request' = [request EXCEPT ![r].session = IF live THEN s ELSE 0,
                   ![r].pc = IF live THEN "queueing"
                             ELSE IF request[r].delta THEN "over" ELSE "dialing"]
  /\ UNCHANGED session

(* CodexWebSocketSession::send_event_stream on a session found alive. *)
Enqueued(r) ==
  /\ session' = [session EXCEPT ![request[r].session].queue = Append(@, Current(r))]
  /\ request' = [request EXCEPT ![r].pc = "awaiting", ![r].session = 0]

(* The pooled session, checked again: it may have died since. *)
Queue(r) ==
  /\ request[r].pc = "queueing"
  /\ \/ Alive(request[r].session) /\ Enqueued(r) /\ UNCHANGED pool
     \/ /\ ~Alive(request[r].session)
        /\ \/ Recycle(r)
           \/ request[r].recycles = MaxRecycles /\ Fail(r, TRUE)

(* Mutant: the new session enters the pool as soon as it is open. *)
DialPooled(r) ==
  /\ request[r].pc = "dialing"
  /\ \/ /\ Len(session) < MaxSessions
        /\ session' = Append(session, NewSession)
        /\ request' = [request EXCEPT ![r].pc = "starting", ![r].session = Len(session) + 1]
        /\ pool' = [pool EXCEPT ![request[r].key] = Len(session) + 1]
     \/ AttemptFails(r)
     \/ Fail(r, FALSE)

(* open_session_with_refresh_retry: a socket, a retryable failure (refused,*)
(* 500, 502, 503) or one that is not (a status such as 401 or 404).        *)
Dial(r) ==
  /\ request[r].pc = "dialing"
  /\ \/ /\ Len(session) < MaxSessions
        /\ session' = Append(session, NewSession)
        /\ request' = [request EXCEPT ![r].pc = "starting", ![r].session = Len(session) + 1]
        /\ UNCHANGED pool
     \/ AttemptFails(r)
     \/ Fail(r, FALSE)

(* The new session takes the command first and enters the pool after, over *)
(* the session another dial may have put there.                            *)
Start(r) ==
  LET s == request[r].session IN
  /\ request[r].pc = "starting"
  /\ \/ Alive(s) /\ Enqueued(r) /\ pool' = [pool EXCEPT ![request[r].key] = s]
     \/ ~Alive(s) /\ AttemptFails(r)

(* The first item of the stream decides what the attempt was.  A response  *)
(* that refuses a delta makes the caller evict the session                 *)
(* (invalidate_websocket_transport_session) and fail the request.          *)
First(r) ==
  LET item == Head(request[r].inbox) IN
  /\ request[r].pc = "awaiting" /\ request[r].inbox # <<>>
  /\ \/ /\ item.kind \notin Error
        /\ request' = [request EXCEPT ![r].pc = "streaming", ![r].inbox = Tail(@),
                                      ![r].seen = <<item>>]
        /\ UNCHANGED <<pool, session>>
     \/ Terminal(item.kind) /\ request[r].delta /\ Fail(r, TRUE)
     \/ Recyclable(item.kind) /\ Recycle(r)
     \/ Recyclable(item.kind) /\ request[r].recycles = MaxRecycles /\ Fail(r, TRUE)
     \/ item.kind \in Error /\ ~Recyclable(item.kind) /\ Fail(r, FALSE)

(* The command was dropped unanswered: "ended before first event". *)
FirstMissing(r) ==
  /\ request[r].pc = "awaiting" /\ request[r].inbox = <<>> /\ ~Pending(Current(r))
  /\ \/ Recycle(r)
     \/ request[r].recycles = MaxRecycles /\ Fail(r, TRUE)

(* Mutant: an error after the first event also restarts the response. *)
RelayRecycles(r) ==
  LET item == Head(request[r].inbox) IN
  /\ request[r].pc = "streaming" /\ request[r].inbox # <<>>
  /\ \/ Recyclable(item.kind) /\ Recycle(r)
     \/ /\ request' = [request EXCEPT ![r].inbox = Tail(@), ![r].seen = Append(@, item)]
        /\ UNCHANGED <<pool, session>>

(* guarded_tail: later items are passed on, whatever they are. *)
Relay(r) ==
  LET item == Head(request[r].inbox) IN
  /\ request[r].pc = "streaming" /\ request[r].inbox # <<>>
  /\ request' = [request EXCEPT ![r].inbox = Tail(@), ![r].seen = Append(@, item)]
  /\ pool' = IF Recyclable(item.kind) THEN Evicted(r) ELSE pool
  /\ UNCHANGED session

StreamEnds(r) ==
  /\ request[r].pc = "streaming" /\ request[r].inbox = <<>> /\ ~Pending(Current(r))
  /\ request' = Ended(r)
  /\ UNCHANGED <<pool, session>>

(* The future is dropped at an await: the client went away, or a unary     *)
(* caller stopped at an error.  Its end of the channel goes with it.       *)
Leave(r) ==
  /\ request[r].pc \in {"dialing", "awaiting", "streaming"}
  /\ request' = Ended(r)
  /\ UNCHANGED <<pool, session>>

(***************************************************************************)
(* run_websocket_session                                                   *)
(***************************************************************************)

(* events.send: the item reaches the caller that still listens. *)
Delivered(a, kind) ==
  IF Listening(a)
  THEN [request EXCEPT ![a[1]].inbox = Append(@, [of |-> a, kind |-> kind])]
  ELSE request

(* Mutant: the queued commands outlive the task, and so do their channels. *)
StoppedHoldsCommands(s) ==
  [session EXCEPT ![s] = [NewSession EXCEPT !.task = "stopped", !.open = FALSE,
                                            !.queue = session[s].queue]]

(* The task returns: the socket and the commands it holds are dropped. *)
Stopped(s) == [session EXCEPT ![s] = [NewSession EXCEPT !.task = "stopped", !.open = FALSE]]

(* A command is sent; on a socket the backend closed it may fail. *)
TakeCommand(s) ==
  LET a == Head(session[s].queue) IN
  /\ session[s].task = "idle" /\ session[s].queue # <<>>
  /\ \/ /\ session' = [session EXCEPT ![s].task = "forwarding", ![s].queue = Tail(@),
                         ![s].serving = a, ![s].opener = IF @ = <<>> THEN a ELSE @,
                         ![s].owed = IF session[s].open THEN Append(@, a) ELSE @]
        /\ UNCHANGED request
     \/ /\ ~session[s].open
        /\ session' = Stopped(s)
        /\ request' = Delivered(a, "closed")
  /\ UNCHANGED pool

(* Mutant: a response nobody listens to is abandoned, the socket kept. *)
ForwardAbandons(s) ==
  LET a == session[s].serving
      frame == Head(session[s].wire)
  IN
  /\ session[s].task = "forwarding" /\ session[s].wire # <<>>
  /\ request' = Delivered(a, frame.kind)
  /\ session' =
       IF Breaks(frame.kind) THEN Stopped(s)
       ELSE IF ~Listening(a) \/ Terminal(frame.kind)
         THEN [session EXCEPT ![s].wire = Tail(@), ![s].task = "idle", ![s].serving = <<>>]
         ELSE [session EXCEPT ![s].wire = Tail(@)]
  /\ UNCHANGED pool

(* forward_websocket_response_events: an item goes to the caller of the    *)
(* command; when nobody listens, the socket is closed rather than left     *)
(* with the rest of a response in it.                                      *)
Forward(s) ==
  LET a == session[s].serving
      frame == Head(session[s].wire)
  IN
  /\ session[s].task = "forwarding" /\ session[s].wire # <<>>
  /\ request' = Delivered(a, frame.kind)
  /\ session' =
       IF Breaks(frame.kind) THEN Stopped(s)
       ELSE IF ~Listening(a) THEN [session EXCEPT ![s].wire = Tail(@), ![s].task = "closing"]
       ELSE IF Terminal(frame.kind)
         THEN [session EXCEPT ![s].wire = Tail(@), ![s].task = "idle", ![s].serving = <<>>]
         ELSE [session EXCEPT ![s].wire = Tail(@)]
  /\ UNCHANGED pool

(* handle_idle_websocket_item and the keepalive ping: a lost socket ends   *)
(* the task, anything else is ignored.                                     *)
IdleItem(s) ==
  /\ session[s].task = "idle" /\ session[s].wire # <<>>
  /\ session' = IF Breaks(Head(session[s].wire).kind) THEN Stopped(s)
                ELSE [session EXCEPT ![s].wire = Tail(@)]
  /\ UNCHANGED <<pool, request>>

(* socket.close(None).await returned. *)
Closed(s) ==
  /\ session[s].task = "closing"
  /\ session' = Stopped(s)
  /\ UNCHANGED <<pool, request>>

(* receiver.recv() is None: neither the pool nor a request holds it. *)
Unreferenced(s) ==
  /\ session[s].task = "idle" /\ session[s].queue = <<>>
  /\ \A k \in Key : pool[k] # s
  /\ \A r \in Request : request[r].session # s
  /\ session' = Stopped(s)
  /\ UNCHANGED <<pool, request>>

(***************************************************************************)
(* The backend, one socket at a time: it answers the commands in order, an *)
(* event or a terminal one after the other, and may lose the socket.       *)
(***************************************************************************)
Answer(s) ==
  /\ session[s].open /\ session[s].owed # <<>> /\ Len(session[s].wire) < MaxWire
  /\ \E kind \in {"event", "garbled", "terminal"} :
       /\ ~Terminal(kind) => session[s].told < MaxEvents
       /\ session' = [session EXCEPT
            ![s].wire = Append(@, [of |-> Head(session[s].owed), kind |-> kind]),
            ![s].told = IF Terminal(kind) THEN 0 ELSE @ + 1,
            ![s].owed = IF Terminal(kind) THEN Tail(@) ELSE @]
  /\ UNCHANGED <<pool, request>>

Lose(s) ==
  /\ session[s].open
  /\ \E kind \in {"closed", "fatal"} :
       session' = [session EXCEPT ![s].open = FALSE, ![s].owed = <<>>,
                     ![s].wire = Append(@, [of |-> <<>>, kind |-> kind])]
  /\ UNCHANGED <<pool, request>>

(***************************************************************************)
(* Specification                                                           *)
(***************************************************************************)
Advance(r) == Choose(r) \/ Queue(r) \/ Dial(r) \/ Start(r) \/ First(r) \/ FirstMissing(r)
              \/ Relay(r) \/ StreamEnds(r)
Run(s)     == TakeCommand(s) \/ Forward(s) \/ IdleItem(s) \/ Closed(s) \/ Unreferenced(s)

Next ==
  \/ \E r \in Request : Arrive(r) \/ Advance(r) \/ Leave(r)
  \/ \E s \in DOMAIN session : Run(s) \/ Answer(s) \/ Lose(s)

Spec == Init /\ [][Next]_vars

(* The runtime polls every call and every task that can go on, and the     *)
(* backend goes on with a response it owes or loses the socket.            *)
FairSpec ==
  /\ Spec
  /\ \A r \in Request : WF_vars(Advance(r))
  /\ \A s \in 1 .. MaxSessions :
       /\ WF_vars(s \in DOMAIN session /\ Run(s))
       /\ WF_vars(s \in DOMAIN session /\ session[s].owed # <<>> /\ (Answer(s) \/ Lose(s)))

(***************************************************************************)
(* Properties                                                              *)
(***************************************************************************)

(* A socket never has a command in it while the response of an earlier one *)
(* is unfinished, so an item that is read while a response is forwarded is *)
(* that response's: a caller never sees the events of another request or   *)
(* the rest of an abandoned response (the test of a dropped consumer in    *)
(* websocket_transport.rs only sees the receiver close).                   *)
OwnEventsOnly ==
  \A s \in DOMAIN session :
    /\ Len(session[s].owed) <= 1
    /\ session[s].task = "forwarding" =>
         \A i \in DOMAIN session[s].wire :
           session[s].wire[i].of \in {session[s].serving, <<>>}

(* The transport never tries again once an event reached the caller: what  *)
(* a caller saw is one response, that of its last attempt, with nothing    *)
(* before or after it ("recycled inside the transport before the first     *)
(* event is exposed", client.rs).                                          *)
OneResponseSeen ==
  \A r \in Request :
    \A i \in DOMAIN request[r].seen :
      /\ request[r].seen[i].of = Current(r)
      /\ i < Len(request[r].seen) =>
           ~Terminal(request[r].seen[i].kind) /\ ~Breaks(request[r].seen[i].kind)

(* A delta names a response of the chain it was planned on, which another  *)
(* socket does not know.  No socket is ever sent a delta before the full   *)
(* request that opened it, however dials, deaths and evictions of the      *)
(* requests of a key interleave.                                           *)
DeltaNeverFirst ==
  \A s \in DOMAIN session :
    session[s].opener # <<>> => ~request[session[s].opener[1]].delta

(* Every call is over in the end: behind another request's response, behind*)
(* one nobody listens to, on a socket that dies, or after a dial.          *)
EveryCallEnds == \A r \in Request : request[r].pc = "choosing" ~> request[r].pc = "over"

=============================================================================
