--------------------------- MODULE SessionPoolProofs ---------------------------
(***************************************************************************)
(* Theorems about SessionPool, for every set of requests and keys, any     *)
(* number of recycles and of sessions, and responses of any length: whose  *)
(* events a caller sees, and what opens a socket.                          *)
(*                                                                         *)
(* The argument: a task takes a command only when the backend owes nothing *)
(* on its socket and what is left to read there is at most the news that   *)
(* the socket is lost, so all it reads until the response ends is that     *)
(* response.  An attempt is queued once, in one place, and its channel is  *)
(* gone with the item that ends it, so a caller's items are those of one   *)
(* response and nothing follows its end.  A session is in the pool only    *)
(* after the full request that dialed it is queued.                        *)
(***************************************************************************)
EXTENDS SessionPool, SequenceTheorems, TLAPS

Pc == {"new", "choosing", "queueing", "dialing", "starting", "awaiting", "streaming", "over"}

Task == {"idle", "forwarding", "closing", "stopped"}

(* What a task reads: an answer to an attempt, or that the socket is lost. *)
WireItem ==
  [of : {<<>>}, kind : {"closed", "fatal"}]
    \cup [of : Attempt, kind : {"event", "garbled", "terminal"}]

SessionState ==
  [task : Task, queue : Seq(Attempt), opener : Attempt \cup {<<>>},
   serving : Attempt \cup {<<>>}, owed : Seq(Attempt), told : Nat,
   wire : Seq(WireItem), open : BOOLEAN]

CallState ==
  [pc : Pc, key : Key \cup {NewRequest.key}, delta : BOOLEAN, session : Nat,
   recycles : 0 .. MaxRecycles, inbox : Seq(Item), seen : Seq(Item)]

TypeOK ==
  /\ pool \in [Key -> Nat]
  /\ session \in Seq(SessionState)
  /\ request \in [Request -> CallState]
  /\ \A r \in Request : request[r].pc \notin {"new", "over"} => request[r].key \in Key
  /\ \A s \in DOMAIN session : session[s].task = "forwarding" => session[s].serving \in Attempt

(* Between responses nothing is owed and nothing of a response is left to     *)
(* read; while one is forwarded, nothing else is, and nothing after its end.  *)
Idle(S) ==
  /\ S.owed = <<>>
  /\ \A i \in DOMAIN S.wire : S.wire[i].of = <<>>

Forwarding(S) ==
  /\ S.owed \in {<<>>, <<S.serving>>}
  /\ \A i \in DOMAIN S.wire :
       /\ S.wire[i].of \in {S.serving, <<>>}
       /\ Terminal(S.wire[i].kind) =>
            S.owed = <<>> /\ \A j \in DOMAIN S.wire : j > i => S.wire[j].of = <<>>

Socket(S) ==
  /\ S.owed = <<>> \/ \E a \in Attempt : S.owed = <<a>>
  /\ S.task = "idle" => Idle(S)
  /\ S.task = "forwarding" => Forwarding(S)

SocketInv == \A s \in DOMAIN session : Socket(session[s])

(* A command reached the session, or never will. *)
Begun(S) == S.task = "stopped" \/ S.opener # <<>> \/ S.queue # <<>>

(* Only sessions that were begun are pooled, and only they are queued on.     *)
PoolInv ==
  /\ \A k \in Key : pool[k] # 0 => pool[k] \in DOMAIN session /\ Begun(session[pool[k]])
  /\ \A r \in Request :
       /\ request[r].pc \in {"queueing", "starting"} => request[r].session \in DOMAIN session
       /\ request[r].pc = "queueing" => Begun(session[request[r].session])

(* The attempts that are queued or served were made, each in one place.       *)
Made(a) ==
  LET q == request[a[1]] IN
  \/ q.pc = "over"
  \/ a[2] < q.recycles /\ q.pc # "new"
  \/ a[2] = q.recycles /\ q.pc \in {"awaiting", "streaming"}

PendingIn(S, a) == S.serving = a \/ \E i \in DOMAIN S.queue : S.queue[i] = a

Distinct(S) ==
  \A i \in DOMAIN S.queue :
    S.queue[i] # S.serving /\ \A j \in DOMAIN S.queue : S.queue[i] = S.queue[j] => i = j

PendingInv ==
  /\ \A a \in Attempt : Pending(a) => Made(a)
  /\ \A s \in DOMAIN session : Distinct(session[s])
  /\ \A s, t \in DOMAIN session : s # t =>
       \A a \in Attempt : ~(PendingIn(session[s], a) /\ PendingIn(session[t], a))

(* The request that opened a socket, or will, is a full one.                  *)
Opened(S) ==
  /\ S.opener # <<>> => request[S.opener[1]].pc # "new" /\ ~request[S.opener[1]].delta
  /\ S.opener = <<>> /\ S.queue # <<>> => ~request[Head(S.queue)[1]].delta

DeltaInv ==
  /\ \A r \in Request : request[r].pc \in {"dialing", "starting"} => ~request[r].delta
  /\ \A s \in DOMAIN session : Opened(session[s])

(* A caller's items are those of its last attempt; the one that ends it is the *)
(* last, and the attempt is pending no more.                                   *)
Ending(kind) == Terminal(kind) \/ Breaks(kind)

Closes(r, items) ==
  \A i \in DOMAIN items :
    /\ items[i].of = Current(r)
    /\ Ending(items[i].kind) => i = Len(items) /\ ~Pending(Current(r))

Caller(r) ==
  /\ request[r].pc # "streaming" => request[r].seen = <<>>
  /\ request[r].pc \notin {"awaiting", "streaming"} => request[r].inbox = <<>>
  /\ Closes(r, request[r].inbox) /\ Closes(r, request[r].seen)
  /\ \A i \in DOMAIN request[r].seen :
       Ending(request[r].seen[i].kind) => request[r].inbox = <<>>

CallerInv == \A r \in Request : Caller(r)

PoolOK == TypeOK /\ SocketInv /\ PoolInv /\ PendingInv /\ DeltaInv /\ CallerInv

--------------------------------------------------------------------------------
(* What a step makes of the record of a call, as a relation between the old   *)
(* record q and the new one w.                                                *)
KeepsCall(q, w) == w.key = q.key /\ w.delta = q.delta /\ w.recycles = q.recycles

Arrives(q, w) ==
  /\ q.pc = "new" /\ w.pc = "choosing"
  /\ w.key \in Key /\ w.recycles = q.recycles /\ w.inbox = q.inbox /\ w.seen = q.seen

Chooses(q, w) ==
  /\ q.pc = "choosing" /\ KeepsCall(q, w) /\ w.inbox = q.inbox /\ w.seen = q.seen
  /\ \/ w.pc = "over"
     \/ w.pc = "dialing" /\ ~q.delta
     \/ w.pc = "queueing" /\ w.session = pool[q.key] /\ w.session # 0

Dials(q, w) ==
  /\ q.pc = "dialing" /\ w.pc = "starting" /\ w.session = Len(session) + 1
  /\ KeepsCall(q, w) /\ w.inbox = q.inbox /\ w.seen = q.seen

Queues(q, w) ==
  /\ q.pc \in {"queueing", "starting"} /\ w.pc = "awaiting"
  /\ KeepsCall(q, w) /\ w.inbox = q.inbox /\ w.seen = q.seen

Recycles(q, w) ==
  /\ q.pc \in {"queueing", "dialing", "starting", "awaiting"} /\ w.pc = "choosing"
  /\ w.key = q.key /\ w.delta = q.delta /\ w.recycles = q.recycles + 1
  /\ w.inbox = <<>> /\ w.seen = q.seen

Ends(q, w) ==
  /\ q.pc # "new" /\ w.pc = "over" /\ w.delta = q.delta /\ w.recycles = 0
  /\ w.inbox = <<>> /\ w.seen = <<>>

Sees(q, w) ==
  /\ q.pc \in {"awaiting", "streaming"} /\ q.inbox # <<>>
  /\ w.pc = "streaming" /\ KeepsCall(q, w)
  /\ w.inbox = Tail(q.inbox)
  /\ w.seen = IF q.pc = "awaiting" THEN <<Head(q.inbox)>> ELSE Append(q.seen, Head(q.inbox))

Hears(q, w, item) ==
  /\ q.pc \in {"awaiting", "streaming"} /\ w.pc = q.pc /\ KeepsCall(q, w)
  /\ w.inbox = Append(q.inbox, item) /\ w.seen = q.seen

OneCall(r) ==
  /\ request' = [request EXCEPT ![r] = request'[r]]
  /\ request'[r] \in CallState

LEMMA CallFacts ==
  ASSUME TypeOK, NEW r \in Request
  PROVE  /\ request \in [Request -> CallState] /\ request[r] \in CallState
         /\ request[r].pc \in Pc /\ request[r].delta \in BOOLEAN
         /\ request[r].session \in Nat /\ request[r].recycles \in 0 .. MaxRecycles
         /\ request[r].inbox \in Seq(Item) /\ request[r].seen \in Seq(Item)
         /\ request[r].key \in Key \cup {NewRequest.key}
         /\ NewRequest.key \in Key \cup {NewRequest.key}
BY DEF TypeOK, CallState

LEMMA NewFacts ==
  /\ NewRequest \in CallState
  /\ NewRequest.session = 0 /\ NewRequest.recycles = 0
  /\ NewRequest.inbox = <<>> /\ NewRequest.seen = <<>>
BY BoundsAssumption DEF NewRequest, CallState, Pc

LEMMA EndedCall ==
  ASSUME TypeOK, NEW r \in Request, request[r].pc # "new", request' = Ended(r)
  PROVE  OneCall(r) /\ Ends(request[r], request'[r])
<1>1. request' = [request EXCEPT ![r] = [NewRequest EXCEPT !.pc = "over", !.delta = request[r].delta]]
  BY DEF Ended
<1> DEFINE new == [NewRequest EXCEPT !.pc = "over", !.delta = request[r].delta]
<1>2. new \in CallState /\ new.pc = "over" /\ new.delta = request[r].delta /\ new.recycles = 0
      /\ new.inbox = <<>> /\ new.seen = <<>>
  BY CallFacts, NewFacts DEF CallState, Pc
<1>3. request'[r] = new /\ request' = [request EXCEPT ![r] = request'[r]]
  BY <1>1, CallFacts
<1>4. QED
  BY <1>2, <1>3 DEF OneCall, Ends

LEMMA RecycledCall ==
  ASSUME TypeOK, NEW r \in Request, Recycle(r),
         request[r].pc \in {"queueing", "dialing", "starting", "awaiting"}
  PROVE  OneCall(r) /\ Recycles(request[r], request'[r])
<1> DEFINE q == request[r]
<1>1. request' = [request EXCEPT ![r].pc = "choosing", ![r].session = 0, ![r].inbox = <<>>,
                                ![r].recycles = @ + 1]
  BY DEF Recycle
<1>2. /\ request'[r].pc = "choosing" /\ request'[r].key = q.key /\ request'[r].delta = q.delta
      /\ request'[r].session = 0 /\ request'[r].recycles = q.recycles + 1
      /\ request'[r].inbox = <<>> /\ request'[r].seen = q.seen
  BY ONLY <1>1, CallFacts, TypeOK, r \in Request DEF CallState
<1>3. q.recycles + 1 \in 0 .. MaxRecycles
  BY CallFacts, BoundsAssumption DEF Recycle
<1>4. OneCall(r)
  <2>1. request \in [Request -> CallState] /\ "choosing" \in Pc /\ <<>> \in Seq(Item) /\ 0 \in Nat
    BY CallFacts DEF Pc
  <2>2. request'[r] \in CallState
    BY ONLY <1>1, <1>3, <2>1, r \in Request DEF CallState
  <2>3. request' = [request EXCEPT ![r] = request'[r]]
    BY ONLY <1>1, <2>1, r \in Request
  <2>4. QED
    BY ONLY <2>2, <2>3 DEF OneCall
<1>5. QED
  BY <1>2, <1>4 DEF Recycles

LEMMA ArriveCall ==
  ASSUME TypeOK, NEW r \in Request, Arrive(r)
  PROVE  OneCall(r) /\ Arrives(request[r], request'[r])
<1>1. PICK k \in Key, delta \in BOOLEAN :
        request' = [request EXCEPT ![r].pc = "choosing", ![r].key = k, ![r].delta = delta]
  BY DEF Arrive
<1>2. OneCall(r)
  <2>1. request \in [Request -> CallState] /\ "choosing" \in Pc /\ k \in Key /\ delta \in BOOLEAN
    BY CallFacts DEF Pc
  <2>2. QED
    BY ONLY <1>1, <2>1, r \in Request DEF OneCall, CallState
<1>3. QED
  BY <1>1, <1>2, CallFacts DEF Arrives, Arrive, CallState

LEMMA ChooseCall ==
  ASSUME TypeOK, NEW r \in Request, Choose(r)
  PROVE  OneCall(r) /\ Chooses(request[r], request'[r])
<1> DEFINE s == pool[request[r].key]
<1>1. PICK pc \in {"queueing", "over", "dialing"}, n \in {s, 0} :
        /\ request' = [request EXCEPT ![r].session = n, ![r].pc = pc]
        /\ pc = "queueing" => n = s /\ s # 0
        /\ pc = "dialing" => ~request[r].delta
  BY DEF Choose
<1>2. n \in Nat /\ pc \in Pc /\ request' = [request EXCEPT ![r].session = n, ![r].pc = pc]
  <2>1. request[r].key \in Key
    BY DEF TypeOK, Choose
  <2>2. s \in Nat
    BY <2>1 DEF TypeOK
  <2>3. QED
    BY ONLY <1>1, <2>2 DEF Pc
<1>3. OneCall(r)
  BY ONLY <1>2, CallFacts, TypeOK, r \in Request DEF OneCall, CallState
<1>4. /\ request'[r].pc = pc /\ request'[r].session = n /\ KeepsCall(request[r], request'[r])
      /\ request'[r].inbox = request[r].inbox /\ request'[r].seen = request[r].seen
  BY ONLY <1>1, CallFacts, TypeOK, r \in Request DEF KeepsCall, CallState
<1>5. QED
  BY <1>1, <1>3, <1>4 DEF Chooses, Choose

LEMMA QueuedCall ==
  ASSUME TypeOK, NEW r \in Request, Enqueued(r), request[r].pc \in {"queueing", "starting"}
  PROVE  OneCall(r) /\ Queues(request[r], request'[r])
<1>1. request' = [request EXCEPT ![r].pc = "awaiting", ![r].session = 0]
  BY DEF Enqueued
<1>2. OneCall(r)
  BY ONLY <1>1, CallFacts, TypeOK, r \in Request DEF OneCall, CallState, Pc
<1>3. QED
  BY <1>1, <1>2, CallFacts DEF Queues, KeepsCall, CallState

LEMMA SeeingCall ==
  ASSUME TypeOK, NEW r \in Request, Relay(r)
  PROVE  OneCall(r) /\ Sees(request[r], request'[r])
<1> DEFINE q == request[r]
<1>1. request' = [request EXCEPT ![r].inbox = Tail(@), ![r].seen = Append(@, Head(q.inbox))]
  BY DEF Relay
<1>2. Tail(q.inbox) \in Seq(Item) /\ Head(q.inbox) \in Item
  BY CallFacts, HeadTailProperties DEF Relay
<1>3. Append(q.seen, Head(q.inbox)) \in Seq(Item)
  BY <1>2, CallFacts, AppendProperties
<1>4. OneCall(r)
  BY ONLY <1>1, <1>2, <1>3, CallFacts, TypeOK, r \in Request DEF OneCall, CallState
<1>5. /\ request'[r].pc = q.pc /\ KeepsCall(q, request'[r])
      /\ request'[r].inbox = Tail(q.inbox) /\ request'[r].seen = Append(q.seen, Head(q.inbox))
  BY ONLY <1>1, CallFacts, TypeOK, r \in Request DEF KeepsCall, CallState
<1>6. QED
  BY <1>4, <1>5 DEF Sees, Relay

LEMMA FirstSeen ==
  ASSUME TypeOK, NEW r \in Request, First(r),
         request' = [request EXCEPT ![r].pc = "streaming", ![r].inbox = Tail(@),
                                    ![r].seen = <<Head(request[r].inbox)>>]
  PROVE  OneCall(r) /\ Sees(request[r], request'[r])
<1> DEFINE q == request[r]
<1>1. Tail(q.inbox) \in Seq(Item) /\ Head(q.inbox) \in Item
  BY CallFacts, HeadTailProperties DEF First
<1>2. <<Head(q.inbox)>> \in Seq(Item)
  BY <1>1
<1>3. OneCall(r)
  BY ONLY <1>1, <1>2, CallFacts, TypeOK, r \in Request,
          request' = [request EXCEPT ![r].pc = "streaming", ![r].inbox = Tail(@),
                                     ![r].seen = <<Head(request[r].inbox)>>]
     DEF OneCall, CallState, Pc
<1>4. /\ request'[r].pc = "streaming" /\ KeepsCall(q, request'[r])
      /\ request'[r].inbox = Tail(q.inbox) /\ request'[r].seen = <<Head(q.inbox)>>
  BY ONLY CallFacts, TypeOK, r \in Request,
          request' = [request EXCEPT ![r].pc = "streaming", ![r].inbox = Tail(@),
                                     ![r].seen = <<Head(request[r].inbox)>>]
     DEF KeepsCall, CallState
<1>5. QED
  BY <1>3, <1>4 DEF Sees, First

LEMMA HearingCall ==
  ASSUME TypeOK, NEW a \in Attempt, NEW kind \in ItemKind, Listening(a),
         request' = Delivered(a, kind)
  PROVE  /\ OneCall(a[1]) /\ a = Current(a[1])
         /\ Hears(request[a[1]], request'[a[1]], [of |-> a, kind |-> kind])
<1> DEFINE r == a[1]
           q == request[r]
           item == [of |-> a, kind |-> kind]
<1>1. r \in Request
  BY DEF Attempt
<1>2. request' = [request EXCEPT ![r].inbox = Append(@, item)]
  BY DEF Delivered
<1>3. item \in Item
  BY DEF Item
<1> HIDE DEF item, r
<1>4. Append(q.inbox, item) \in Seq(Item)
  BY <1>1, <1>3, CallFacts, AppendProperties
<1>5. OneCall(r)
  BY ONLY <1>1, <1>2, <1>4, CallFacts, TypeOK DEF OneCall, CallState
<1>6. /\ request'[r].pc = q.pc /\ KeepsCall(q, request'[r])
      /\ request'[r].inbox = Append(q.inbox, item) /\ request'[r].seen = q.seen
  BY ONLY <1>1, <1>2, CallFacts, TypeOK DEF KeepsCall, CallState
<1>7. q.pc \in {"awaiting", "streaming"} /\ a = Current(r)
  BY DEF Listening, r
<1>8. QED
  BY <1>5, <1>6, <1>7 DEF Hears, item, r

--------------------------------------------------------------------------------
(* The same for the record S of a session and the new one T.                  *)
KeepsSession(S, T) == T.opener = S.opener /\ T.owed = S.owed /\ T.wire = S.wire

Takes(S, T) ==
  /\ S.task = "idle" /\ S.queue # <<>>
  /\ T.task = "forwarding" /\ T.queue = Tail(S.queue) /\ T.serving = Head(S.queue)
  /\ T.opener = IF S.opener = <<>> THEN Head(S.queue) ELSE S.opener
  /\ T.owed \in {S.owed, Append(S.owed, Head(S.queue))} /\ T.wire = S.wire

Grows(S, T, a) ==
  /\ S.task \in {"idle", "forwarding"} /\ T.task = S.task
  /\ T.queue = Append(S.queue, a) /\ T.serving = S.serving /\ KeepsSession(S, T)

Stops(T) ==
  /\ T.task = "stopped" /\ T.queue = <<>> /\ T.serving = <<>>
  /\ T.opener = <<>> /\ T.owed = <<>> /\ T.wire = <<>>

Reads(S, T) ==
  /\ S.task \in {"idle", "forwarding"} /\ S.wire # <<>> /\ T.wire = Tail(S.wire)
  /\ T.queue = S.queue /\ T.opener = S.opener /\ T.owed = S.owed
  /\ \/ T.task \in {S.task, "closing"} /\ T.serving = S.serving
     \/ /\ S.task = "forwarding" /\ Terminal(Head(S.wire).kind)
        /\ T.task = "idle" /\ T.serving = <<>>

Answered(S, T, item) ==
  /\ S.owed # <<>> /\ T.wire = Append(S.wire, item) /\ item.of = Head(S.owed)
  /\ T.task = S.task /\ T.queue = S.queue /\ T.opener = S.opener /\ T.serving = S.serving
  /\ T.owed = IF Terminal(item.kind) THEN Tail(S.owed) ELSE S.owed

Loses(S, T, item) ==
  /\ T.wire = Append(S.wire, item) /\ item.of = <<>> /\ T.owed = <<>>
  /\ T.task = S.task /\ T.queue = S.queue /\ T.opener = S.opener /\ T.serving = S.serving

OneSession(s) ==
  /\ session' = [session EXCEPT ![s] = session'[s]]
  /\ session'[s] \in SessionState

LEMMA SessionFacts ==
  ASSUME TypeOK, NEW s \in DOMAIN session
  PROVE  /\ DOMAIN session = 1 .. Len(session) /\ Len(session) \in Nat
         /\ session \in [DOMAIN session -> SessionState] /\ session[s] \in SessionState
         /\ session[s].task \in Task /\ session[s].queue \in Seq(Attempt)
         /\ session[s].opener \in Attempt \cup {<<>>}
         /\ session[s].serving \in Attempt \cup {<<>>}
         /\ session[s].owed \in Seq(Attempt) /\ session[s].told \in Nat
         /\ session[s].wire \in Seq(WireItem) /\ session[s].open \in BOOLEAN
<1>1. session \in Seq(SessionState)
  BY DEF TypeOK
<1>2. DOMAIN session = 1 .. Len(session) /\ Len(session) \in Nat
      /\ session \in [DOMAIN session -> SessionState]
  BY <1>1, LenProperties
<1>3. session[s] \in SessionState
  BY <1>2
<1>4. QED
  BY <1>2, <1>3 DEF SessionState

LEMMA SessionReplaced ==
  ASSUME TypeOK, NEW s \in DOMAIN session, OneSession(s)
  PROVE  /\ session' \in Seq(SessionState) /\ DOMAIN session' = DOMAIN session
         /\ \A t \in DOMAIN session : t # s => session'[t] = session[t]
<1> DEFINE T == session'[s]
<1>1. session \in Seq(SessionState) /\ s \in 1 .. Len(session) /\ T \in SessionState
      /\ session' = [session EXCEPT ![s] = T]
  BY SessionFacts DEF TypeOK, OneSession
<1> HIDE DEF T
<1>2. session' \in Seq(SessionState) /\ Len(session') = Len(session)
  BY ONLY <1>1, ExceptSeq
<1>3. QED
  BY ONLY <1>1, <1>2, SessionFacts, LenProperties

LEMMA SessionAdded ==
  ASSUME TypeOK, session' = Append(session, NewSession)
  PROVE  /\ session' \in Seq(SessionState) /\ Len(session') = Len(session) + 1
         /\ DOMAIN session' = DOMAIN session \cup {Len(session) + 1}
         /\ Len(session) + 1 \notin DOMAIN session
         /\ \A t \in DOMAIN session : session'[t] = session[t]
         /\ session'[Len(session) + 1] = NewSession
<1>1. session \in Seq(SessionState) /\ NewSession \in SessionState
  BY DEF TypeOK, NewSession, SessionState, Task
<1>2. /\ session' \in Seq(SessionState) /\ Len(session') = Len(session) + 1
      /\ \A t \in 1 .. Len(session) : session'[t] = session[t]
      /\ session'[Len(session) + 1] = NewSession
  BY ONLY <1>1, AppendProperties, session' = Append(session, NewSession)
<1>3. DOMAIN session = 1 .. Len(session) /\ Len(session) \in Nat
      /\ DOMAIN session' = 1 .. Len(session')
  BY ONLY <1>1, <1>2, LenProperties
<1>4. QED
  BY ONLY <1>2, <1>3

LEMMA StoppedSession ==
  ASSUME TypeOK, NEW s \in DOMAIN session, session' = Stopped(s)
  PROVE  OneSession(s) /\ Stops(session'[s])
<1> DEFINE new == [NewSession EXCEPT !.task = "stopped", !.open = FALSE]
<1>1. session' = [session EXCEPT ![s] = new]
  BY DEF Stopped
<1>2. new \in SessionState
  BY ONLY <<>> \in Seq(Attempt), <<>> \in Seq(WireItem) DEF NewSession, SessionState, Task
<1>3. Stops(new)
  BY DEF NewSession, Stops
<1>4. session'[s] = new /\ session' = [session EXCEPT ![s] = session'[s]]
  BY <1>1, SessionFacts
<1>5. QED
  BY <1>2, <1>3, <1>4 DEF OneSession

LEMMA GrowingSession ==
  ASSUME TypeOK, NEW r \in Request, request[r].session \in DOMAIN session,
         Alive(request[r].session), Enqueued(r)
  PROVE  LET s == request[r].session IN
         OneSession(s) /\ Grows(session[s], session'[s], Current(r))
<1> DEFINE s == request[r].session
           a == Current(r)
<1>1. a \in Attempt
  BY CallFacts DEF Current, Attempt
<1>2. session' = [session EXCEPT ![s].queue = Append(@, a)]
  BY DEF Enqueued
<1>3. s \in DOMAIN session
  OBVIOUS
<1>4. session[s].task \in {"idle", "forwarding"}
  BY DEF Alive
<1> HIDE DEF s, a
<1>5. Append(session[s].queue, a) \in Seq(Attempt)
  BY ONLY <1>1, <1>3, SessionFacts, TypeOK, AppendProperties
<1>6. OneSession(s)
  BY ONLY <1>2, <1>3, <1>5, SessionFacts, TypeOK DEF OneSession, SessionState
<1>7. Grows(session[s], session'[s], a)
  BY ONLY <1>2, <1>3, <1>4, SessionFacts, TypeOK DEF Grows, KeepsSession, SessionState
<1>8. QED
  BY <1>6, <1>7 DEF s, a

LEMMA TakingSession ==
  ASSUME TypeOK, NEW s \in DOMAIN session, session[s].task = "idle", session[s].queue # <<>>,
         LET a == Head(session[s].queue) IN
         session' = [session EXCEPT ![s].task = "forwarding", ![s].queue = Tail(@),
                         ![s].serving = a, ![s].opener = IF @ = <<>> THEN a ELSE @,
                         ![s].owed = IF session[s].open THEN Append(@, a) ELSE @]
  PROVE  OneSession(s) /\ Takes(session[s], session'[s])
<1> DEFINE a == Head(session[s].queue)
           opener == IF session[s].opener = <<>> THEN a ELSE session[s].opener
           owed == IF session[s].open THEN Append(session[s].owed, a) ELSE session[s].owed
<1>1. session' = [session EXCEPT ![s].task = "forwarding", ![s].queue = Tail(@),
                    ![s].serving = a, ![s].opener = opener, ![s].owed = owed]
  BY SessionFacts
<1>2. a \in Attempt /\ Tail(session[s].queue) \in Seq(Attempt)
  BY SessionFacts, HeadTailProperties
<1> HIDE DEF a
<1>3. Append(session[s].owed, a) \in Seq(Attempt)
  BY <1>2, SessionFacts, AppendProperties
<1>4. opener \in Attempt \cup {<<>>} /\ owed \in Seq(Attempt)
  BY <1>2, <1>3, SessionFacts
<1>5. owed \in {session[s].owed, Append(session[s].owed, a)}
  OBVIOUS
<1>6. OneSession(s)
  <2> HIDE DEF opener, owed
  <2>1. "forwarding" \in Task /\ a \in Attempt \cup {<<>>} /\ opener \in Attempt \cup {<<>>}
        /\ owed \in Seq(Attempt) /\ Tail(session[s].queue) \in Seq(Attempt)
    BY ONLY <1>2, <1>4 DEF Task
  <2>2. session \in [DOMAIN session -> SessionState]
    BY ONLY SessionFacts, TypeOK, s \in DOMAIN session
  <2>3. session'[s] \in SessionState
    <3>1. session'[s] = [session[s] EXCEPT !.task = "forwarding", !.queue = Tail(@), !.serving = a,
                                           !.opener = opener, !.owed = owed]
      BY ONLY <1>1, <2>2, s \in DOMAIN session
    <3>2. session[s] \in SessionState
      BY ONLY <2>2, s \in DOMAIN session
    <3>3. QED
      BY ONLY <2>1, <3>1, <3>2 DEF SessionState
  <2>4. session' = [session EXCEPT ![s] = session'[s]]
    BY ONLY <1>1, <2>2, s \in DOMAIN session
  <2>5. QED
    BY ONLY <2>3, <2>4 DEF OneSession
<1>7. /\ session'[s].task = "forwarding" /\ session'[s].queue = Tail(session[s].queue)
      /\ session'[s].serving = a /\ session'[s].opener = opener /\ session'[s].owed = owed
      /\ session'[s].wire = session[s].wire
  <2> HIDE DEF opener, owed
  <2>1. QED
    BY ONLY <1>1, s \in DOMAIN session, SessionFacts, TypeOK DEF SessionState
<1>8. QED
  BY <1>5, <1>6, <1>7 DEF Takes, a

LEMMA ReadingSession ==
  ASSUME TypeOK, NEW s \in DOMAIN session, session[s].wire # <<>>,
         session[s].task \in {"idle", "forwarding"}, NEW task \in {session[s].task, "closing"},
         session' = [session EXCEPT ![s].wire = Tail(@), ![s].task = task]
  PROVE  OneSession(s) /\ Reads(session[s], session'[s])
<1>1. Tail(session[s].wire) \in Seq(WireItem) /\ task \in Task
  BY SessionFacts, HeadTailProperties DEF Task
<1>2. OneSession(s)
  BY ONLY <1>1, s \in DOMAIN session, SessionFacts, TypeOK,
          session' = [session EXCEPT ![s].wire = Tail(@), ![s].task = task]
     DEF OneSession, SessionState
<1>3. /\ session'[s].wire = Tail(session[s].wire) /\ session'[s].task = task
      /\ session'[s].queue = session[s].queue /\ session'[s].opener = session[s].opener
      /\ session'[s].owed = session[s].owed /\ session'[s].serving = session[s].serving
  BY ONLY s \in DOMAIN session, SessionFacts, TypeOK,
          session' = [session EXCEPT ![s].wire = Tail(@), ![s].task = task]
     DEF SessionState
<1>4. QED
  BY <1>2, <1>3 DEF Reads

LEMMA FinishingSession ==
  ASSUME TypeOK, NEW s \in DOMAIN session, session[s].wire # <<>>,
         session[s].task = "forwarding", Terminal(Head(session[s].wire).kind),
         session' = [session EXCEPT ![s].wire = Tail(@), ![s].task = "idle", ![s].serving = <<>>]
  PROVE  OneSession(s) /\ Reads(session[s], session'[s])
<1>1. Tail(session[s].wire) \in Seq(WireItem)
  BY SessionFacts, HeadTailProperties
<1>2. OneSession(s)
  BY ONLY <1>1, s \in DOMAIN session, SessionFacts, TypeOK,
          session' = [session EXCEPT ![s].wire = Tail(@), ![s].task = "idle", ![s].serving = <<>>]
     DEF OneSession, SessionState, Task
<1>3. /\ session'[s].wire = Tail(session[s].wire) /\ session'[s].task = "idle"
      /\ session'[s].queue = session[s].queue /\ session'[s].opener = session[s].opener
      /\ session'[s].owed = session[s].owed /\ session'[s].serving = <<>>
  BY ONLY s \in DOMAIN session, SessionFacts, TypeOK,
          session' = [session EXCEPT ![s].wire = Tail(@), ![s].task = "idle", ![s].serving = <<>>]
     DEF SessionState
<1>4. QED
  BY <1>2, <1>3 DEF Reads

LEMMA AnsweredSession ==
  ASSUME TypeOK, NEW s \in DOMAIN session, Answer(s)
  PROVE  /\ OneSession(s)
         /\ \E kind \in {"event", "garbled", "terminal"} :
              Answered(session[s], session'[s], [of |-> Head(session[s].owed), kind |-> kind])
<1> DEFINE S == session[s]
<1>1. PICK kind \in {"event", "garbled", "terminal"} :
        session' = [session EXCEPT
            ![s].wire = Append(@, [of |-> Head(session[s].owed), kind |-> kind]),
            ![s].told = IF Terminal(kind) THEN 0 ELSE @ + 1,
            ![s].owed = IF Terminal(kind) THEN Tail(@) ELSE @]
  BY DEF Answer
<1> DEFINE item == [of |-> Head(S.owed), kind |-> kind]
           told == IF Terminal(kind) THEN 0 ELSE S.told + 1
           owed == IF Terminal(kind) THEN Tail(S.owed) ELSE S.owed
<1>2. S.owed # <<>> /\ Head(S.owed) \in Attempt /\ Tail(S.owed) \in Seq(Attempt)
  BY SessionFacts, HeadTailProperties DEF Answer
<1>3. item \in WireItem
  BY <1>2 DEF WireItem
<1>4. told \in Nat /\ owed \in Seq(Attempt)
  BY <1>2, SessionFacts
<1>5. session' = [session EXCEPT ![s].wire = Append(@, item), ![s].told = told, ![s].owed = owed]
  BY <1>1, SessionFacts
<1>6. /\ item.of = Head(S.owed) /\ item.kind = kind
      /\ owed = IF Terminal(item.kind) THEN Tail(S.owed) ELSE S.owed
  OBVIOUS
<1> HIDE DEF item, told, owed
<1>7. Append(S.wire, item) \in Seq(WireItem)
  BY <1>3, SessionFacts, AppendProperties
<1>8. OneSession(s)
  BY ONLY <1>4, <1>5, <1>7, s \in DOMAIN session, SessionFacts, TypeOK
     DEF OneSession, SessionState
<1>9. /\ session'[s].wire = Append(S.wire, item) /\ session'[s].owed = owed
      /\ session'[s].task = S.task /\ session'[s].queue = S.queue
      /\ session'[s].opener = S.opener /\ session'[s].serving = S.serving
  BY ONLY <1>5, s \in DOMAIN session, SessionFacts, TypeOK DEF SessionState
<1>10. Answered(S, session'[s], item)
  BY <1>2, <1>6, <1>9 DEF Answered
<1>11. QED
  BY <1>8, <1>10 DEF item

LEMMA LosingSession ==
  ASSUME TypeOK, NEW s \in DOMAIN session, Lose(s)
  PROVE  /\ OneSession(s)
         /\ \E kind \in {"closed", "fatal"} :
              Loses(session[s], session'[s], [of |-> <<>>, kind |-> kind])
<1> DEFINE S == session[s]
<1>1. PICK kind \in {"closed", "fatal"} :
        session' = [session EXCEPT ![s].open = FALSE, ![s].owed = <<>>,
                     ![s].wire = Append(@, [of |-> <<>>, kind |-> kind])]
  BY DEF Lose
<1> DEFINE item == [of |-> <<>>, kind |-> kind]
<1>2. item \in WireItem /\ item.of = <<>>
  BY DEF WireItem
<1>3. session' = [session EXCEPT ![s].open = FALSE, ![s].owed = <<>>, ![s].wire = Append(@, item)]
  BY <1>1
<1> HIDE DEF item
<1>4. Append(S.wire, item) \in Seq(WireItem)
  BY <1>2, SessionFacts, AppendProperties
<1>5. OneSession(s)
  BY ONLY <1>3, <1>4, <<>> \in Seq(Attempt), s \in DOMAIN session, SessionFacts, TypeOK
     DEF OneSession, SessionState
<1>6. /\ session'[s].wire = Append(S.wire, item) /\ session'[s].owed = <<>>
      /\ session'[s].task = S.task /\ session'[s].queue = S.queue
      /\ session'[s].opener = S.opener /\ session'[s].serving = S.serving
  BY ONLY <1>3, s \in DOMAIN session, SessionFacts, TypeOK DEF SessionState
<1>7. Loses(S, session'[s], item)
  BY <1>2, <1>6 DEF Loses
<1>8. QED
  BY <1>5, <1>7 DEF item

--------------------------------------------------------------------------------
(* Every step is one of these, and no other record changes.                   *)
PoolShrinks == pool' \in [Key -> Nat] /\ \A k \in Key : pool'[k] \in {0, pool[k]}

CallGoesOn(r) ==
  LET q == request[r]
      w == request'[r]
  IN
  /\ session' = session /\ PoolShrinks /\ OneCall(r)
  /\ \/ Arrives(q, w) \/ Recycles(q, w) \/ Ends(q, w) \/ Sees(q, w)
     \/ Chooses(q, w) /\ (w.pc = "queueing" => pool' = pool)

CallOpens(r) ==
  /\ pool' = pool /\ session' = Append(session, NewSession)
  /\ OneCall(r) /\ Dials(request[r], request'[r])

CallQueues(r) ==
  LET s == request[r].session IN
  /\ OneCall(r) /\ Queues(request[r], request'[r])
  /\ OneSession(s) /\ Grows(session[s], session'[s], Current(r))
  /\ \/ pool' = pool
     \/ request[r].pc = "starting" /\ pool' = [pool EXCEPT ![request[r].key] = s]

Told(a, kind) ==
  /\ a = Current(a[1])
  /\ OneCall(a[1]) /\ Hears(request[a[1]], request'[a[1]], [of |-> a, kind |-> kind])

SessionGoesOn(s) ==
  LET S == session[s]
      T == session'[s]
  IN
  /\ pool' = pool /\ OneSession(s)
  /\ \/ request' = request /\ (Takes(S, T) \/ Stops(T) \/ Reads(S, T))
     \/ request' = request /\ \E item \in WireItem : Answered(S, T, item) \/ Loses(S, T, item)
     \/ /\ S.queue # <<>> /\ Told(Head(S.queue), "closed") /\ Stops(T)
     \/ /\ S.task = "forwarding" /\ S.wire # <<>>
        /\ LET kind == Head(S.wire).kind IN
           /\ Told(S.serving, kind)
           /\ \/ Stops(T)
              \/ Reads(S, T) /\ ~Breaks(kind) /\ (Terminal(kind) => T.serving = <<>>)

LEMMA PoolKept ==
  ASSUME TypeOK, NEW r \in Request, pool' \in {pool, Evicted(r)}
  PROVE  PoolShrinks
BY DEF TypeOK, Evicted, PoolShrinks

LEMMA RecyclingGoesOn ==
  ASSUME TypeOK, NEW r \in Request, Recycle(r),
         request[r].pc \in {"queueing", "dialing", "starting", "awaiting"}
  PROVE  CallGoesOn(r)
<1>1. pool' \in {pool, Evicted(r)} /\ session' = session
  BY DEF Recycle
<1>2. QED
  BY <1>1, RecycledCall, PoolKept DEF CallGoesOn

LEMMA FailingGoesOn ==
  ASSUME TypeOK, NEW r \in Request, NEW evicts, Fail(r, evicts), request[r].pc # "new"
  PROVE  CallGoesOn(r)
<1>1. pool' \in {pool, Evicted(r)} /\ session' = session /\ request' = Ended(r)
  BY DEF Fail
<1>2. QED
  BY <1>1, EndedCall, PoolKept DEF CallGoesOn

LEMMA AdvanceCases ==
  ASSUME TypeOK, PoolInv, NEW r \in Request, Arrive(r) \/ Advance(r) \/ Leave(r)
  PROVE  CallGoesOn(r) \/ CallOpens(r) \/ CallQueues(r)
<1>1. CASE Arrive(r)
  BY <1>1, ArriveCall, PoolKept DEF Arrive, CallGoesOn
<1>2. CASE Choose(r)
  <2>1. pool' \in {pool, Evicted(r)} /\ session' = session
    BY <1>2 DEF Choose
  <2>2. request'[r].pc = "queueing" => pool' = pool
    <3>1. \/ pool' = pool
          \/ \E pc \in {"over", "dialing"} :
               request' = [request EXCEPT ![r].session = 0, ![r].pc = pc]
      BY <1>2 DEF Choose
    <3>2. QED
      BY <3>1, CallFacts DEF CallState
  <2>3. QED
    BY <1>2, <2>1, <2>2, ChooseCall, PoolKept DEF CallGoesOn
<1>3. CASE Queue(r)
  <2>1. CASE Alive(request[r].session) /\ Enqueued(r) /\ UNCHANGED pool
    <3>1. request[r].pc = "queueing" /\ request[r].session \in DOMAIN session
      BY <1>3 DEF Queue, PoolInv
    <3>2. QED
      BY <2>1, <3>1, QueuedCall, GrowingSession DEF CallQueues
  <2>2. CASE Recycle(r)
    BY <1>3, <2>2, RecyclingGoesOn DEF Queue
  <2>3. CASE Fail(r, TRUE)
    BY <1>3, <2>3, FailingGoesOn DEF Queue
  <2>4. QED
    BY <1>3, <2>1, <2>2, <2>3 DEF Queue
<1>4. CASE Dial(r)
  <2>1. CASE /\ session' = Append(session, NewSession)
             /\ request' = [request EXCEPT ![r].pc = "starting", ![r].session = Len(session) + 1]
             /\ UNCHANGED pool
    <3>1. Len(session) + 1 \in Nat
      BY LenProperties DEF TypeOK
    <3>2. OneCall(r)
      BY ONLY <2>1, <3>1, CallFacts, TypeOK, r \in Request DEF OneCall, CallState, Pc
    <3>3. Dials(request[r], request'[r])
      BY <1>4, <2>1, CallFacts DEF Dial, Dials, KeepsCall, CallState
    <3>4. QED
      BY <2>1, <3>2, <3>3 DEF CallOpens
  <2>2. CASE AttemptFails(r)
    BY <1>4, <2>2, RecyclingGoesOn, FailingGoesOn DEF Dial, AttemptFails
  <2>3. CASE Fail(r, FALSE)
    BY <1>4, <2>3, FailingGoesOn DEF Dial
  <2>4. QED
    BY <1>4, <2>1, <2>2, <2>3 DEF Dial
<1>5. CASE Start(r)
  <2>1. CASE /\ Alive(request[r].session) /\ Enqueued(r)
             /\ pool' = [pool EXCEPT ![request[r].key] = request[r].session]
    <3>1. request[r].pc = "starting" /\ request[r].session \in DOMAIN session
      BY <1>5 DEF Start, PoolInv
    <3>2. QED
      BY <2>1, <3>1, QueuedCall, GrowingSession DEF CallQueues
  <2>2. CASE AttemptFails(r)
    BY <1>5, <2>2, RecyclingGoesOn, FailingGoesOn DEF Start, AttemptFails
  <2>3. QED
    BY <1>5, <2>1, <2>2 DEF Start
<1>6. CASE First(r)
  <2>1. CASE /\ request' = [request EXCEPT ![r].pc = "streaming", ![r].inbox = Tail(@),
                                          ![r].seen = <<Head(request[r].inbox)>>]
             /\ UNCHANGED <<pool, session>>
    BY <1>6, <2>1, FirstSeen, PoolKept DEF CallGoesOn
  <2>2. CASE Recycle(r)
    BY <1>6, <2>2, RecyclingGoesOn DEF First
  <2>3. CASE \E evicts \in BOOLEAN : Fail(r, evicts)
    BY <1>6, <2>3, FailingGoesOn DEF First
  <2>4. QED
    BY <1>6, <2>1, <2>2, <2>3 DEF First
<1>7. CASE FirstMissing(r)
  BY <1>7, RecyclingGoesOn, FailingGoesOn DEF FirstMissing
<1>8. CASE Relay(r)
  <2>1. pool' \in {pool, Evicted(r)} /\ session' = session
    BY <1>8 DEF Relay
  <2>2. QED
    BY <1>8, <2>1, SeeingCall, PoolKept DEF CallGoesOn
<1>9. CASE StreamEnds(r) \/ Leave(r)
  BY <1>9, EndedCall, PoolKept DEF StreamEnds, Leave, CallGoesOn
<1>10. QED
  BY <1>1, <1>2, <1>3, <1>4, <1>5, <1>6, <1>7, <1>8, <1>9 DEF Advance

LEMMA DeliveredCases ==
  ASSUME TypeOK, NEW a \in Attempt, NEW kind \in ItemKind, request' = Delivered(a, kind)
  PROVE  IF Listening(a) THEN Told(a, kind) ELSE request' = request
BY HearingCall DEF Delivered, Told

LEMMA RunCases ==
  ASSUME TypeOK, NEW s \in DOMAIN session, Run(s)
  PROVE  SessionGoesOn(s)
<1> DEFINE S == session[s]
<1>1. CASE TakeCommand(s)
  <2>1. CASE UNCHANGED request
    BY <1>1, <2>1, TakingSession, StoppedSession DEF TakeCommand, SessionGoesOn
  <2>2. CASE session' = Stopped(s) /\ request' = Delivered(Head(S.queue), "closed")
    <3>1. Head(S.queue) \in Attempt
      BY <1>1, SessionFacts, HeadTailProperties DEF TakeCommand
    <3>2. request' = request \/ Told(Head(S.queue), "closed")
      BY <2>2, <3>1, DeliveredCases DEF ItemKind, Error
    <3>3. QED
      BY <1>1, <2>2, <3>2, StoppedSession DEF TakeCommand, SessionGoesOn
  <2>3. QED
    BY <1>1, <2>1, <2>2 DEF TakeCommand
<1>2. CASE Forward(s)
  <2> DEFINE a == S.serving
             frame == Head(S.wire)
  <2>1. S.task = "forwarding" /\ S.wire # <<>> /\ pool' = pool /\ request' = Delivered(a, frame.kind)
    BY <1>2 DEF Forward
  <2>2. a \in Attempt /\ frame.kind \in ItemKind
    <3>1. frame \in WireItem
      BY <2>1, SessionFacts, HeadTailProperties
    <3>2. QED
      BY <2>1, <3>1 DEF TypeOK, WireItem, ItemKind, Error
  <2>3. IF Listening(a) THEN Told(a, frame.kind) ELSE request' = request
    BY <2>1, <2>2, DeliveredCases
  <2>4. CASE Breaks(frame.kind)
    <3>1. session' = Stopped(s)
      BY <1>2, <2>4 DEF Forward
    <3>2. QED
      BY <2>1, <2>3, <3>1, StoppedSession DEF SessionGoesOn
  <2>5. CASE ~Breaks(frame.kind) /\ ~Listening(a)
    <3>1. session' = [session EXCEPT ![s].wire = Tail(@), ![s].task = "closing"]
      BY <1>2, <2>5 DEF Forward
    <3>2. QED
      BY <2>1, <2>3, <2>5, <3>1, ReadingSession DEF SessionGoesOn
  <2>6. CASE ~Breaks(frame.kind) /\ Listening(a) /\ Terminal(frame.kind)
    <3>1. session' = [session EXCEPT ![s].wire = Tail(@), ![s].task = "idle", ![s].serving = <<>>]
      BY <1>2, <2>6 DEF Forward
    <3>2. OneSession(s) /\ Reads(S, session'[s])
      BY <2>1, <2>6, <3>1, FinishingSession
    <3>3. session'[s].serving = <<>>
      BY ONLY <3>1, s \in DOMAIN session, SessionFacts, TypeOK DEF SessionState
    <3>4. QED
      BY <2>1, <2>3, <2>6, <3>2, <3>3 DEF SessionGoesOn
  <2>7. CASE ~Breaks(frame.kind) /\ Listening(a) /\ ~Terminal(frame.kind)
    <3>1. session' = [session EXCEPT ![s].wire = Tail(@)]
      BY <1>2, <2>7 DEF Forward
    <3>2. session' = [session EXCEPT ![s].wire = Tail(@), ![s].task = S.task]
      BY ONLY <3>1, s \in DOMAIN session, SessionFacts, TypeOK DEF SessionState
    <3>3. QED
      BY <2>1, <2>3, <2>7, <3>2, ReadingSession DEF SessionGoesOn
  <2>8. QED
    BY <2>4, <2>5, <2>6, <2>7
<1>3. CASE IdleItem(s)
  <2>1. S.task = "idle" /\ S.wire # <<>> /\ pool' = pool /\ request' = request
    BY <1>3 DEF IdleItem
  <2>2. CASE session' = Stopped(s)
    BY <2>1, <2>2, StoppedSession DEF SessionGoesOn
  <2>3. CASE session' = [session EXCEPT ![s].wire = Tail(@)]
    <3>1. session' = [session EXCEPT ![s].wire = Tail(@), ![s].task = S.task]
      BY ONLY <2>3, s \in DOMAIN session, SessionFacts, TypeOK DEF SessionState
    <3>2. QED
      BY <2>1, <3>1, ReadingSession DEF SessionGoesOn
  <2>4. QED
    BY <1>3, <2>2, <2>3 DEF IdleItem
<1>4. CASE Closed(s) \/ Unreferenced(s)
  BY <1>4, StoppedSession DEF Closed, Unreferenced, SessionGoesOn
<1>5. QED
  BY <1>1, <1>2, <1>3, <1>4 DEF Run

LEMMA BackendCases ==
  ASSUME TypeOK, NEW s \in DOMAIN session, Answer(s) \/ Lose(s)
  PROVE  SessionGoesOn(s)
<1>1. CASE Answer(s)
  <2>1. session[s].owed # <<>> /\ pool' = pool /\ request' = request
    BY <1>1 DEF Answer
  <2>2. Head(session[s].owed) \in Attempt
    BY <2>1, SessionFacts, HeadTailProperties
  <2>3. \A kind \in {"event", "garbled", "terminal"} :
          [of |-> Head(session[s].owed), kind |-> kind] \in WireItem
    BY <2>2 DEF WireItem
  <2>4. QED
    BY <1>1, <2>1, <2>3, AnsweredSession DEF SessionGoesOn
<1>2. CASE Lose(s)
  <2>1. pool' = pool /\ request' = request
    BY <1>2 DEF Lose
  <2>2. \A kind \in {"closed", "fatal"} : [of |-> <<>>, kind |-> kind] \in WireItem
    BY DEF WireItem
  <2>3. QED
    BY <1>2, <2>1, <2>2, LosingSession DEF SessionGoesOn
<1>3. QED
  BY <1>1, <1>2

LEMMA StepCases ==
  ASSUME TypeOK, PoolInv, [Next]_vars
  PROVE  \/ UNCHANGED vars
         \/ \E r \in Request : CallGoesOn(r) \/ CallOpens(r) \/ CallQueues(r)
         \/ \E s \in DOMAIN session : SessionGoesOn(s)
BY AdvanceCases, RunCases, BackendCases DEF Next

LEMMA SessionChanges ==
  ASSUME NEW s, SessionGoesOn(s)
  PROVE  /\ OneSession(s) /\ pool' = pool
         /\ \/ Takes(session[s], session'[s]) \/ Stops(session'[s])
            \/ Reads(session[s], session'[s])
            \/ \E item \in WireItem : \/ Answered(session[s], session'[s], item)
                                     \/ Loses(session[s], session'[s], item)
BY DEF SessionGoesOn

--------------------------------------------------------------------------------
LEMMA CallReplaced ==
  ASSUME TypeOK, NEW r \in Request, OneCall(r)
  PROVE  /\ request' \in [Request -> CallState]
         /\ \A p \in Request : p # r => request'[p] = request[p]
BY DEF TypeOK, OneCall

LEMMA KeyKept ==
  ASSUME TypeOK, NEW r \in Request, OneCall(r),
         \/ request'[r].pc = "over" \/ request'[r].key \in Key
         \/ request'[r].key = request[r].key /\ request[r].pc \notin {"new", "over"}
  PROVE  \A p \in Request : request'[p].pc \notin {"new", "over"} => request'[p].key \in Key
BY CallReplaced DEF TypeOK

LEMMA ServingKept ==
  ASSUME TypeOK, NEW s \in DOMAIN session, OneSession(s),
         session'[s].task = "forwarding" => session'[s].serving \in Attempt
  PROVE  /\ session' \in Seq(SessionState)
         /\ \A t \in DOMAIN session' :
              session'[t].task = "forwarding" => session'[t].serving \in Attempt
BY SessionReplaced DEF TypeOK

LEMMA TypeStep ==
  ASSUME TypeOK, PoolInv, [Next]_vars
  PROVE  TypeOK'
<1>1. CASE UNCHANGED vars
  BY <1>1 DEF vars, TypeOK
<1>2. ASSUME NEW r \in Request, CallGoesOn(r)
      PROVE  TypeOK'
  <2>1. \/ request'[r].pc = "over" \/ request'[r].key \in Key
        \/ request'[r].key = request[r].key /\ request[r].pc \notin {"new", "over"}
    BY <1>2 DEF CallGoesOn, Arrives, Recycles, Ends, Sees, Chooses, KeepsCall
  <2>2. session' = session /\ PoolShrinks /\ OneCall(r)
    BY <1>2 DEF CallGoesOn
  <2>3. \A p \in Request : request'[p].pc \notin {"new", "over"} => request'[p].key \in Key
    BY <2>1, <2>2, KeyKept
  <2>4. QED
    BY <2>2, <2>3, CallReplaced DEF TypeOK, PoolShrinks
<1>3. ASSUME NEW r \in Request, CallOpens(r)
      PROVE  TypeOK'
  <2>1. \A p \in Request : request'[p].pc \notin {"new", "over"} => request'[p].key \in Key
    BY <1>3, KeyKept DEF CallOpens, Dials, KeepsCall
  <2>2. pool' = pool /\ session' = Append(session, NewSession) /\ OneCall(r)
    BY <1>3 DEF CallOpens
  <2>3. \A t \in DOMAIN session' :
          session'[t].task = "forwarding" => session'[t].serving \in Attempt
    BY <2>2, SessionAdded DEF TypeOK, NewSession
  <2>4. QED
    BY <2>1, <2>2, <2>3, CallReplaced, SessionAdded DEF TypeOK
<1>4. ASSUME NEW r \in Request, CallQueues(r)
      PROVE  TypeOK'
  <2> DEFINE s == request[r].session
  <2>1. \A p \in Request : request'[p].pc \notin {"new", "over"} => request'[p].key \in Key
    BY <1>4, KeyKept DEF CallQueues, Queues, KeepsCall
  <2>2. s \in DOMAIN session /\ s \in Nat
    BY <1>4, CallFacts DEF CallQueues, Queues, PoolInv
  <2>3. /\ session' \in Seq(SessionState)
        /\ \A t \in DOMAIN session' :
             session'[t].task = "forwarding" => session'[t].serving \in Attempt
    BY <1>4, <2>2, ServingKept DEF CallQueues, Grows, TypeOK
  <2>4. pool' \in [Key -> Nat]
    BY <1>4, <2>2 DEF CallQueues, TypeOK
  <2>5. QED
    BY <1>4, <2>1, <2>3, <2>4, CallReplaced DEF CallQueues, TypeOK
<1>5. ASSUME NEW s \in DOMAIN session, SessionGoesOn(s)
      PROVE  TypeOK'
  <2> DEFINE S == session[s]
  <2>1. OneSession(s) /\ pool' = pool
    BY <1>5 DEF SessionGoesOn
  <2>2. session'[s].task = "forwarding" => session'[s].serving \in Attempt
    <3>1. S.task = "forwarding" => S.serving \in Attempt
      BY DEF TypeOK
    <3>2. S.queue # <<>> => Head(S.queue) \in Attempt
      BY SessionFacts, HeadTailProperties
    <3>3. QED
      BY <1>5, <3>1, <3>2 DEF SessionGoesOn, Takes, Stops, Reads, Answered, Loses
  <2>3. ASSUME NEW a \in Attempt, NEW kind, Told(a, kind)
        PROVE  /\ request' \in [Request -> CallState]
               /\ \A p \in Request : request'[p].pc \notin {"new", "over"} => request'[p].key \in Key
    <3>1. a[1] \in Request
      BY DEF Attempt
    <3>2. QED
      BY <2>3, <3>1, CallReplaced, KeyKept DEF Told, Hears, KeepsCall
  <2>4. request' = request \/ \E a \in Attempt, kind \in ItemKind : Told(a, kind)
    <3>1. CASE S.queue # <<>> /\ Told(Head(S.queue), "closed")
      BY <3>1, SessionFacts, HeadTailProperties DEF ItemKind, Error
    <3>2. CASE S.task = "forwarding" /\ S.wire # <<>> /\ Told(S.serving, Head(S.wire).kind)
      <4>1. Head(S.wire) \in WireItem /\ S.serving \in Attempt
        BY <3>2, SessionFacts, HeadTailProperties DEF TypeOK
      <4>2. QED
        BY <3>2, <4>1 DEF WireItem, ItemKind, Error
    <3>3. QED
      BY <1>5, <3>1, <3>2 DEF SessionGoesOn
  <2>5. /\ request' \in [Request -> CallState]
        /\ \A p \in Request : request'[p].pc \notin {"new", "over"} => request'[p].key \in Key
    BY <2>3, <2>4 DEF TypeOK
  <2>6. QED
    BY <2>1, <2>2, <2>5, ServingKept DEF TypeOK
<1>6. QED
  BY <1>1, <1>2, <1>3, <1>4, <1>5, StepCases

--------------------------------------------------------------------------------
(* What is left on a socket, after each of the things that happen to it.      *)
LEMMA AttemptFacts ==
  ASSUME NEW a \in Attempt
  PROVE  a[1] \in Request /\ a[2] \in 0 .. MaxRecycles /\ a = <<a[1], a[2]>> /\ a # <<>>
<1>1. a = <<a[1], a[2]>>
  BY DEF Attempt
<1>2. a # <<>>
  BY ONLY <1>1
<1>3. QED
  BY <1>1, <1>2 DEF Attempt

LEMMA TakesSocket ==
  ASSUME NEW S \in SessionState, NEW T \in SessionState, Socket(S), Takes(S, T)
  PROVE  Socket(T)
<1> DEFINE a == Head(S.queue)
<1>1. S.owed = <<>> /\ \A i \in DOMAIN S.wire : S.wire[i].of = <<>>
  BY DEF Socket, Takes, Idle
<1>2. a \in Attempt
  BY HeadTailProperties DEF Takes, SessionState
<1>3. T.owed \in {<<>>, <<a>>} /\ T.serving = a /\ T.wire = S.wire /\ T.task = "forwarding"
  BY <1>1 DEF Takes
<1>4. \A i \in DOMAIN S.wire : ~Terminal(S.wire[i].kind)
  <2>1. \A i \in DOMAIN S.wire : S.wire[i] \in WireItem
    BY LenProperties DEF SessionState
  <2>2. QED
    BY <1>1, <2>1, AttemptFacts DEF WireItem, Terminal
<1>5. QED
  BY <1>1, <1>2, <1>3, <1>4 DEF Socket, Forwarding

LEMMA GrowsSocket ==
  ASSUME NEW S \in SessionState, NEW T \in SessionState, NEW a, Socket(S), Grows(S, T, a)
  PROVE  Socket(T)
BY DEF Socket, Grows, KeepsSession, Idle, Forwarding

LEMMA StopsSocket ==
  ASSUME NEW T \in SessionState, Stops(T)
  PROVE  Socket(T)
BY DEF Socket, Stops

LEMMA ReadsSocket ==
  ASSUME NEW S \in SessionState, NEW T \in SessionState, Socket(S), Reads(S, T)
  PROVE  Socket(T)
<1>1. /\ T.wire = Tail(S.wire) /\ T.wire \in Seq(WireItem) /\ Len(T.wire) = Len(S.wire) - 1
      /\ \A i \in 1 .. Len(T.wire) : T.wire[i] = S.wire[i + 1]
      /\ Len(S.wire) \in Nat /\ DOMAIN S.wire = 1 .. Len(S.wire) /\ DOMAIN T.wire = 1 .. Len(T.wire)
  BY HeadTailProperties, LenProperties DEF Reads, SessionState
<1>2. \A i \in DOMAIN T.wire : i + 1 \in DOMAIN S.wire /\ T.wire[i] = S.wire[i + 1]
  BY <1>1
<1>3. T.owed = <<>> \/ \E a \in Attempt : T.owed = <<a>>
  BY DEF Reads, Socket
<1>4. CASE T.task = S.task /\ T.serving = S.serving
  <2>1. S.task = "idle" => Idle(T)
    BY <1>2, <1>4 DEF Socket, Idle, Reads
  <2>2. ASSUME S.task = "forwarding"
        PROVE  Forwarding(T)
    <3>1. Forwarding(S) /\ T.owed = S.owed
      BY <2>2 DEF Socket, Reads
    <3>2. T.owed \in {<<>>, <<T.serving>>}
      BY <1>4, <3>1 DEF Forwarding
    <3>3. ASSUME NEW i \in DOMAIN T.wire
          PROVE  /\ T.wire[i].of \in {T.serving, <<>>}
                 /\ Terminal(T.wire[i].kind) =>
                      T.owed = <<>> /\ \A j \in DOMAIN T.wire : j > i => T.wire[j].of = <<>>
      <4>1. i + 1 \in DOMAIN S.wire /\ T.wire[i] = S.wire[i + 1]
        BY <1>2
      <4>2. \A j \in DOMAIN T.wire : j > i => j + 1 > i + 1
        BY <1>1
      <4>3. QED
        BY ONLY <1>2, <1>4, <3>1, <4>1, <4>2 DEF Forwarding
    <3>4. QED
      BY <3>2, <3>3 DEF Forwarding
  <2>3. QED
    BY <1>3, <1>4, <2>1, <2>2 DEF Socket
<1>5. CASE T.task = "closing"
  BY <1>3, <1>5 DEF Socket
<1>6. CASE S.task = "forwarding" /\ Terminal(Head(S.wire).kind) /\ T.task = "idle"
  <2>1. 1 \in DOMAIN S.wire /\ Head(S.wire) = S.wire[1]
    <3>1. S.wire # <<>> /\ S.wire \in Seq(WireItem)
      BY DEF Reads, SessionState
    <3>2. QED
      BY <1>1, <3>1, EmptySeq
  <2>2. S.owed = <<>> /\ \A j \in DOMAIN S.wire : j > 1 => S.wire[j].of = <<>>
    BY <1>6, <2>1 DEF Socket, Forwarding
  <2>3. \A i \in DOMAIN T.wire : T.wire[i].of = <<>>
    <3>1. \A i \in DOMAIN T.wire : i + 1 > 1
      BY <1>1
    <3>2. QED
      BY <1>2, <2>2, <3>1
  <2>4. QED
    BY <1>3, <1>6, <2>2, <2>3 DEF Socket, Idle, Reads
<1>7. QED
  BY <1>4, <1>5, <1>6 DEF Reads

LEMMA AnsweredSocket ==
  ASSUME NEW S \in SessionState, NEW T \in SessionState, NEW item \in WireItem,
         Socket(S), Answered(S, T, item)
  PROVE  Socket(T)
<1>1. /\ T.wire = Append(S.wire, item) /\ Len(T.wire) = Len(S.wire) + 1
      /\ \A i \in 1 .. Len(S.wire) : T.wire[i] = S.wire[i]
      /\ T.wire[Len(S.wire) + 1] = item
      /\ Len(S.wire) \in Nat /\ DOMAIN S.wire = 1 .. Len(S.wire) /\ DOMAIN T.wire = 1 .. Len(T.wire)
  BY AppendProperties, LenProperties DEF Answered, SessionState
<1>2. S.owed # <<>> /\ Tail(S.owed) = <<>>
  <2>1. S.owed # <<>>
    BY DEF Answered
  <2>2. PICK a \in Attempt : S.owed = <<a>>
    BY <2>1 DEF Socket
  <2>3. QED
    BY ONLY <2>1, <2>2
<1>3. T.owed = <<>> \/ \E a \in Attempt : T.owed = <<a>>
  BY <1>2 DEF Answered, Socket
<1>4. S.task # "idle"
  BY <1>2 DEF Socket, Idle
<1>5. ASSUME S.task = "forwarding"
      PROVE  Forwarding(T)
  <2>1. Forwarding(S) /\ S.owed = <<S.serving>> /\ item.of = S.serving
    BY <1>2, <1>5 DEF Socket, Forwarding, Answered
  <2>2. T.serving = S.serving /\ T.owed = IF Terminal(item.kind) THEN <<>> ELSE S.owed
    BY <1>2 DEF Answered
  <2>3. T.owed \in {<<>>, <<T.serving>>}
    BY <2>1, <2>2
  <2>4. ASSUME NEW i \in DOMAIN T.wire
        PROVE  /\ T.wire[i].of \in {T.serving, <<>>}
               /\ Terminal(T.wire[i].kind) =>
                    T.owed = <<>> /\ \A j \in DOMAIN T.wire : j > i => T.wire[j].of = <<>>
    <3>1. CASE i \in DOMAIN S.wire
      <4>1. T.wire[i] = S.wire[i] /\ T.wire[i].of \in {T.serving, <<>>}
        BY <1>1, <2>1, <2>2, <3>1 DEF Forwarding
      <4>2. ~Terminal(T.wire[i].kind)
        BY <1>2, <2>1, <3>1, <4>1 DEF Forwarding
      <4>3. QED
        BY <4>1, <4>2
    <3>2. CASE i = Len(S.wire) + 1
      <4>1. T.wire[i] = item
        BY <1>1, <3>2
      <4>2. \A j \in DOMAIN T.wire : ~(j > i)
        BY <1>1, <3>2
      <4>3. QED
        BY <2>1, <2>2, <4>1, <4>2
    <3>3. QED
      BY <1>1, <3>1, <3>2
  <2>5. QED
    BY <2>3, <2>4 DEF Forwarding
<1>6. QED
  BY <1>3, <1>4, <1>5 DEF Socket, Answered

LEMMA LosesSocket ==
  ASSUME NEW S \in SessionState, NEW T \in SessionState, NEW item \in WireItem,
         Socket(S), Loses(S, T, item)
  PROVE  Socket(T)
<1>1. /\ T.wire = Append(S.wire, item) /\ Len(T.wire) = Len(S.wire) + 1
      /\ \A i \in 1 .. Len(S.wire) : T.wire[i] = S.wire[i]
      /\ T.wire[Len(S.wire) + 1] = item /\ item.of = <<>>
      /\ Len(S.wire) \in Nat /\ DOMAIN S.wire = 1 .. Len(S.wire) /\ DOMAIN T.wire = 1 .. Len(T.wire)
  BY AppendProperties, LenProperties DEF Loses, SessionState
<1>2. T.owed = <<>> /\ T.task = S.task /\ T.serving = S.serving
  BY DEF Loses
<1>3. ASSUME NEW i \in DOMAIN T.wire
      PROVE  T.wire[i].of = <<>> \/ (i \in DOMAIN S.wire /\ T.wire[i] = S.wire[i])
  <2>1. i \in 1 .. Len(S.wire) \/ i = Len(S.wire) + 1
    BY <1>1
  <2>2. CASE i \in 1 .. Len(S.wire)
    BY <1>1, <2>2
  <2>3. CASE i = Len(S.wire) + 1
    <3>1. T.wire[i] = item
      BY <1>1, <2>3
    <3>2. item.of = <<>>
      BY <1>1
    <3>3. QED
      BY ONLY <3>1, <3>2
  <2>4. QED
    BY <2>1, <2>2, <2>3
<1>4. S.task = "idle" => Idle(T)
  BY <1>2, <1>3 DEF Socket, Idle
<1>5. ASSUME S.task = "forwarding"
      PROVE  Forwarding(T)
  <2>1. Forwarding(S)
    BY <1>5 DEF Socket
  <2>2. ASSUME NEW i \in DOMAIN T.wire
        PROVE  /\ T.wire[i].of \in {T.serving, <<>>}
               /\ Terminal(T.wire[i].kind) =>
                    \A j \in DOMAIN T.wire : j > i => T.wire[j].of = <<>>
    <3>1. CASE i \in DOMAIN S.wire
      BY <1>1, <1>2, <1>3, <2>1, <3>1 DEF Forwarding
    <3>2. CASE i = Len(S.wire) + 1
      BY <1>1, <3>2
    <3>3. QED
      BY <1>1, <3>1, <3>2
  <2>3. QED
    BY <1>2, <2>2 DEF Forwarding
<1>6. QED
  BY <1>2, <1>4, <1>5 DEF Socket

LEMMA SocketStep ==
  ASSUME TypeOK, PoolInv, SocketInv, [Next]_vars
  PROVE  SocketInv'
<1>1. CASE session' = session
  BY <1>1 DEF SocketInv
<1>2. CASE session' = Append(session, NewSession)
  <2>1. Socket(NewSession)
    BY DEF NewSession, Socket, Idle
  <2>2. QED
    BY <1>2, <2>1, SessionAdded DEF SocketInv
<1>3. ASSUME NEW s \in DOMAIN session, OneSession(s), Socket(session'[s])
      PROVE  SocketInv'
  BY <1>3, SessionReplaced DEF SocketInv
<1>4. ASSUME NEW s \in DOMAIN session, OneSession(s),
             LET S == session[s] IN
             LET T == session'[s] IN
             \/ Takes(S, T) \/ Stops(T) \/ Reads(S, T) \/ \E a : Grows(S, T, a)
             \/ \E item \in WireItem : Answered(S, T, item) \/ Loses(S, T, item)
      PROVE  SocketInv'
  <2>1. session[s] \in SessionState /\ session'[s] \in SessionState /\ Socket(session[s])
    BY <1>4, SessionFacts DEF OneSession, SocketInv
  <2>2. Socket(session'[s])
    BY <1>4, <2>1, TakesSocket, StopsSocket, ReadsSocket, GrowsSocket, AnsweredSocket, LosesSocket
  <2>3. QED
    BY <1>3, <1>4, <2>2
<1>5. ASSUME NEW r \in Request, CallQueues(r)
      PROVE  SocketInv'
  <2>1. request[r].session \in DOMAIN session
    BY <1>5 DEF CallQueues, Queues, PoolInv
  <2>2. QED
    BY <1>4, <1>5, <2>1 DEF CallQueues
<1>6. ASSUME NEW s \in DOMAIN session, SessionGoesOn(s)
      PROVE  SocketInv'
  BY <1>4, <1>6 DEF SessionGoesOn
<1>7. QED
  BY <1>1, <1>2, <1>5, <1>6, StepCases DEF CallGoesOn, CallOpens, vars

--------------------------------------------------------------------------------
(* Where an attempt is pending, after each of those steps.                    *)
LEMMA PendingWhere ==
  ASSUME NEW a
  PROVE  Pending(a) <=> \E s \in DOMAIN session : PendingIn(session[s], a)
BY DEF Pending, PendingIn

LEMMA TakesPending ==
  ASSUME NEW S \in SessionState, NEW T \in SessionState, Takes(S, T), Distinct(S)
  PROVE  /\ \A a \in Attempt : PendingIn(T, a) => PendingIn(S, a)
         /\ Distinct(T)
<1>1. /\ T.queue = Tail(S.queue) /\ Len(T.queue) = Len(S.queue) - 1
      /\ \A i \in 1 .. Len(T.queue) : T.queue[i] = S.queue[i + 1]
      /\ Len(S.queue) \in Nat /\ DOMAIN S.queue = 1 .. Len(S.queue)
      /\ DOMAIN T.queue = 1 .. Len(T.queue)
      /\ T.serving = Head(S.queue)
  BY HeadTailProperties, LenProperties DEF Takes, SessionState
<1>2. \A i \in DOMAIN T.queue : i + 1 \in DOMAIN S.queue /\ i + 1 # 1 /\ T.queue[i] = S.queue[i + 1]
  BY <1>1
<1>3. 1 \in DOMAIN S.queue /\ T.serving = S.queue[1]
  <2>1. S.queue # <<>> /\ S.queue \in Seq(Attempt)
    BY DEF Takes, SessionState
  <2>2. QED
    BY <1>1, <2>1, EmptySeq
<1>4. \A a \in Attempt : PendingIn(T, a) => PendingIn(S, a)
  BY <1>2, <1>3 DEF PendingIn
<1>5. ASSUME NEW i \in DOMAIN T.queue
      PROVE  T.queue[i] # T.serving
  BY <1>2, <1>3 DEF Distinct
<1>6. ASSUME NEW i \in DOMAIN T.queue, NEW j \in DOMAIN T.queue, T.queue[i] = T.queue[j]
      PROVE  i = j
  <2>1. i + 1 = j + 1
    BY <1>2, <1>6 DEF Distinct
  <2>2. i \in Nat /\ j \in Nat
    BY <1>1
  <2>3. QED
    BY <2>1, <2>2
<1>7. QED
  BY <1>4, <1>5, <1>6 DEF Distinct

LEMMA GrowsPending ==
  ASSUME NEW S \in SessionState, NEW T \in SessionState, NEW a \in Attempt, Grows(S, T, a),
         Distinct(S), ~PendingIn(S, a)
  PROVE  /\ \A b \in Attempt : PendingIn(T, b) => PendingIn(S, b) \/ b = a
         /\ Distinct(T)
<1>1. /\ T.queue = Append(S.queue, a) /\ Len(T.queue) = Len(S.queue) + 1
      /\ \A i \in 1 .. Len(S.queue) : T.queue[i] = S.queue[i]
      /\ T.queue[Len(S.queue) + 1] = a /\ T.serving = S.serving
      /\ Len(S.queue) \in Nat /\ DOMAIN S.queue = 1 .. Len(S.queue)
      /\ DOMAIN T.queue = 1 .. Len(T.queue)
  BY AppendProperties, LenProperties DEF Grows, SessionState
<1>2. \A i \in DOMAIN T.queue :
        \/ i \in DOMAIN S.queue /\ T.queue[i] = S.queue[i]
        \/ i = Len(S.queue) + 1 /\ T.queue[i] = a
  BY <1>1
<1>3. \A i \in DOMAIN S.queue : S.queue[i] # a
  BY DEF PendingIn
<1>4. S.serving # a
  BY DEF PendingIn
<1>5. \A b \in Attempt : PendingIn(T, b) => PendingIn(S, b) \/ b = a
  BY <1>1, <1>2 DEF PendingIn
<1>6. Distinct(T)
  BY <1>1, <1>2, <1>3, <1>4 DEF Distinct
<1>7. QED
  BY <1>5, <1>6

LEMMA KeepsPending ==
  ASSUME NEW S \in SessionState, NEW T \in SessionState, T.queue = S.queue,
         T.serving = S.serving \/ T.serving = <<>>, Distinct(S)
  PROVE  /\ \A a \in Attempt : PendingIn(T, a) => PendingIn(S, a)
         /\ Distinct(T)
<1>1. \A i \in DOMAIN S.queue : S.queue[i] # <<>>
  BY LenProperties, AttemptFacts DEF SessionState
<1>2. QED
  BY <1>1, AttemptFacts DEF PendingIn, Distinct

LEMMA StopsPending ==
  ASSUME NEW T \in SessionState, Stops(T) \/ T = NewSession
  PROVE  Distinct(T) /\ \A a \in Attempt : ~PendingIn(T, a)
<1>1. T.queue = <<>> /\ T.serving = <<>>
  BY DEF Stops, NewSession
<1>2. DOMAIN T.queue = {}
  BY <1>1
<1>3. QED
  BY <1>1, <1>2, AttemptFacts DEF PendingIn, Distinct

(* What a step of a session makes pending in it was pending there before.     *)
LEMMA SessionPending ==
  ASSUME TypeOK, PendingInv, NEW s \in DOMAIN session, SessionGoesOn(s)
  PROVE  /\ \A a \in Attempt : PendingIn(session'[s], a) => PendingIn(session[s], a)
         /\ Distinct(session'[s])
<1> DEFINE S == session[s]
           T == session'[s]
<1>1. S \in SessionState /\ T \in SessionState /\ Distinct(S)
  BY SessionFacts DEF SessionGoesOn, OneSession, PendingInv
<1>2. CASE Takes(S, T)
  BY <1>1, <1>2, TakesPending
<1>3. CASE Stops(T)
  BY <1>1, <1>3, StopsPending
<1>4. CASE Reads(S, T) \/ \E item \in WireItem : Answered(S, T, item) \/ Loses(S, T, item)
  <2>1. T.queue = S.queue /\ (T.serving = S.serving \/ T.serving = <<>>)
    BY <1>4 DEF Reads, Answered, Loses
  <2>2. QED
    BY <1>1, <2>1, KeepsPending
<1>5. QED
  BY <1>2, <1>3, <1>4 DEF SessionGoesOn

LEMMA CurrentIsNew ==
  ASSUME TypeOK, PendingInv, NEW r \in Request, request[r].pc \in {"queueing", "starting"}
  PROVE  Current(r) \in Attempt /\ ~Pending(Current(r))
<1>1. Current(r) \in Attempt /\ Current(r)[1] = r /\ Current(r)[2] = request[r].recycles
  BY CallFacts DEF Current, Attempt
<1>2. ~(request[r].recycles < request[r].recycles)
  BY CallFacts
<1>3. ~Made(Current(r))
  BY <1>1, <1>2 DEF Made
<1>4. QED
  BY <1>1, <1>3 DEF PendingInv

(* Only the request that queues makes an attempt pending, its own.            *)
LEMMA PendingStep ==
  ASSUME TypeOK, PoolInv, PendingInv, [Next]_vars
  PROVE  \A a \in Attempt : Pending(a)' =>
           Pending(a) \/ \E r \in Request : CallQueues(r) /\ a = Current(r)
<1> SUFFICES ASSUME NEW a \in Attempt, NEW t \in DOMAIN session', PendingIn(session'[t], a)
             PROVE  Pending(a) \/ \E r \in Request : CallQueues(r) /\ a = Current(r)
  BY DEF Pending, PendingIn
<1>1. ASSUME t \in DOMAIN session, session'[t] = session[t]
      PROVE  Pending(a)
  BY <1>1, PendingWhere
<1>2. CASE session' = Append(session, NewSession)
  <2>1. CASE t \in DOMAIN session
    BY <1>1, <1>2, <2>1, SessionAdded
  <2>2. CASE t = Len(session) + 1
    <3>1. session'[t] = NewSession /\ NewSession \in SessionState
      BY <1>2, <2>2, SessionAdded DEF NewSession, SessionState, Task
    <3>2. QED
      BY <3>1, StopsPending
  <2>3. QED
    BY <1>2, <2>1, <2>2, SessionAdded
<1>3. ASSUME NEW r \in Request, CallQueues(r)
      PROVE  Pending(a) \/ a = Current(r)
  <2> DEFINE s == request[r].session
  <2>1. s \in DOMAIN session /\ request[r].pc \in {"queueing", "starting"} /\ OneSession(s)
        /\ Grows(session[s], session'[s], Current(r))
    BY <1>3 DEF CallQueues, Queues, PoolInv
  <2> HIDE DEF s
  <2>2. CASE t # s
    <3>1. t \in DOMAIN session /\ session'[t] = session[t]
      BY <2>1, <2>2, SessionReplaced
    <3>2. QED
      BY <1>1, <3>1
  <2>3. CASE t = s
    <3>1. Current(r) \in Attempt /\ ~PendingIn(session[s], Current(r))
      BY <2>1, CurrentIsNew, PendingWhere
    <3>2. session[s] \in SessionState /\ session'[s] \in SessionState /\ Distinct(session[s])
      BY <2>1, SessionFacts DEF OneSession, PendingInv
    <3>3. QED
      BY <2>1, <2>3, <3>1, <3>2, GrowsPending, PendingWhere
  <2>4. QED
    BY <2>2, <2>3
<1>4. ASSUME NEW s \in DOMAIN session, SessionGoesOn(s)
      PROVE  Pending(a)
  <2>1. CASE t # s
    <3>1. OneSession(s)
      BY <1>4 DEF SessionGoesOn
    <3>2. t \in DOMAIN session /\ session'[t] = session[t]
      BY <2>1, <3>1, SessionReplaced
    <3>3. QED
      BY <1>1, <3>2
  <2>2. CASE t = s
    BY <1>4, <2>2, SessionPending, PendingWhere
  <2>3. QED
    BY <2>1, <2>2
<1>5. QED
  BY <1>1, <1>2, <1>3, <1>4, StepCases DEF CallGoesOn, CallOpens, vars

(* An attempt that was made stays made.                                       *)
LEMMA MadeKept ==
  ASSUME TypeOK, NEW r \in Request, OneCall(r), NEW a \in Attempt, Made(a),
         a[1] = r => \/ request'[r].pc = "over"
                     \/ /\ request'[r].pc # "new" /\ request[r].pc # "over"
                        /\ request'[r].recycles = request[r].recycles + 1
                     \/ /\ request'[r].pc # "new" /\ request[r].pc # "over"
                        /\ request'[r].recycles = request[r].recycles
                        /\ request[r].pc \in {"awaiting", "streaming"} =>
                             request'[r].pc \in {"awaiting", "streaming"}
  PROVE  Made(a)'
<1>1. a[1] \in Request /\ a[2] \in Nat /\ request[r].recycles \in Nat
  BY AttemptFacts, CallFacts
<1>2. CASE a[1] # r
  BY <1>1, <1>2, CallReplaced DEF Made
<1>3. CASE a[1] = r
  BY <1>1, <1>3 DEF Made
<1>4. QED
  BY <1>2, <1>3

LEMMA MadeStep ==
  ASSUME TypeOK, PoolInv, [Next]_vars, NEW a \in Attempt, Made(a)
  PROVE  Made(a)'
<1>1. CASE request' = request
  BY <1>1 DEF Made
<1>2. ASSUME NEW r \in Request, CallGoesOn(r)
      PROVE  Made(a)'
  <2>1. CASE Arrives(request[r], request'[r])
    <3>1. a[1] # r
      <4>1. request[r].pc = "new" /\ request[r].pc # "over"
        BY <2>1 DEF Arrives
      <4>2. QED
        BY <4>1 DEF Made
    <3>2. QED
      BY <1>2, <3>1, MadeKept DEF CallGoesOn
  <2>2. CASE ~Arrives(request[r], request'[r])
    <3>1. \/ request'[r].pc = "over"
          \/ /\ request'[r].pc # "new" /\ request[r].pc # "over"
             /\ request'[r].recycles = request[r].recycles + 1
          \/ /\ request'[r].pc # "new" /\ request[r].pc # "over"
             /\ request'[r].recycles = request[r].recycles
             /\ request[r].pc \in {"awaiting", "streaming"} =>
                  request'[r].pc \in {"awaiting", "streaming"}
      BY <1>2, <2>2 DEF CallGoesOn, Recycles, Ends, Sees, Chooses, KeepsCall
    <3>2. QED
      BY <1>2, <3>1, MadeKept DEF CallGoesOn
  <2>3. QED
    BY <2>1, <2>2
<1>3. ASSUME NEW r \in Request, CallOpens(r) \/ CallQueues(r)
      PROVE  Made(a)'
  BY <1>3, MadeKept DEF CallOpens, CallQueues, Dials, Queues, KeepsCall
<1>4. ASSUME NEW b, b[1] \in Request, NEW kind, Told(b, kind)
      PROVE  Made(a)'
  BY <1>4, MadeKept DEF Told, Hears, KeepsCall
<1>5. ASSUME NEW s \in DOMAIN session, SessionGoesOn(s)
      PROVE  Made(a)'
  <2>1. session[s].queue # <<>> => Head(session[s].queue)[1] \in Request
    BY SessionFacts, HeadTailProperties, AttemptFacts
  <2>2. session[s].task = "forwarding" => session[s].serving[1] \in Request
    BY AttemptFacts DEF TypeOK
  <2>3. QED
    BY <1>1, <1>4, <1>5, <2>1, <2>2 DEF SessionGoesOn
<1>6. QED
  BY <1>1, <1>2, <1>3, <1>5, StepCases DEF vars

LEMMA PendingInvStep ==
  ASSUME TypeOK, PoolInv, PendingInv, [Next]_vars
  PROVE  PendingInv'
<1>1. ASSUME NEW a \in Attempt, Pending(a)'
      PROVE  Made(a)'
  <2>1. CASE Pending(a)
    BY <2>1, MadeStep DEF PendingInv
  <2>2. ASSUME NEW r \in Request, CallQueues(r), a = Current(r)
        PROVE  Made(a)'
    <3>1. a[1] = r /\ a[2] = request[r].recycles
      BY <2>2 DEF Current
    <3>2. request'[r].pc = "awaiting" /\ request'[r].recycles = request[r].recycles
      BY <2>2 DEF CallQueues, Queues, KeepsCall
    <3>3. QED
      BY <3>1, <3>2 DEF Made
  <2>3. QED
    BY <1>1, <2>1, <2>2, PendingStep
<1> DEFINE Safe == /\ \A s \in DOMAIN session : Distinct(session[s])
                   /\ \A s, t \in DOMAIN session : s # t =>
                        \A a \in Attempt :
                          ~(PendingIn(session[s], a) /\ PendingIn(session[t], a))
<1>2. Safe
  BY DEF PendingInv
<1>3. ASSUME session' = session
      PROVE  Safe'
  BY <1>2, <1>3
<1>4. ASSUME session' = Append(session, NewSession)
      PROVE  Safe'
  <2>1. Distinct(NewSession) /\ \A a \in Attempt : ~PendingIn(NewSession, a)
    <3>1. NewSession \in SessionState
      BY DEF NewSession, SessionState, Task
    <3>2. QED
      BY <3>1, StopsPending
  <2>2. QED
    BY <1>2, <1>4, <2>1, SessionAdded
<1>5. ASSUME NEW s \in DOMAIN session, OneSession(s), Distinct(session'[s]),
             \A a \in Attempt : PendingIn(session'[s], a) => PendingIn(session[s], a) \/ ~Pending(a)
      PROVE  Safe'
  <2>1. DOMAIN session' = DOMAIN session /\ \A t \in DOMAIN session : t # s => session'[t] = session[t]
    BY <1>5, SessionReplaced
  <2>2. \A t \in DOMAIN session' : Distinct(session'[t])
    BY <1>2, <1>5, <2>1
  <2>3. ASSUME NEW t \in DOMAIN session, t # s, NEW a \in Attempt,
               PendingIn(session'[s], a), PendingIn(session'[t], a)
        PROVE  FALSE
    <3>1. PendingIn(session[t], a)
      BY <2>1, <2>3
    <3>2. PendingIn(session[s], a)
      BY <1>5, <2>3, <3>1, PendingWhere
    <3>3. QED
      BY <1>2, <2>3, <3>1, <3>2
  <2>4. ASSUME NEW t \in DOMAIN session, NEW u \in DOMAIN session, t # u, NEW a \in Attempt,
               PendingIn(session'[t], a), PendingIn(session'[u], a)
        PROVE  FALSE
    BY <1>2, <2>1, <2>3, <2>4
  <2>5. QED
    BY <2>1, <2>2, <2>4
<1>6. ASSUME NEW r \in Request, CallQueues(r)
      PROVE  Safe'
  <2> DEFINE s == request[r].session
  <2>1. s \in DOMAIN session /\ request[r].pc \in {"queueing", "starting"} /\ OneSession(s)
        /\ Grows(session[s], session'[s], Current(r))
    BY <1>6 DEF CallQueues, Queues, PoolInv
  <2>2. Current(r) \in Attempt /\ ~Pending(Current(r)) /\ ~PendingIn(session[s], Current(r))
    BY <2>1, CurrentIsNew, PendingWhere
  <2>3. session[s] \in SessionState /\ session'[s] \in SessionState /\ Distinct(session[s])
    BY <2>1, SessionFacts DEF OneSession, PendingInv
  <2>4. /\ Distinct(session'[s])
        /\ \A a \in Attempt : PendingIn(session'[s], a) => PendingIn(session[s], a) \/ a = Current(r)
    BY <2>1, <2>2, <2>3, GrowsPending
  <2>5. QED
    BY <1>5, <2>1, <2>2, <2>4
<1>7. ASSUME NEW s \in DOMAIN session, SessionGoesOn(s)
      PROVE  Safe'
  BY <1>5, <1>7, SessionPending DEF SessionGoesOn
<1>8. Safe'
  <2> HIDE DEF Safe
  <2>1. QED
    BY <1>3, <1>4, <1>6, <1>7, StepCases DEF CallGoesOn, CallOpens, vars
<1>9. QED
  BY <1>1, <1>8 DEF PendingInv

--------------------------------------------------------------------------------
(* A session that was begun stays so.                                         *)
LEMMA BegunStep ==
  ASSUME TypeOK, PoolInv, SocketInv, [Next]_vars, NEW s \in DOMAIN session, Begun(session[s])
  PROVE  s \in DOMAIN session' /\ Begun(session'[s])
<1>1. CASE session' = session
  BY <1>1
<1>2. CASE session' = Append(session, NewSession)
  BY <1>2, SessionAdded
<1>3. ASSUME NEW r \in Request, CallQueues(r)
      PROVE  s \in DOMAIN session' /\ Begun(session'[s])
  <2> DEFINE t == request[r].session
  <2>1. t \in DOMAIN session /\ OneSession(t) /\ Grows(session[t], session'[t], Current(r))
        /\ Current(r) \in Attempt
    BY <1>3, CallFacts DEF CallQueues, Queues, PoolInv, Current, Attempt
  <2>2. Begun(session'[t])
    <3> HIDE DEF t
    <3>1. Append(session[t].queue, Current(r)) # <<>>
      BY <2>1, SessionFacts, AppendProperties
    <3>2. QED
      BY <2>1, <3>1 DEF Begun, Grows
  <2>3. QED
    BY <2>1, <2>2, SessionReplaced
<1>4. ASSUME NEW t \in DOMAIN session, SessionGoesOn(t)
      PROVE  s \in DOMAIN session' /\ Begun(session'[s])
  <2>1. OneSession(t)
    BY <1>4 DEF SessionGoesOn
  <2>2. CASE s # t
    BY <2>1, <2>2, SessionReplaced
  <2>3. CASE s = t
    <3>1. Takes(session[s], session'[s]) => session'[s].opener # <<>>
      <4>1. session[s].queue # <<>> => Head(session[s].queue) \in Attempt
        BY SessionFacts, HeadTailProperties
      <4>2. QED
        BY <4>1, AttemptFacts DEF Takes
    <3>2. Begun(session'[s])
      BY <1>4, <2>3, <3>1, SessionChanges DEF Begun, Stops, Reads, Answered, Loses
    <3>3. QED
      BY <2>1, <2>3, <3>2, SessionReplaced
  <2>4. QED
    BY <2>2, <2>3
<1>5. QED
  BY <1>1, <1>2, <1>3, <1>4, StepCases DEF CallGoesOn, CallOpens, vars

LEMMA SessionsStay ==
  ASSUME TypeOK, PoolInv, [Next]_vars
  PROVE  DOMAIN session \subseteq DOMAIN session'
<1>1. ASSUME NEW r \in Request, CallQueues(r)
      PROVE  DOMAIN session \subseteq DOMAIN session'
  BY <1>1, SessionReplaced DEF CallQueues, Queues, PoolInv
<1>2. ASSUME NEW s \in DOMAIN session, SessionGoesOn(s)
      PROVE  DOMAIN session \subseteq DOMAIN session'
  BY <1>2, SessionReplaced DEF SessionGoesOn
<1>3. QED
  BY <1>1, <1>2, SessionAdded, StepCases DEF CallGoesOn, CallOpens, vars

(* The session a request is queueing on or starting.                          *)
LEMMA HeldStep ==
  ASSUME TypeOK, PoolInv, SocketInv, [Next]_vars
  PROVE  \A r \in Request :
           /\ request'[r].pc \in {"queueing", "starting"} => request'[r].session \in DOMAIN session'
           /\ request'[r].pc = "queueing" => Begun(session'[request'[r].session])
<1> DEFINE Holding(r) ==
      /\ request'[r].pc \in {"queueing", "starting"} => request'[r].session \in DOMAIN session'
      /\ request'[r].pc = "queueing" => Begun(session'[request'[r].session])
<1>1. ASSUME NEW r \in Request, request'[r] = request[r]
      PROVE  Holding(r)
  BY <1>1, BegunStep, SessionsStay DEF PoolInv
<1>2. ASSUME NEW r \in Request, request'[r].pc \notin {"queueing", "starting"}
      PROVE  Holding(r)
  BY <1>2
<1>3. ASSUME NEW r \in Request, CallGoesOn(r)
      PROVE  Holding(r)
  <2>1. CASE request'[r].pc = "queueing"
    <3>1. /\ request[r].pc = "choosing" /\ session' = session
          /\ request'[r].session = pool[request[r].key] /\ request'[r].session # 0
      BY <1>3, <2>1 DEF CallGoesOn, Arrives, Recycles, Ends, Sees, Chooses
    <3>2. request[r].key \in Key
      BY <3>1 DEF TypeOK
    <3>3. QED
      BY <2>1, <3>1, <3>2 DEF PoolInv
  <2>2. CASE request'[r].pc # "queueing"
    <3>1. request'[r].pc # "starting"
      BY <1>3, <2>2 DEF CallGoesOn, Arrives, Recycles, Ends, Sees, Chooses
    <3>2. QED
      BY <1>2, <2>2, <3>1
  <2>3. QED
    BY <2>1, <2>2
<1>4. ASSUME NEW r \in Request, CallOpens(r)
      PROVE  Holding(r)
  BY <1>4, SessionAdded DEF CallOpens, Dials
<1>5. ASSUME NEW r \in Request, CallQueues(r)
      PROVE  Holding(r)
  BY <1>2, <1>5 DEF CallQueues, Queues
<1>6. ASSUME NEW a, a[1] \in Request, NEW kind, Told(a, kind)
      PROVE  Holding(a[1])
  BY <1>2, <1>6 DEF Told, Hears
<1> HIDE DEF Holding
<1>7. ASSUME NEW p \in Request, OneCall(p), Holding(p)
      PROVE  \A r \in Request : Holding(r)
  BY <1>1, <1>7, CallReplaced
<1>8. ASSUME NEW s \in DOMAIN session, SessionGoesOn(s)
      PROVE  \A r \in Request : Holding(r)
  <2>1. session[s].queue # <<>> => Head(session[s].queue)[1] \in Request
    BY SessionFacts, HeadTailProperties, AttemptFacts
  <2>2. session[s].task = "forwarding" => session[s].serving[1] \in Request
    BY AttemptFacts DEF TypeOK
  <2>3. CASE request' = request
    BY <1>1, <2>3
  <2>4. ASSUME NEW a, a[1] \in Request, NEW kind, Told(a, kind)
        PROVE  \A r \in Request : Holding(r)
    BY <1>6, <1>7, <2>4 DEF Told
  <2>5. QED
    BY <1>8, <2>1, <2>2, <2>3, <2>4 DEF SessionGoesOn
<1>9. ASSUME UNCHANGED vars
      PROVE  \A r \in Request : Holding(r)
  BY <1>1, <1>9 DEF vars
<1>10. \A r \in Request : Holding(r)
  <2>1. ASSUME NEW r \in Request, CallGoesOn(r) \/ CallOpens(r) \/ CallQueues(r)
        PROVE  Holding(r) /\ OneCall(r)
    BY <1>3, <1>4, <1>5, <2>1 DEF CallGoesOn, CallOpens, CallQueues
  <2>2. QED
    BY <1>7, <1>8, <1>9, <2>1, StepCases
<1>11. QED
  BY <1>10 DEF Holding

LEMMA PoolStep ==
  ASSUME TypeOK, PoolInv, SocketInv, [Next]_vars
  PROVE  PoolInv'
<1>1. ASSUME NEW k \in Key, pool'[k] # 0
      PROVE  pool'[k] \in DOMAIN session' /\ Begun(session'[pool'[k]])
  <2>1. CASE pool'[k] = pool[k]
    BY <1>1, <2>1, BegunStep DEF PoolInv
  <2>2. ASSUME NEW r \in Request, CallQueues(r), pool'[k] # pool[k]
        PROVE  pool'[k] \in DOMAIN session' /\ Begun(session'[pool'[k]])
    <3> DEFINE s == request[r].session
    <3>1. pool' = [pool EXCEPT ![request[r].key] = s] /\ pool \in [Key -> Nat]
      BY <2>2 DEF CallQueues, TypeOK
    <3>2. pool'[k] = s
      BY <2>2, <3>1
    <3>3. s \in DOMAIN session /\ OneSession(s) /\ Current(r) \in Attempt
          /\ Grows(session[s], session'[s], Current(r))
      BY <2>2, CallFacts DEF CallQueues, Queues, PoolInv, Current, Attempt
    <3>4. Begun(session'[s])
      BY <3>3, SessionFacts, AppendProperties DEF Begun, Grows
    <3>5. s \in DOMAIN session'
      BY <3>3, SessionReplaced
    <3>6. QED
      BY <3>2, <3>4, <3>5
  <2>3. pool'[k] = pool[k] \/ \E r \in Request : CallQueues(r)
    BY <1>1, StepCases DEF CallGoesOn, CallOpens, SessionGoesOn, PoolShrinks, vars
  <2>4. QED
    BY <2>1, <2>2, <2>3
<1>2. QED
  BY <1>1, HeldStep DEF PoolInv

(* What a socket was opened with, after each of the things that happen to it. *)
LEMMA OpenedKept ==
  ASSUME TypeOK, PoolInv, PendingInv, [Next]_vars
  PROVE  \A a \in Attempt : request[a[1]].pc # "new" =>
           request'[a[1]].pc # "new" /\ request'[a[1]].delta = request[a[1]].delta
<1> DEFINE Kept(r) == request[r].pc # "new" =>
             request'[r].pc # "new" /\ request'[r].delta = request[r].delta
<1>1. ASSUME NEW r \in Request, OneCall(r), Kept(r)
      PROVE  \A p \in Request : Kept(p)
  BY <1>1, CallReplaced
<1>2. ASSUME NEW r \in Request, CallGoesOn(r) \/ CallOpens(r) \/ CallQueues(r)
      PROVE  Kept(r) /\ OneCall(r)
  BY <1>2 DEF CallGoesOn, CallOpens, CallQueues, Arrives, Recycles, Ends, Sees, Chooses, Dials,
              Queues, KeepsCall
<1>3. ASSUME NEW a, a[1] \in Request, NEW kind, Told(a, kind)
      PROVE  Kept(a[1]) /\ OneCall(a[1])
  BY <1>3 DEF Told, Hears, KeepsCall
<1>4. CASE request' = request
  BY <1>4, AttemptFacts
<1> HIDE DEF Kept
<1>5. ASSUME NEW s \in DOMAIN session, SessionGoesOn(s), request' # request
      PROVE  \A p \in Request : Kept(p)
  <2>1. session[s].queue # <<>> => Head(session[s].queue)[1] \in Request
    BY SessionFacts, HeadTailProperties, AttemptFacts
  <2>2. session[s].task = "forwarding" => session[s].serving[1] \in Request
    BY AttemptFacts DEF TypeOK
  <2>3. QED
    BY <1>1, <1>3, <1>5, <2>1, <2>2 DEF SessionGoesOn
<1>6. request' = request \/ \A p \in Request : Kept(p)
  BY <1>1, <1>2, <1>5, StepCases DEF vars
<1>7. QED
  BY <1>4, <1>6, AttemptFacts DEF Kept

LEMMA OpenedGrows ==
  ASSUME NEW S \in SessionState, NEW T \in SessionState, NEW a \in Attempt, Grows(S, T, a),
         Begun(S) \/ ~request[a[1]].delta, Opened(S)
  PROVE  Opened(T)
<1>1. T.opener = S.opener /\ T.queue = Append(S.queue, a) /\ S.task # "stopped"
  BY DEF Grows, KeepsSession
<1>2. Head(T.queue) = IF S.queue = <<>> THEN a ELSE Head(S.queue)
  BY <1>1, HeadTailAppend DEF SessionState
<1>3. S.queue = <<>> /\ S.opener = <<>> => ~request[a[1]].delta
  BY <1>1 DEF Begun
<1>4. QED
  BY <1>1, <1>2, <1>3 DEF Opened

(* Only requests that went past their arrival are queued: what they plan does *)
(* not change any more.                                                       *)
LEMMA QueuedAreMade ==
  ASSUME TypeOK, PendingInv, NEW s \in DOMAIN session, session[s].queue # <<>>
  PROVE  /\ Head(session[s].queue) \in Attempt
         /\ request[Head(session[s].queue)[1]].pc # "new"
<1> DEFINE S == session[s]
<1>1. S.queue # <<>> /\ S.queue \in Seq(Attempt) /\ Head(S.queue) \in Attempt
  BY SessionFacts, HeadTailProperties
<1>2. 1 \in DOMAIN S.queue /\ Head(S.queue) = S.queue[1]
  BY <1>1, EmptySeq, LenProperties
<1>3. Made(Head(S.queue))
  BY <1>1, <1>2 DEF PendingInv, Pending
<1>4. QED
  BY <1>1, <1>3 DEF Made

LEMMA OpenedGoesOn ==
  ASSUME TypeOK, PendingInv, NEW s \in DOMAIN session, SessionGoesOn(s), Opened(session[s])
  PROVE  Opened(session'[s])
<1> DEFINE S == session[s]
           T == session'[s]
<1>1. CASE Takes(S, T)
  <2>1. S.queue # <<>> /\ request[Head(S.queue)[1]].pc # "new" /\ Head(S.queue) # <<>>
    BY <1>1, QueuedAreMade, AttemptFacts DEF Takes
  <2>2. T.opener = IF S.opener = <<>> THEN Head(S.queue) ELSE S.opener
    BY <1>1 DEF Takes
  <2>3. QED
    BY <2>1, <2>2 DEF Opened
<1>2. CASE Stops(T)
  BY <1>2 DEF Stops, Opened
<1>3. CASE T.opener = S.opener /\ T.queue = S.queue
  BY <1>3 DEF Opened
<1>4. QED
  BY <1>1, <1>2, <1>3, SessionChanges DEF Reads, Answered, Loses

LEMMA DialsInFull ==
  ASSUME TypeOK, PoolInv, DeltaInv, [Next]_vars
  PROVE  \A r \in Request : request'[r].pc \in {"dialing", "starting"} => ~request'[r].delta
<1> DEFINE Full(r) == request'[r].pc \in {"dialing", "starting"} => ~request'[r].delta
<1>1. ASSUME NEW r \in Request, request'[r] = request[r]
      PROVE  Full(r)
  BY <1>1 DEF DeltaInv
<1>2. ASSUME NEW r \in Request, CallGoesOn(r) \/ CallOpens(r) \/ CallQueues(r)
      PROVE  Full(r) /\ OneCall(r)
  BY <1>2 DEF CallGoesOn, CallOpens, CallQueues, Arrives, Recycles, Ends, Sees, Chooses, Dials,
              Queues, KeepsCall, DeltaInv
<1>3. ASSUME NEW a, a[1] \in Request, NEW kind, Told(a, kind)
      PROVE  Full(a[1]) /\ OneCall(a[1])
  BY <1>3 DEF Told, Hears
<1> HIDE DEF Full
<1>4. ASSUME NEW r \in Request, OneCall(r), Full(r)
      PROVE  \A p \in Request : Full(p)
  BY <1>1, <1>4, CallReplaced
<1>5. ASSUME request' = request
      PROVE  \A p \in Request : Full(p)
  BY <1>1, <1>5
<1>6. ASSUME NEW s \in DOMAIN session, SessionGoesOn(s)
      PROVE  \A p \in Request : Full(p)
  <2>1. session[s].queue # <<>> => Head(session[s].queue)[1] \in Request
    BY SessionFacts, HeadTailProperties, AttemptFacts
  <2>2. session[s].task = "forwarding" => session[s].serving[1] \in Request
    BY AttemptFacts DEF TypeOK
  <2>3. QED
    BY <1>3, <1>4, <1>5, <1>6, <2>1, <2>2 DEF SessionGoesOn
<1>7. \A p \in Request : Full(p)
  BY <1>2, <1>4, <1>5, <1>6, StepCases DEF vars
<1>8. QED
  BY <1>7 DEF Full

LEMMA DeltaStep ==
  ASSUME TypeOK, SocketInv, PoolInv, PendingInv, DeltaInv, [Next]_vars
  PROVE  DeltaInv'
<1> DEFINE Before(S) ==
      /\ S.opener # <<>> => request[S.opener[1]].pc # "new" /\ ~request[S.opener[1]].delta
      /\ S.opener = <<>> /\ S.queue # <<>> => ~request[Head(S.queue)[1]].delta
<1>1. \A t \in DOMAIN session' : Before(session'[t])
  <2>1. \A t \in DOMAIN session : Before(session[t])
    BY DEF DeltaInv, Opened
  <2> HIDE DEF Before
  <2>2. CASE session' = session
    BY <2>1, <2>2
  <2>3. CASE session' = Append(session, NewSession)
    <3>1. Before(NewSession)
      BY DEF Before, NewSession
    <3>2. QED
      BY <2>1, <2>3, <3>1, SessionAdded
  <2>4. ASSUME NEW s \in DOMAIN session, OneSession(s), Before(session'[s])
        PROVE  \A t \in DOMAIN session' : Before(session'[t])
    BY <2>1, <2>4, SessionReplaced
  <2>5. ASSUME NEW r \in Request, CallQueues(r)
        PROVE  \A t \in DOMAIN session' : Before(session'[t])
    <3> DEFINE s == request[r].session
    <3>1. s \in DOMAIN session /\ request[r].pc \in {"queueing", "starting"} /\ OneSession(s)
          /\ Grows(session[s], session'[s], Current(r)) /\ Current(r) \in Attempt
          /\ Current(r)[1] = r
      BY <2>5, CurrentIsNew DEF CallQueues, Queues, PoolInv, Current
    <3>2. Begun(session[s]) \/ ~request[r].delta
      BY <3>1 DEF PoolInv, DeltaInv
    <3>3. session[s] \in SessionState /\ session'[s] \in SessionState /\ Opened(session[s])
      BY <3>1, SessionFacts DEF OneSession, DeltaInv
    <3>4. Before(session'[s])
      <4> HIDE DEF s
      <4>1. Opened(session[s]) <=> Before(session[s])
        BY DEF Opened, Before
      <4>2. QED
        BY <3>1, <3>2, <3>3, OpenedGrows DEF Opened, Before
    <3>5. QED
      BY <2>4, <3>1, <3>4
  <2>6. ASSUME NEW s \in DOMAIN session, SessionGoesOn(s)
        PROVE  \A t \in DOMAIN session' : Before(session'[t])
    <3>1. Before(session'[s])
      BY <2>6, OpenedGoesOn DEF DeltaInv, Opened, Before
    <3>2. QED
      BY <2>4, <2>6, <3>1, SessionChanges
  <2>7. QED
    BY <2>2, <2>3, <2>5, <2>6, StepCases DEF CallGoesOn, CallOpens, vars
<1>2. ASSUME NEW t \in DOMAIN session'
      PROVE  Opened(session[t])'
  <2> DEFINE T == session'[t]
  <2>1. T.opener \in Attempt \cup {<<>>} /\ T.queue \in Seq(Attempt)
    <3>1. TypeOK'
      BY TypeStep
    <3>2. T \in SessionState
      BY <3>1, LenProperties DEF TypeOK
    <3>3. QED
      BY <3>2 DEF SessionState
  <2>2. T.opener # <<>> => request'[T.opener[1]].pc # "new" /\ ~request'[T.opener[1]].delta
    BY <1>1, <2>1, OpenedKept
  <2>3. ASSUME T.opener = <<>>, T.queue # <<>>
        PROVE  ~request'[Head(T.queue)[1]].delta
    <3>1. PICK a \in Attempt : a = Head(T.queue) /\ 1 \in DOMAIN T.queue /\ a = T.queue[1]
      BY <2>1, <2>3, HeadTailProperties, EmptySeq, LenProperties
    <3>2. Pending(a)'
      BY <3>1 DEF Pending
    <3>3. request[a[1]].pc # "new"
      <4>1. Pending(a) => request[a[1]].pc # "new"
        BY <3>1 DEF PendingInv, Made
      <4>2. ASSUME NEW r \in Request, CallQueues(r), a = Current(r)
            PROVE  request[a[1]].pc # "new"
        BY <4>2 DEF CallQueues, Queues, Current
      <4>3. QED
        BY <3>1, <3>2, <4>1, <4>2, PendingStep
    <3>4. ~request[a[1]].delta
      BY <1>1, <2>3, <3>1
    <3>5. QED
      BY <3>1, <3>3, <3>4, OpenedKept
  <2>4. QED
    BY <2>2, <2>3 DEF Opened
<1>3. \A r \in Request : request'[r].pc \in {"dialing", "starting"} => ~request'[r].delta
  BY DialsInFull
<1>4. QED
  BY <1>2, <1>3 DEF DeltaInv

--------------------------------------------------------------------------------
(* What a caller was sent and has seen.                                       *)
LEMMA QuietCaller ==
  ASSUME NEW r, request'[r].inbox = <<>>, request'[r].seen = <<>>
  PROVE  Caller(r)'
BY DEF Caller, Closes

LEMMA NewCaller ==
  ASSUME NEW r, NEW a, a = <<r, request'[r].recycles>>,
         request'[r].pc # "streaming" => request'[r].seen = <<>>,
         request'[r].pc \in {"awaiting", "streaming"},
         \A i \in DOMAIN request'[r].inbox :
           /\ request'[r].inbox[i].of = a
           /\ Ending(request'[r].inbox[i].kind) => i = Len(request'[r].inbox) /\ ~Pending(a)',
         \A i \in DOMAIN request'[r].seen :
           /\ request'[r].seen[i].of = a
           /\ Ending(request'[r].seen[i].kind) =>
                i = Len(request'[r].seen) /\ ~Pending(a)' /\ request'[r].inbox = <<>>
  PROVE  Caller(r)'
<1>1. Current(r)' = a
  BY DEF Current
<1>2. Pending(Current(r))' <=> Pending(a)'
  BY <1>1 DEF Pending
<1>3. Closes(r, request[r].inbox)' /\ Closes(r, request[r].seen)'
  BY <1>1, <1>2 DEF Closes
<1>4. QED
  BY <1>3 DEF Caller

(* While a request is left alone, so are its attempt and what is pending.     *)
LEMMA SameCaller ==
  ASSUME TypeOK, PoolInv, PendingInv, [Next]_vars, NEW r \in Request, Caller(r),
         request'[r] = request[r]
  PROVE  Caller(r)'
<1>1. PICK a \in Attempt : a = Current(r) /\ a = <<r, request'[r].recycles>>
  BY CallFacts DEF Current, Attempt
<1>2. ASSUME Pending(a)', ~Pending(a)
      PROVE  FALSE
  <2>1. PICK p \in Request : CallQueues(p) /\ a = Current(p)
    BY <1>1, <1>2, PendingStep
  <2>2. p = r
    BY <1>1, <2>1 DEF Current
  <2>3. request'[p].pc = "awaiting" /\ request[p].pc # "awaiting"
    BY <2>1 DEF CallQueues, Queues
  <2>4. QED
    BY <2>2, <2>3
<1>3. /\ \A i \in DOMAIN request[r].inbox :
           /\ request[r].inbox[i].of = a
           /\ Ending(request[r].inbox[i].kind) => i = Len(request[r].inbox) /\ ~Pending(a)'
      /\ \A i \in DOMAIN request[r].seen :
           /\ request[r].seen[i].of = a
           /\ Ending(request[r].seen[i].kind) =>
                i = Len(request[r].seen) /\ ~Pending(a)' /\ request[r].inbox = <<>>
  BY <1>1, <1>2 DEF Caller, Closes
<1>4. CASE request[r].pc \in {"awaiting", "streaming"}
  <2>1. request[r].pc # "streaming" => request[r].seen = <<>>
    BY DEF Caller
  <2>2. QED
    BY <1>1, <1>3, <1>4, <2>1, NewCaller
<1>5. CASE request[r].pc \notin {"awaiting", "streaming"}
  BY <1>5, QuietCaller DEF Caller
<1>6. QED
  BY <1>4, <1>5

LEMMA SeeingCaller ==
  ASSUME TypeOK, NEW r \in Request, Caller(r), session' = session,
         Sees(request[r], request'[r])
  PROVE  Caller(r)'
<1> DEFINE q == request[r]
           w == request'[r]
<1>1. PICK a \in Attempt : a = Current(r) /\ a = <<r, w.recycles>>
  BY CallFacts DEF Current, Attempt, Sees, KeepsCall
<1>2. Pending(a)' <=> Pending(a)
  BY DEF Pending
<1>3. /\ q.inbox \in Seq(Item) /\ q.seen \in Seq(Item)
      /\ Head(q.inbox) \in Item
      /\ 1 \in DOMAIN q.inbox /\ Head(q.inbox) = q.inbox[1]
      /\ Len(w.inbox) = Len(q.inbox) - 1 /\ w.inbox \in Seq(Item)
      /\ \A i \in 1 .. Len(w.inbox) : w.inbox[i] = q.inbox[i + 1]
      /\ Len(q.inbox) \in Nat /\ DOMAIN q.inbox = 1 .. Len(q.inbox)
      /\ DOMAIN w.inbox = 1 .. Len(w.inbox)
  <2>1. q.inbox \in Seq(Item) /\ q.inbox # <<>> /\ q.seen \in Seq(Item) /\ w.inbox = Tail(q.inbox)
    BY CallFacts DEF Sees
  <2>2. QED
    BY <2>1, HeadTailProperties, LenProperties, EmptySeq
<1>4. /\ \A i \in DOMAIN q.inbox :
           /\ q.inbox[i].of = a
           /\ Ending(q.inbox[i].kind) => i = Len(q.inbox) /\ ~Pending(a)
      /\ \A i \in DOMAIN q.seen : q.seen[i].of = a /\ ~Ending(q.seen[i].kind)
  <2>1. q.inbox # <<>>
    BY DEF Sees
  <2>2. QED
    BY <1>1, <2>1 DEF Caller, Closes
<1>5. ASSUME NEW i \in DOMAIN w.inbox
      PROVE  /\ w.inbox[i].of = a
             /\ Ending(w.inbox[i].kind) => i = Len(w.inbox) /\ ~Pending(a)'
  <2>1. PICK n \in Nat, m \in Nat : n = Len(q.inbox) /\ m = Len(w.inbox) /\ m = n - 1
    BY <1>3, LenProperties
  <2>2. i + 1 \in DOMAIN q.inbox /\ w.inbox[i] = q.inbox[i + 1] /\ i \in Nat
    <3>1. i \in 1 .. m /\ DOMAIN q.inbox = 1 .. n
      BY ONLY <1>3, <2>1
    <3>2. i + 1 \in 1 .. n /\ i \in Nat
      BY ONLY <2>1, <3>1
    <3>3. QED
      BY <1>3, <3>1, <3>2
  <2>3. i + 1 = n => i = m
    BY <2>1, <2>2
  <2>4. QED
    BY <1>2, <1>4, <2>1, <2>2, <2>3
<1>6. ASSUME Ending(Head(q.inbox).kind)
      PROVE  w.inbox = <<>> /\ ~Pending(a)'
  <2>1. 1 = Len(q.inbox) /\ ~Pending(a)
    BY <1>3, <1>4, <1>6
  <2>2. Len(w.inbox) = 0
    BY <1>3, <2>1
  <2>3. QED
    BY <1>2, <1>3, <2>1, <2>2, EmptySeq
<1>7. Head(q.inbox).of = a
  BY <1>3, <1>4
<1>8. \A i \in DOMAIN w.seen :
        \/ w.seen[i].of = a /\ ~Ending(w.seen[i].kind)
        \/ i = Len(w.seen) /\ w.seen[i] = Head(q.inbox)
  <2>1. CASE w.seen = <<Head(q.inbox)>>
    <3>1. DOMAIN w.seen = 1 .. 1 /\ Len(w.seen) = 1 /\ w.seen[1] = Head(q.inbox)
      BY <2>1
    <3>2. \A i \in 1 .. 1 : i = 1
      OBVIOUS
    <3>3. QED
      BY <3>1, <3>2
  <2>2. CASE w.seen = Append(q.seen, Head(q.inbox))
    <3>1. /\ w.seen \in Seq(Item) /\ Len(w.seen) = Len(q.seen) + 1
          /\ \A i \in 1 .. Len(q.seen) : w.seen[i] = q.seen[i]
          /\ w.seen[Len(q.seen) + 1] = Head(q.inbox)
      BY <1>3, <2>2, AppendProperties
    <3>2. /\ DOMAIN w.seen = 1 .. Len(w.seen) /\ Len(q.seen) \in Nat /\ Len(w.seen) \in Nat
          /\ DOMAIN q.seen = 1 .. Len(q.seen)
      BY <1>3, <3>1, LenProperties
    <3>3. ASSUME NEW i \in DOMAIN w.seen
          PROVE  \/ w.seen[i].of = a /\ ~Ending(w.seen[i].kind)
                 \/ i = Len(w.seen) /\ w.seen[i] = Head(q.inbox)
      <4>1. i \in 1 .. Len(q.seen) \/ i = Len(q.seen) + 1
        BY <3>1, <3>2
      <4>2. CASE i \in 1 .. Len(q.seen)
        BY <1>4, <3>1, <3>2, <4>2
      <4>3. CASE i = Len(q.seen) + 1
        BY <3>1, <4>3
      <4>4. QED
        BY <4>1, <4>2, <4>3
    <3>4. QED
      BY <3>3
  <2>3. QED
    BY <2>1, <2>2 DEF Sees
<1>9. \A i \in DOMAIN w.seen :
        /\ w.seen[i].of = a
        /\ Ending(w.seen[i].kind) => i = Len(w.seen) /\ ~Pending(a)' /\ w.inbox = <<>>
  BY <1>6, <1>7, <1>8
<1>10. w.pc = "streaming"
  BY DEF Sees
<1>11. QED
  BY <1>1, <1>5, <1>9, <1>10, NewCaller

LEMMA HearingCaller ==
  ASSUME TypeOK, NEW r \in Request, NEW a \in Attempt, NEW kind \in ItemKind, a[1] = r,
         Told(a, kind), Caller(r), Pending(a), Ending(kind) => ~Pending(a)'
  PROVE  Caller(r)'
<1> DEFINE q == request[r]
           w == request'[r]
<1>1. PICK item \in Item : Hears(q, w, item) /\ item.of = a /\ item.kind = kind
  BY DEF Told, Item
<1>2. a = Current(r) /\ a = <<r, w.recycles>>
  BY <1>1 DEF Told, Current, Hears, KeepsCall
<1>3. /\ w.inbox \in Seq(Item) /\ Len(w.inbox) = Len(q.inbox) + 1
      /\ \A i \in 1 .. Len(q.inbox) : w.inbox[i] = q.inbox[i]
      /\ w.inbox[Len(q.inbox) + 1] = item
      /\ Len(q.inbox) \in Nat /\ DOMAIN q.inbox = 1 .. Len(q.inbox)
      /\ DOMAIN w.inbox = 1 .. Len(w.inbox)
  <2>1. q.inbox \in Seq(Item) /\ w.inbox = Append(q.inbox, item)
    BY <1>1, CallFacts DEF Hears
  <2>2. QED
    BY <2>1, AppendProperties, LenProperties
<1>4. /\ \A i \in DOMAIN q.inbox : q.inbox[i].of = a /\ ~Ending(q.inbox[i].kind)
      /\ \A i \in DOMAIN q.seen : q.seen[i].of = a /\ ~Ending(q.seen[i].kind)
  BY <1>2 DEF Caller, Closes
<1>5. ASSUME NEW i \in DOMAIN w.inbox
      PROVE  /\ w.inbox[i].of = a
             /\ Ending(w.inbox[i].kind) => i = Len(w.inbox) /\ ~Pending(a)'
  <2>1. i \in 1 .. Len(q.inbox) \/ i = Len(q.inbox) + 1
    BY <1>3
  <2>2. CASE i \in 1 .. Len(q.inbox)
    BY <1>3, <1>4, <2>2
  <2>3. CASE i = Len(q.inbox) + 1
    <3>1. w.inbox[i] = item /\ i = Len(w.inbox)
      BY <1>3, <2>3
    <3>2. QED
      BY <1>1, <3>1
  <2>4. QED
    BY <2>1, <2>2, <2>3
<1>6. w.seen = q.seen /\ w.pc = q.pc /\ q.pc \in {"awaiting", "streaming"}
  BY <1>1 DEF Hears
<1>7. w.pc # "streaming" => w.seen = <<>>
  BY <1>6 DEF Caller
<1>8. QED
  BY <1>2, <1>4, <1>5, <1>6, <1>7, NewCaller

(* The item that ends a response is sent when the attempt is pending no more. *)
LEMMA ToldIsPending ==
  ASSUME TypeOK, PoolInv, PendingInv, [Next]_vars, NEW s \in DOMAIN session, SessionGoesOn(s),
         request' # request
  PROVE  \E a \in Attempt, kind \in ItemKind :
           Told(a, kind) /\ Pending(a) /\ (Ending(kind) => ~Pending(a)')
<1> DEFINE S == session[s]
           T == session'[s]
<1>1. T \in SessionState /\ session[s] \in SessionState /\ OneSession(s)
  BY SessionFacts, SessionChanges DEF OneSession
<1>2. ASSUME NEW a \in Attempt, PendingIn(S, a), ~PendingIn(T, a)
      PROVE  ~Pending(a)'
  <2>1. \A t \in DOMAIN session : t # s => ~PendingIn(session[t], a)
    BY <1>2 DEF PendingInv
  <2>2. \A t \in DOMAIN session' : ~PendingIn(session'[t], a)
    BY <1>1, <1>2, <2>1, SessionReplaced
  <2>3. QED
    BY <2>2 DEF Pending, PendingIn
<1>3. CASE S.queue # <<>> /\ Told(Head(S.queue), "closed") /\ Stops(T)
  <2> DEFINE a == Head(S.queue)
  <2>1. a \in Attempt /\ 1 \in DOMAIN S.queue /\ a = S.queue[1]
    BY <1>3, SessionFacts, HeadTailProperties, EmptySeq, LenProperties
  <2>2. PendingIn(S, a)
    BY <2>1 DEF PendingIn
  <2>3. ~PendingIn(T, a)
    BY <1>1, <1>3, <2>1, StopsPending
  <2>4. QED
    BY <1>2, <1>3, <2>1, <2>2, <2>3, PendingWhere DEF ItemKind, Error
<1>4. ASSUME S.task = "forwarding", S.wire # <<>>, Told(S.serving, Head(S.wire).kind),
             \/ Stops(T)
             \/ /\ Reads(S, T) /\ ~Breaks(Head(S.wire).kind)
                /\ Terminal(Head(S.wire).kind) => T.serving = <<>>
      PROVE  \E a \in Attempt, kind \in ItemKind :
               Told(a, kind) /\ Pending(a) /\ (Ending(kind) => ~Pending(a)')
  <2> DEFINE a == S.serving
             kind == Head(S.wire).kind
  <2>1. a \in Attempt /\ PendingIn(S, a)
    BY <1>4 DEF TypeOK, PendingIn
  <2>2. kind \in ItemKind
    <3>1. Head(S.wire) \in WireItem
      BY <1>4, SessionFacts, HeadTailProperties
    <3>2. QED
      BY <3>1 DEF WireItem, ItemKind, Error
  <2>3. Ending(kind) => ~PendingIn(T, a)
    <3>1. CASE Stops(T)
      BY <1>1, <2>1, <3>1, StopsPending
    <3>2. CASE Reads(S, T) /\ ~Breaks(kind) /\ (Terminal(kind) => T.serving = <<>>)
      <4>1. Ending(kind) => T.serving = <<>>
        BY <3>2 DEF Ending
      <4>2. T.queue = S.queue /\ \A i \in DOMAIN S.queue : S.queue[i] # a
        BY <3>2 DEF Reads, PendingInv, Distinct
      <4>3. QED
        BY <2>1, <4>1, <4>2, AttemptFacts DEF PendingIn
    <3>3. QED
      BY <1>4, <3>1, <3>2
  <2>4. QED
    BY <1>2, <1>4, <2>1, <2>2, <2>3, PendingWhere
<1>5. QED
  BY <1>3, <1>4 DEF SessionGoesOn

LEMMA CallerStep ==
  ASSUME TypeOK, PoolInv, PendingInv, CallerInv, [Next]_vars
  PROVE  CallerInv'
<1>1. ASSUME NEW r \in Request, request'[r] = request[r]
      PROVE  Caller(r)'
  BY <1>1, SameCaller DEF CallerInv
<1>2. ASSUME NEW r \in Request, OneCall(r), Caller(r)'
      PROVE  CallerInv'
  BY <1>1, <1>2, CallReplaced DEF CallerInv
<1>3. ASSUME NEW r \in Request, CallGoesOn(r)
      PROVE  CallerInv'
  <2>1. Caller(r)
    BY DEF CallerInv
  <2>2. CASE Sees(request[r], request'[r])
    BY <1>2, <1>3, <2>1, <2>2, SeeingCaller DEF CallGoesOn
  <2>3. CASE ~Sees(request[r], request'[r])
    <3>1. request'[r].inbox = <<>> /\ request'[r].seen = <<>>
      BY <1>3, <2>1, <2>3 DEF CallGoesOn, Arrives, Recycles, Ends, Chooses, Caller
    <3>2. QED
      BY <1>2, <1>3, <3>1, QuietCaller DEF CallGoesOn
  <2>4. QED
    BY <2>2, <2>3
<1>4. ASSUME NEW r \in Request, CallOpens(r) \/ CallQueues(r)
      PROVE  CallerInv'
  <2>1. request'[r].inbox = <<>> /\ request'[r].seen = <<>>
    BY <1>4 DEF CallOpens, CallQueues, Dials, Queues, Caller, CallerInv
  <2>2. QED
    BY <1>2, <1>4, <2>1, QuietCaller DEF CallOpens, CallQueues
<1>5. ASSUME NEW s \in DOMAIN session, SessionGoesOn(s)
      PROVE  CallerInv'
  <2>1. CASE request' = request
    BY <1>1, <2>1 DEF CallerInv
  <2>2. CASE request' # request
    <3>1. PICK a \in Attempt, kind \in ItemKind :
            Told(a, kind) /\ Pending(a) /\ (Ending(kind) => ~Pending(a)')
      BY <1>5, <2>2, ToldIsPending
    <3>2. a[1] \in Request /\ OneCall(a[1])
      BY <3>1, AttemptFacts DEF Told
    <3>3. Caller(a[1])
      BY <3>2 DEF CallerInv
    <3>4. Caller(a[1])'
      BY <3>1, <3>2, <3>3, HearingCaller
    <3>5. QED
      BY <1>2, <3>2, <3>4
  <2>3. QED
    BY <2>1, <2>2
<1>6. CASE UNCHANGED vars
  BY <1>1, <1>6 DEF CallerInv, vars
<1>7. QED
  BY <1>3, <1>4, <1>5, <1>6, StepCases

--------------------------------------------------------------------------------
LEMMA PoolInit == Init => PoolOK
<1> SUFFICES ASSUME Init
             PROVE  PoolOK
  OBVIOUS
<1>1. pool = [k \in Key |-> 0] /\ session = <<>> /\ request = [r \in Request |-> NewRequest]
  BY DEF Init
<1>2. DOMAIN session = {} /\ session \in Seq(SessionState)
  BY <1>1
<1>3. NewRequest \in CallState /\ NewRequest.pc = "new"
  BY NewFacts DEF NewRequest
<1>4. TypeOK
  BY <1>1, <1>2, <1>3 DEF TypeOK
<1>5. SocketInv /\ PoolInv /\ DeltaInv
  BY <1>1, <1>2, <1>3 DEF SocketInv, PoolInv, DeltaInv
<1>6. PendingInv
  BY <1>2 DEF PendingInv, Pending
<1>7. CallerInv
  <2>1. DOMAIN <<>> = {}
    OBVIOUS
  <2>2. ASSUME NEW r \in Request
        PROVE  Caller(r)
    <3>1. request[r].inbox = <<>> /\ request[r].seen = <<>>
      BY <1>1, NewFacts
    <3>2. QED
      BY <2>1, <3>1 DEF Caller, Closes
  <2>3. QED
    BY <2>2 DEF CallerInv
<1>8. QED
  BY <1>4, <1>5, <1>6, <1>7 DEF PoolOK

LEMMA PoolNext == PoolOK /\ [Next]_vars => PoolOK'
BY TypeStep, SocketStep, PoolStep, PendingInvStep, DeltaStep, CallerStep DEF PoolOK

LEMMA PoolAlways == Spec => []PoolOK
BY PoolInit, PoolNext, PTL DEF Spec

(* The state is of its type, whatever the calls, the tasks and the backend do *)
(* and however their steps interleave.                                        *)
THEOREM TypeCorrect == Spec => []TypeOK
<1>1. PoolOK => TypeOK
  BY DEF PoolOK
<1>2. QED
  BY <1>1, PoolAlways, PTL

(* The task that owns a socket sends a command only when the last response    *)
(* was read to its end, so the items it forwards to a caller are never those  *)
(* of another request or the rest of an abandoned response, for any number of *)
(* requests that share a session.                                             *)
THEOREM EventsAreOwn == Spec => []OwnEventsOnly
<1>1. PoolOK => OwnEventsOnly
  <2>1. Len(<<>>) <= 1 /\ \A a \in Attempt : Len(<<a>>) <= 1
    OBVIOUS
  <2>2. ASSUME PoolOK, NEW s \in DOMAIN session
        PROVE  Len(session[s].owed) <= 1
    <3>1. session[s].owed = <<>> \/ \E a \in Attempt : session[s].owed = <<a>>
      BY <2>2 DEF PoolOK, SocketInv, Socket
    <3>2. QED
      BY ONLY <2>1, <3>1
  <2>3. ASSUME PoolOK, NEW s \in DOMAIN session, session[s].task = "forwarding",
               NEW i \in DOMAIN session[s].wire
        PROVE  session[s].wire[i].of \in {session[s].serving, <<>>}
    BY <2>3 DEF PoolOK, SocketInv, Socket, Forwarding
  <2>4. QED
    BY <2>2, <2>3 DEF OwnEventsOnly
<1>2. QED
  BY <1>1, PoolAlways, PTL

(* What a caller of send_event_stream saw is one response, that of its last   *)
(* attempt, and nothing follows the item that ends it: the transport recycles *)
(* only while nothing was relayed.                                            *)
THEOREM OneResponse == Spec => []OneResponseSeen
<1>1. PoolOK => OneResponseSeen
  <2>1. ASSUME PoolOK, NEW r \in Request, NEW i \in DOMAIN request[r].seen
        PROVE  /\ request[r].seen[i].of = Current(r)
               /\ i < Len(request[r].seen) =>
                    ~Terminal(request[r].seen[i].kind) /\ ~Breaks(request[r].seen[i].kind)
    <3>1. i \in Nat /\ Len(request[r].seen) \in Nat
      BY <2>1, CallFacts, LenProperties DEF PoolOK
    <3>2. Closes(r, request[r].seen)
      BY <2>1 DEF PoolOK, CallerInv, Caller
    <3>3. i < Len(request[r].seen) => i # Len(request[r].seen)
      BY <3>1
    <3>4. QED
      BY <3>2, <3>3 DEF Closes, Ending
  <2>2. QED
    BY <2>1 DEF OneResponseSeen
<1>2. QED
  BY <1>1, PoolAlways, PTL

(* The first command on a socket is the full request that dialed it, for any  *)
(* number of requests that race for a key: the pool never offers a session    *)
(* before that command is queued.                                             *)
THEOREM DeltasFollowFull == Spec => []DeltaNeverFirst
<1>1. PoolOK => DeltaNeverFirst
  BY DEF PoolOK, DeltaInv, Opened, DeltaNeverFirst
<1>2. QED
  BY <1>1, PoolAlways, PTL
================================================================================
