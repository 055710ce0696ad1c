---------------------------- MODULE CodexAuthProofs ----------------------------
(***************************************************************************)
(* Theorems about CodexAuth, for every set of calls and processes and any  *)
(* number of tokens: what a process presents to the token endpoint, and    *)
(* what it sends a second time.                                            *)
(*                                                                         *)
(* The argument: an access token is minted once and reaches auth.json at   *)
(* most once, by the login or the refresh that it was minted for.  So what *)
(* auth.json held and holds no longer never comes back, and what a process *)
(* remembers of it (a refusal, a successor, a 401) stays true.  The lock   *)
(* keeps the rest of the process from learning anything while one of its   *)
(* calls is between its first reading of the file and the answer.          *)
(***************************************************************************)
EXTENDS CodexAuth, TLAPS

Pc == {"new", "sending", "resending", "waiting", "comparing", "refreshing", "answered",
       "reloading", "leaving", "revoking", "login", "over"}

CallState ==
  [pc : Pc, access : Token, rejected : Token, before : Contents, answer : Contents]

TypeOK ==
  /\ file \in Contents
  /\ call \in [Call -> CallState]
  /\ lock \in [Process -> Call \cup {Nobody}]
  /\ failure \in [Process -> Contents]
  /\ minted \in Token \ {0}
  /\ expired \in Token
  /\ valid \subseteq Token
  /\ rotates \in BOOLEAN
  /\ spent \in [Process -> SUBSET Token]
  /\ refused \in [Process -> SUBSET Contents]

(* Contents that some auth.json may hold: their tokens were minted, and a     *)
(* rotating refresh token came with its access token.                         *)
Sound(x) ==
  \/ x \in {Absent, ApiKey}
  \/ /\ Usable(x) /\ x.access \in 1..minted /\ x.refresh \in 1..minted
     /\ rotates => x.refresh = x.access

SoundInv ==
  /\ Sound(file)
  /\ \A c \in Call : /\ Sound(call[c].before) /\ Sound(call[c].answer)
                     /\ call[c].access <= minted /\ call[c].rejected <= minted
  /\ \A p \in Process : /\ \A x \in refused[p] : Usable(x) /\ Sound(x)
                        /\ \A t \in spent[p] : rotates /\ t <= minted

(* The calls that hold their process's lock. *)
Holds(c) == call[c].pc \in {"comparing", "refreshing", "answered"}

LockInv ==
  \A c \in Call :
    /\ Holds(c) => lock[ProcessOf[c]] = c
    /\ call[c].pc \in {"refreshing", "answered"} => Usable(call[c].before)
    /\ call[c].pc = "answered" /\ Usable(call[c].answer) /\ ~rotates =>
         call[c].answer.refresh = call[c].before.refresh

(* Granted tokens that were not written yet are known to nobody else.         *)
Granted(c) == call[c].pc = "answered" /\ Usable(call[c].answer)

FreshInv ==
  \A c \in Call : Granted(c) =>
    LET new == call[c].answer.access IN
    /\ file.access # new
    /\ \A d \in Call : /\ call[d].before.access # new
                       /\ call[d].access # new /\ call[d].rejected # new
                       /\ d # c /\ Granted(d) => call[d].answer.access # new
    /\ \A p \in Process : new \notin spent[p] /\ \A x \in refused[p] : x.access # new

(* What auth.json holds was not superseded; what it holds and was refused is  *)
(* remembered as the failure; and while a call holds the lock, neither the    *)
(* file nor what the call read is spent or refused.                           *)
KnownInv ==
  /\ \A p \in Process : /\ Usable(file) => file.refresh \notin spent[p]
                        /\ file \in refused[p] => failure[p] = file
  /\ \A c \in Call : Holds(c) =>
       /\ file \notin refused[ProcessOf[c]]
       /\ call[c].before \notin refused[ProcessOf[c]]
       /\ Usable(call[c].before) => call[c].before.refresh \notin spent[ProcessOf[c]]

(* A token that was answered 401 stays in auth.json or never comes back.      *)
RetryInv ==
  \A c \in Call :
    /\ call[c].pc = "comparing" /\ Usable(file) /\ file.access = call[c].rejected =>
         file = call[c].before
    /\ call[c].pc = "reloading" /\ Usable(file) => file.access # call[c].rejected
    /\ call[c].pc = "resending" => call[c].access # call[c].rejected

AuthInv == TypeOK /\ SoundInv /\ LockInv /\ FreshInv /\ KnownInv /\ RetryInv

--------------------------------------------------------------------------------
LEMMA ContentsFacts ==
  /\ 0 \in Token
  /\ Absent \in Contents /\ ApiKey \in Contents
  /\ \A a, t \in Token : Chatgpt(a, t) \in Contents
  /\ \A x \in Contents : x.access \in Token /\ x.refresh \in Token
BY CallAssumption DEF Token, Contents, Absent, ApiKey, Chatgpt

LEMMA MintedFacts ==
  ASSUME TypeOK, minted < MaxTokens
  PROVE  minted + 1 \in Token \ {0}
BY CallAssumption DEF TypeOK, Token

(* What a step makes of the record of the call it is a step of.               *)
Moved(c, pc, access, rejected, before, answer) ==
  /\ call' = [call EXCEPT ![c] = call'[c]]
  /\ call'[c] \in [pc : {pc}, access : {access}, rejected : {rejected},
                   before : {before}, answer : {answer}]

Ends(c) == Moved(c, "over", 0, 0, Absent, Absent)

LEMMA OverMoves ==
  ASSUME call \in [Call -> CallState], NEW c \in Call, call' = Over(c)
  PROVE  Ends(c)
BY DEF Over, NewCall, Ends, Moved, CallState

LEMMA GotoMoves ==
  ASSUME call \in [Call -> CallState], NEW c \in Call, NEW pc, call' = Goto(c, pc)
  PROVE  Moved(c, pc, call[c].access, call[c].rejected, call[c].before, call[c].answer)
BY DEF Goto, Moved, CallState

LEMMA LaterMoves ==
  ASSUME call \in [Call -> CallState], NEW c \in Call, NEW pc, call' = Later(c, pc)
  PROVE  Moved(c, pc, call[c].access, call[c].rejected, Absent, Absent)
BY DEF Later, Moved, CallState

LEMMA NotRefreshedMoves ==
  ASSUME call \in [Call -> CallState], NEW c \in Call, NEW permanent, call' = NotRefreshed(c, permanent)
  PROVE  \/ Ends(c)
         \/ \E pc \in {"leaving", "login"} :
              Moved(c, pc, call[c].access, call[c].rejected, Absent, Absent)
<1>1. call' = Over(c) \/ \E pc \in {"leaving", "login"} : call' = Later(c, pc)
  BY DEF NotRefreshed
<1>2. QED
  BY <1>1, OverMoves, LaterMoves

LEMMA RefreshedMoves ==
  ASSUME call \in [Call -> CallState], NEW c \in Call, call' = Refreshed(c)
  PROVE  \/ Ends(c)
         \/ Moved(c, "reloading", call[c].access, call[c].rejected, Absent, Absent)
<1>1. call' = Over(c) \/ call' = Later(c, "reloading")
  BY DEF Refreshed
<1>2. QED
  BY <1>1, OverMoves, LaterMoves

(* The grant of a new access token, with a new refresh token or the old one.  *)
Grants(c) ==
  /\ minted < MaxTokens /\ minted' = minted + 1
  /\ LET next == IF rotates THEN minted + 1 ELSE call[c].before.refresh IN
       Moved(c, "answered", call[c].access, call[c].rejected, call[c].before,
             Chatgpt(minted + 1, next))

(* Every step of a call, as what it does to the call's record.                *)
Outcome(c) ==
  LET o == call[c] IN
  \/ Ends(c)
  \/ /\ Begin(c) /\ Usable(file)
     /\ Moved(c, "sending", file.access, o.rejected, o.before, o.answer)
  \/ /\ Begin(c)
     /\ \E pc \in {"login", "waiting"} : Moved(c, pc, o.access, o.rejected, o.before, o.answer)
  \/ BackendAnswers(c) /\ Moved(c, "waiting", 0, o.access, o.before, o.answer)
  \/ Reload(c) /\ Usable(file) /\ Moved(c, "resending", file.access, o.rejected, o.before, o.answer)
  \/ /\ Ask(c) /\ file \notin {Absent, failure[ProcessOf[c]]}
     /\ Moved(c, "comparing", o.access, o.rejected, file, o.answer)
  \/ /\ Ask(c) \/ Compare(c) \/ Settle(c)
     /\ \E pc \in {"leaving", "login"} : Moved(c, pc, o.access, o.rejected, Absent, Absent)
  \/ /\ Compare(c) /\ file # o.before /\ Usable(file)
     /\ Moved(c, "reloading", o.access, o.rejected, Absent, Absent)
  \/ Settle(c) /\ Usable(o.answer) /\ Moved(c, "reloading", o.access, o.rejected, Absent, Absent)
  \/ /\ Compare(c) /\ file = o.before /\ Usable(file)
     /\ Moved(c, "refreshing", o.access, o.rejected, o.before, o.answer)
  \/ /\ TokenEndpoint(c) /\ minted' = minted
     /\ \E answer \in {Absent, ApiKey} :
          Moved(c, "answered", o.access, o.rejected, o.before, answer)
  \/ TokenEndpoint(c) /\ minted' = minted + 1
     /\ Moved(c, "answered", o.access, o.rejected, o.before, ApiKey)
  \/ TokenEndpoint(c) /\ Grants(c)
  \/ Leave(c) /\ Usable(file) /\ Moved(c, "revoking", o.access, o.rejected, file, o.answer)

LEMMA CallOutcome ==
  ASSUME TypeOK, NEW c \in Call, Advance(c)
  PROVE  Outcome(c)
<1> DEFINE o == call[c]
<1>1. call \in [Call -> CallState]
  BY DEF TypeOK
<1>2. CASE Begin(c)
  <2>1. CASE call' = [call EXCEPT ![c].pc = "sending", ![c].access = file.access] /\ Usable(file)
    <3>1. Moved(c, "sending", file.access, o.rejected, o.before, o.answer)
      BY ONLY <1>1, <2>1, c \in Call DEF Moved, CallState
    <3>2. QED
      BY <1>2, <2>1, <3>1 DEF Outcome
  <2>2. CASE call' = Over(c)
    BY <1>1, <2>2, OverMoves DEF Outcome
  <2>3. CASE \E pc \in {"login", "waiting"} : call' = Goto(c, pc)
    BY <1>1, <1>2, <2>3, GotoMoves DEF Outcome
  <2>4. QED
    BY <1>2, <2>1, <2>2, <2>3 DEF Begin
<1>3. CASE BackendAnswers(c)
  <2>1. CASE call' = [call EXCEPT ![c].pc = "waiting", ![c].rejected = call[c].access,
                                  ![c].access = 0]
    <3>1. Moved(c, "waiting", 0, o.access, o.before, o.answer)
      BY ONLY <1>1, <2>1, c \in Call DEF Moved, CallState
    <3>2. QED
      BY <1>3, <3>1 DEF Outcome
  <2>2. CASE call' = Over(c)
    BY <1>1, <2>2, OverMoves DEF Outcome
  <2>3. QED
    BY <1>3, <2>1, <2>2 DEF BackendAnswers
<1>4. CASE Reload(c)
  <2>1. CASE call' = [call EXCEPT ![c].pc = "resending", ![c].access = file.access] /\ Usable(file)
    <3>1. Moved(c, "resending", file.access, o.rejected, o.before, o.answer)
      BY ONLY <1>1, <2>1, c \in Call DEF Moved, CallState
    <3>2. QED
      BY <1>4, <2>1, <3>1 DEF Outcome
  <2>2. CASE call' = Over(c)
    BY <1>1, <2>2, OverMoves DEF Outcome
  <2>3. QED
    BY <1>4, <2>1, <2>2 DEF Reload
<1>5. CASE Ask(c)
  <2>1. CASE /\ call' = [call EXCEPT ![c].pc = "comparing", ![c].before = file]
             /\ file \notin {Absent, failure[ProcessOf[c]]}
    <3>1. Moved(c, "comparing", o.access, o.rejected, file, o.answer)
      BY ONLY <1>1, <2>1, c \in Call DEF Moved, CallState
    <3>2. QED
      BY <1>5, <2>1, <3>1 DEF Outcome
  <2>2. CASE \E permanent : call' = NotRefreshed(c, permanent)
    BY <1>1, <1>5, <2>2, NotRefreshedMoves DEF Outcome
  <2>3. QED
    BY <1>5, <2>1, <2>2 DEF Ask
<1>6. CASE Compare(c)
  <2>1. CASE call' = Refreshed(c) /\ file # o.before /\ Usable(file)
    BY <1>1, <1>6, <2>1, RefreshedMoves DEF Outcome
  <2>2. CASE \E permanent : call' = NotRefreshed(c, permanent)
    BY <1>1, <1>6, <2>2, NotRefreshedMoves DEF Outcome
  <2>3. CASE call' = Goto(c, "refreshing") /\ file = o.before /\ Usable(file)
    BY <1>1, <1>6, <2>3, GotoMoves DEF Outcome
  <2>4. QED
    BY <1>6, <2>1, <2>2, <2>3 DEF Compare
<1>7. CASE TokenEndpoint(c)
  <2>1. ASSUME NEW answer, Answered(c, answer)
        PROVE  Moved(c, "answered", o.access, o.rejected, o.before, answer)
    BY ONLY <1>1, <2>1, c \in Call DEF Answered, Moved, CallState
  <2>2. CASE minted' = minted /\ \E answer \in {Absent, ApiKey} : Answered(c, answer)
    BY <1>7, <2>1, <2>2 DEF Outcome
  <2>3. CASE minted' = minted + 1 /\ Answered(c, ApiKey)
    BY <1>7, <2>1, <2>3 DEF Outcome
  <2>4. CASE /\ minted < MaxTokens /\ minted' = minted + 1
             /\ Answered(c, Chatgpt(minted + 1,
                                    IF rotates THEN minted + 1 ELSE call[c].before.refresh))
    BY <1>7, <2>1, <2>4 DEF Outcome, Grants
  <2>5. QED
    BY <1>7, <2>2, <2>3, <2>4 DEF TokenEndpoint
<1>8. CASE Settle(c)
  <2>1. CASE call' = Refreshed(c) /\ Usable(o.answer)
    BY <1>1, <1>8, <2>1, RefreshedMoves DEF Outcome
  <2>2. CASE \E permanent : call' = NotRefreshed(c, permanent)
    BY <1>1, <1>8, <2>2, NotRefreshedMoves DEF Outcome
  <2>3. QED
    BY <1>8, <2>1, <2>2 DEF Settle
<1>9. CASE Leave(c)
  <2>1. CASE call' = [call EXCEPT ![c].pc = "revoking", ![c].before = file] /\ Usable(file)
    <3>1. Moved(c, "revoking", o.access, o.rejected, file, o.answer)
      BY ONLY <1>1, <2>1, c \in Call DEF Moved, CallState
    <3>2. QED
      BY <1>9, <2>1, <3>1 DEF Outcome
  <2>2. CASE call' = Over(c)
    BY <1>1, <2>2, OverMoves DEF Outcome
  <2>3. QED
    BY <1>9, <2>1, <2>2 DEF Leave
<1>10. CASE Revoke(c) \/ StartLogin(c)
  BY <1>1, <1>10, OverMoves DEF Revoke, StartLogin, Outcome
<1>11. QED
  BY <1>2, <1>3, <1>4, <1>5, <1>6, <1>7, <1>8, <1>9, <1>10 DEF Advance, Refresh

(* A step of a call leaves the other calls alone. *)
LEMMA OneMoves ==
  ASSUME TypeOK, NEW c \in Call, Advance(c)
  PROVE  call' = [call EXCEPT ![c] = call'[c]]
BY CallOutcome DEF Outcome, Ends, Moved, Grants

LEMMA MoveType ==
  ASSUME call \in [Call -> CallState], NEW c \in Call,
         NEW pc \in Pc, NEW access \in Token, NEW rejected \in Token,
         NEW before \in Contents, NEW answer \in Contents,
         Moved(c, pc, access, rejected, before, answer)
  PROVE  call' \in [Call -> CallState]
BY DEF Moved, CallState

LEMMA CallType ==
  ASSUME TypeOK, NEW c \in Call, Advance(c)
  PROVE  call' \in [Call -> CallState]
<1> DEFINE o == call[c]
<1>1. /\ call \in [Call -> CallState] /\ o.pc \in Pc /\ o.access \in Token /\ o.rejected \in Token
      /\ o.before \in Contents /\ o.answer \in Contents /\ file \in Contents /\ file.access \in Token
  BY ContentsFacts DEF TypeOK, CallState
<1>2. {"over", "sending", "resending", "waiting", "comparing", "refreshing", "answered", "reloading",
       "leaving", "revoking", "login"} \subseteq Pc
  BY DEF Pc
<1>3. CASE Grants(c)
  <2>1. minted + 1 \in Token
    BY <1>3, MintedFacts DEF Grants
  <2>2. Chatgpt(minted + 1, IF rotates THEN minted + 1 ELSE o.before.refresh) \in Contents
    BY <1>1, <2>1, ContentsFacts
  <2>3. QED
    BY <1>1, <1>2, <1>3, <2>2, MoveType DEF Grants
<1>4. CASE ~Grants(c)
  <2>1. PICK pc \in Pc, access \in Token, rejected \in Token, before \in Contents, answer \in Contents :
          Moved(c, pc, access, rejected, before, answer)
    BY <1>1, <1>2, <1>4, ContentsFacts, CallOutcome DEF Outcome, Ends
  <2>2. QED
    BY <1>1, <2>1, MoveType
<1>5. QED
  BY <1>3, <1>4

(* auth.json, the counters and the logins under way keep their types. *)
LEMMA TypeStep ==
  ASSUME TypeOK, [Next]_vars
  PROVE  TypeOK'
<1> USE DEF TypeOK, local, server, past
<1>1. CASE \E c \in Call : Advance(c)
  <2>1. PICK c \in Call : Advance(c)
    BY <1>1
  <2>2. /\ call[c] \in CallState /\ call[c].answer \in Contents
        /\ call[c].before \in Contents /\ call[c].before.refresh \in Token
    BY ContentsFacts DEF CallState
  <2>3. ProcessOf[c] \in Process
    BY DEF Process
  <2>4. call' \in [Call -> CallState]
    BY <2>1, CallType
  <2>5. CASE Begin(c) \/ BackendAnswers(c) \/ Reload(c)
    BY <2>4, <2>5 DEF Begin, BackendAnswers, Reload
  <2>6. CASE Ask(c)
    BY <2>3, <2>4, <2>6 DEF Ask
  <2>7. CASE Compare(c)
    <3>1. lock' \in [Process -> Call \cup {Nobody}]
      BY <2>3, <2>7 DEF Compare, Unlock
    <3>2. failure' \in [Process -> Contents]
      BY <2>3, <2>7, ContentsFacts DEF Compare, Forget
    <3>3. QED
      BY <2>4, <2>7, <3>1, <3>2 DEF Compare
  <2>8. CASE TokenEndpoint(c)
    <3>1. CASE minted' = minted /\ valid' = valid
      BY <2>4, <2>8, <3>1 DEF TokenEndpoint
    <3>2. CASE minted < MaxTokens
      BY <2>2, <2>4, <2>8, <3>2, MintedFacts DEF TokenEndpoint
    <3>3. QED
      BY <2>8, <3>1, <3>2 DEF TokenEndpoint
  <2>9. CASE Settle(c)
    <3>1. lock' \in [Process -> Call \cup {Nobody}]
      BY <2>3, <2>9 DEF Settle, Unlock
    <3>2. failure' \in [Process -> Contents]
      BY <2>2, <2>3, <2>9, ContentsFacts DEF Settle, Forget
    <3>3. spent' \in [Process -> SUBSET Token]
      <4>1. spent' \in {spent, [spent EXCEPT ![ProcessOf[c]] = @ \cup {call[c].before.refresh}]}
        BY ONLY <2>9 DEF Settle, past
      <4>2. QED
        BY ONLY <2>2, <2>3, <4>1, spent \in [Process -> SUBSET Token]
    <3>4. refused' \in [Process -> SUBSET Contents]
      <4>1. refused' \in {refused, [refused EXCEPT ![ProcessOf[c]] = @ \cup {call[c].before}]}
        BY ONLY <2>9 DEF Settle, past
      <4>2. QED
        BY ONLY <2>2, <2>3, <4>1, refused \in [Process -> SUBSET Contents]
    <3>5. file' \in Contents
      BY <2>2, <2>9 DEF Settle
    <3>6. QED
      BY <2>4, <2>9, <3>1, <3>2, <3>3, <3>4, <3>5 DEF Settle
  <2>10. CASE Leave(c) \/ Revoke(c)
    BY <2>4, <2>10, ContentsFacts DEF Leave, Revoke
  <2>11. CASE StartLogin(c)
    BY <2>4, <2>11, MintedFacts, ContentsFacts DEF StartLogin, Minted
  <2>12. QED
    BY <2>1, <2>5, <2>6, <2>7, <2>8, <2>9, <2>10, <2>11 DEF Advance, Refresh
<1>2. CASE Login
  BY <1>2, MintedFacts, ContentsFacts DEF Login, Minted
<1>3. CASE Delete
  BY <1>3, ContentsFacts DEF Delete
<1>4. CASE Expire
  <2>1. expired < minted => expired + 1 \in Token
    BY CallAssumption DEF Token
  <2>2. QED
    BY <1>4, <2>1 DEF Expire
<1>5. CASE UNCHANGED vars
  BY <1>5 DEF vars
<1>6. QED
  BY <1>1, <1>2, <1>3, <1>4, <1>5 DEF Next

LEMMA TypeInit == Init => TypeOK
<1>1. Chatgpt(1, 1) \in Contents /\ 1 \in Token \ {0}
  BY CallAssumption DEF Chatgpt, Contents, Token
<1>2. NewCall \in CallState
  BY ContentsFacts DEF NewCall, CallState, Pc
<1>3. QED
  BY <1>1, <1>2, ContentsFacts DEF Init, TypeOK

(* The state is of its type, whatever the calls do and however their steps    *)
(* interleave.                                                                *)
THEOREM TypeCorrect == Spec => []TypeOK
BY TypeInit, TypeStep, PTL DEF Spec

--------------------------------------------------------------------------------
(* Who writes auth.json, and with what.                                       *)
LEMMA FileEffect ==
  ASSUME TypeOK, [Next]_vars
  PROVE  /\ rotates' = rotates /\ minted' \in {minted, minted + 1}
         /\ \/ file' \in {file, Absent, ApiKey}
            \/ file' = Chatgpt(minted + 1, minted + 1) /\ minted' = minted + 1
            \/ \E c \in Call : Settle(c) /\ Granted(c) /\ file' = call[c].answer
<1>1. ASSUME NEW c \in Call, Advance(c)
      PROVE  /\ rotates' = rotates /\ minted' \in {minted, minted + 1}
             /\ \/ file' \in {file, Absent, ApiKey}
                \/ file' = Chatgpt(minted + 1, minted + 1) /\ minted' = minted + 1
                \/ Settle(c) /\ Granted(c) /\ file' = call[c].answer
  BY <1>1 DEF Advance, Refresh, Begin, BackendAnswers, Reload, Ask, Compare, TokenEndpoint, Settle,
              Leave, Revoke, StartLogin, Minted, Granted, At, server
<1>2. QED
  BY <1>1 DEF Next, Login, Delete, Expire, Minted, vars, server

(* What a process remembers grows only when a call of it settles.             *)
LEMMA PastEffect ==
  ASSUME [Next]_vars
  PROVE  \/ spent' = spent /\ refused' = refused
         \/ \E c \in Call :
              /\ Settle(c) /\ Granted(c) /\ file' = call[c].answer /\ refused' = refused
              /\ call[c].answer.refresh # call[c].before.refresh
              /\ spent' = [spent EXCEPT ![ProcessOf[c]] = @ \cup {call[c].before.refresh}]
         \/ \E c \in Call :
              /\ Settle(c) /\ file' = file /\ spent' = spent
              /\ refused' = [refused EXCEPT ![ProcessOf[c]] = @ \cup {call[c].before}]
              /\ failure' = [failure EXCEPT ![ProcessOf[c]] = call[c].before]
<1>1. ASSUME NEW c \in Call, Settle(c)
      PROVE  \/ spent' = spent /\ refused' = refused
             \/ /\ Settle(c) /\ Granted(c) /\ file' = call[c].answer /\ refused' = refused
                /\ call[c].answer.refresh # call[c].before.refresh
                /\ spent' = [spent EXCEPT ![ProcessOf[c]] = @ \cup {call[c].before.refresh}]
             \/ /\ Settle(c) /\ file' = file /\ spent' = spent
                /\ refused' = [refused EXCEPT ![ProcessOf[c]] = @ \cup {call[c].before}]
                /\ failure' = [failure EXCEPT ![ProcessOf[c]] = call[c].before]
  BY <1>1 DEF Settle, Granted, At, past
<1>2. ASSUME NEW c \in Call, Advance(c), ~Settle(c) PROVE spent' = spent /\ refused' = refused
  BY <1>2 DEF Advance, Refresh, Begin, BackendAnswers, Reload, Ask, Compare, TokenEndpoint,
              Leave, Revoke, StartLogin, past
<1>3. QED
  BY <1>1, <1>2 DEF Next, Login, Delete, Expire, vars, past

(* What a step makes of the record of any one call.                           *)
LEMMA CallFields ==
  ASSUME TypeOK, [Next]_vars, NEW d \in Call
  PROVE  /\ call'[d].access \in {0, call[d].access, file.access}
         /\ call'[d].rejected \in {0, call[d].rejected, call[d].access}
         /\ call'[d].before \in {Absent, call[d].before, file}
         /\ call'[d].answer \in {Absent, ApiKey, call[d].answer} \/ (TokenEndpoint(d) /\ Grants(d))
<1>1. CASE call'[d] = call[d]
  BY <1>1
<1>2. CASE Advance(d)
  <2>1. CASE TokenEndpoint(d) /\ Grants(d)
    BY <2>1 DEF Grants, Moved
  <2>2. CASE ~(TokenEndpoint(d) /\ Grants(d))
    <3>1. PICK pc \in Pc, access \in {0, call[d].access, file.access},
               rejected \in {0, call[d].rejected, call[d].access},
               before \in {Absent, call[d].before, file},
               answer \in {Absent, ApiKey, call[d].answer} :
            Moved(d, pc, access, rejected, before, answer)
      BY <1>2, <2>2, CallOutcome DEF Outcome, Ends, Pc
    <3>2. QED
      BY ONLY <3>1 DEF Moved
  <2>3. QED
    BY <2>1, <2>2
<1>3. ASSUME NEW c \in Call, Advance(c), c # d PROVE call'[d] = call[d]
  BY <1>3, OneMoves DEF TypeOK
<1>4. QED
  BY <1>1, <1>2, <1>3 DEF Next, Login, Delete, Expire, vars

(* How a call comes to hold the lock, and to tokens it has still to write.    *)
LEMMA CallPc ==
  ASSUME TypeOK, [Next]_vars, NEW d \in Call
  PROVE  /\ Granted(d)' => \/ Granted(d) /\ call'[d] = call[d]
                           \/ TokenEndpoint(d) /\ Grants(d)
         /\ Holds(d)' => \/ Holds(d) /\ call'[d].before = call[d].before
                         \/ /\ Ask(d) /\ file \notin {Absent, failure[ProcessOf[d]]}
                            /\ call'[d].before = file
<1>1. CASE call'[d] = call[d]
  BY <1>1 DEF Granted, Holds
<1>2. CASE Advance(d)
  <2>1. CASE TokenEndpoint(d) /\ Grants(d)
    BY <2>1 DEF Grants, Moved, TokenEndpoint, At, Holds
  <2>2. CASE ~(TokenEndpoint(d) /\ Grants(d))
    <3>1. PICK pc, access, rejected, before, answer :
            /\ Moved(d, pc, access, rejected, before, answer)
            /\ pc = "comparing" => /\ Ask(d) /\ file \notin {Absent, failure[ProcessOf[d]]}
                                   /\ before = file
            /\ pc \in {"refreshing", "answered"} => /\ Compare(d) \/ TokenEndpoint(d)
                                                    /\ before = call[d].before
            /\ pc = "answered" => answer \in {Absent, ApiKey}
      BY <1>2, <2>2, CallOutcome DEF Outcome, Ends
    <3>2. call'[d].pc = pc /\ call'[d].before = before /\ call'[d].answer = answer
      BY ONLY <3>1 DEF Moved
    <3>3. Compare(d) \/ TokenEndpoint(d) => Holds(d)
      BY DEF Compare, TokenEndpoint, At, Holds
    <3>4. ~Usable(Absent) /\ ~Usable(ApiKey)
      BY DEF Usable, Absent, ApiKey
    <3>5. QED
      BY ONLY <3>1, <3>2, <3>3, <3>4 DEF Granted, Holds
  <2>3. QED
    BY <2>1, <2>2
<1>3. ASSUME NEW c \in Call, Advance(c), c # d PROVE call'[d] = call[d]
  BY <1>3, OneMoves DEF TypeOK
<1>4. QED
  BY <1>1, <1>2, <1>3 DEF Next, Login, Delete, Expire, vars

--------------------------------------------------------------------------------
LEMMA SoundStays ==
  ASSUME TypeOK, [Next]_vars, NEW x, Sound(x)
  PROVE  Sound(x)'
BY FileEffect DEF TypeOK, Token, Sound, Usable

LEMMA SoundBounds ==
  ASSUME TypeOK, NEW x, Sound(x)
  PROVE  x.access \in 0..minted /\ x.refresh \in 0..minted
BY DEF TypeOK, Token, Sound, Absent, ApiKey

LEMMA SoundNew ==
  ASSUME TypeOK, [Next]_vars, minted' = minted + 1, NEW t \in 1..(minted + 1),
         rotates => t = minted + 1, NEW x, x = Chatgpt(minted + 1, t)
  PROVE  Sound(x)'
BY FileEffect DEF TypeOK, Token, Sound, Usable, Chatgpt

LEMMA SoundStep ==
  ASSUME TypeOK, [Next]_vars, SoundInv, LockInv
  PROVE  SoundInv'
<1>0. minted \in Nat /\ minted' \in Nat /\ minted <= minted' /\ rotates' = rotates
  BY FileEffect DEF TypeOK, Token
<1>1. Sound(Absent)' /\ Sound(ApiKey)'
  BY DEF Sound
<1>2. Sound(file)'
  <2>1. CASE file' \in {file, Absent, ApiKey}
    BY <1>1, <2>1, SoundStays DEF SoundInv
  <2>2. CASE file' = Chatgpt(minted + 1, minted + 1) /\ minted' = minted + 1
    BY <1>0, <2>2, SoundNew
  <2>3. ASSUME NEW c \in Call, file' = call[c].answer PROVE Sound(file)'
    BY <2>3, SoundStays DEF SoundInv
  <2>4. QED
    BY <2>1, <2>2, <2>3, FileEffect
<1>3. ASSUME NEW d \in Call
      PROVE  /\ Sound(call[d].before)' /\ Sound(call[d].answer)'
             /\ call'[d].access <= minted' /\ call'[d].rejected <= minted'
  <2>1. call[d].access \in Token /\ call[d].rejected \in Token
    BY DEF TypeOK, CallState
  <2>2. file.access \in 0..minted
    BY SoundBounds DEF SoundInv
  <2>3. call'[d].access <= minted' /\ call'[d].rejected <= minted'
    BY <1>0, <2>1, <2>2, CallFields DEF SoundInv, Token
  <2>4. Sound(call[d].before)'
    BY <1>1, SoundStays, CallFields DEF SoundInv
  <2>5. Sound(call[d].answer)'
    <3>1. CASE call'[d].answer \in {Absent, ApiKey, call[d].answer}
      BY <1>1, <3>1, SoundStays DEF SoundInv
    <3>2. CASE TokenEndpoint(d) /\ Grants(d)
      <4>1. call[d].before.refresh \in 1..minted
        BY <3>2 DEF TokenEndpoint, At, LockInv, SoundInv, Sound, Usable, Absent, ApiKey
      <4>2. PICK t \in 1..(minted + 1) :
              t = IF rotates THEN minted + 1 ELSE call[d].before.refresh
        BY <1>0, <4>1
      <4>3. call'[d].answer = Chatgpt(minted + 1, t)
        BY <3>2, <4>2 DEF Grants, Moved
      <4>4. minted' = minted + 1 /\ (rotates => t = minted + 1)
        BY <3>2, <4>2 DEF Grants
      <4>5. QED
        BY <4>2, <4>3, <4>4, SoundNew
    <3>3. QED
      BY <3>1, <3>2, CallFields
  <2>6. QED
    BY <2>3, <2>4, <2>5
<1>4. ASSUME NEW p \in Process
      PROVE  /\ \A x \in refused'[p] : Usable(x) /\ Sound(x)'
             /\ \A t \in spent'[p] : rotates' /\ t <= minted'
  <2>0. spent \in [Process -> SUBSET Token] /\ refused \in [Process -> SUBSET Contents]
    BY DEF TypeOK
  <2>1. CASE spent' = spent /\ refused' = refused
    BY <1>0, <2>0, <2>1, SoundStays DEF SoundInv, Token
  <2>2. ASSUME NEW c \in Call, Settle(c), Granted(c), refused' = refused,
               call[c].answer.refresh # call[c].before.refresh,
               spent' = [spent EXCEPT ![ProcessOf[c]] = @ \cup {call[c].before.refresh}]
        PROVE  /\ \A x \in refused'[p] : Usable(x) /\ Sound(x)'
               /\ \A t \in spent'[p] : rotates' /\ t <= minted'
    <3>1. rotates
      BY <2>2 DEF Granted, LockInv
    <3>2. call[c].before.refresh \in 0..minted
      BY SoundBounds DEF SoundInv
    <3>3. \A t \in spent'[p] : t \in spent[p] \/ t = call[c].before.refresh
      BY ONLY <2>0, <2>2, p \in Process
    <3>4. QED
      BY <1>0, <2>0, <2>2, <3>1, <3>2, <3>3, SoundStays DEF SoundInv, Token
  <2>3. ASSUME NEW c \in Call, Settle(c), spent' = spent,
               refused' = [refused EXCEPT ![ProcessOf[c]] = @ \cup {call[c].before}]
        PROVE  /\ \A x \in refused'[p] : Usable(x) /\ Sound(x)'
               /\ \A t \in spent'[p] : rotates' /\ t <= minted'
    <3>1. Usable(call[c].before) /\ Sound(call[c].before)
      BY <2>3 DEF Settle, At, LockInv, SoundInv
    <3>2. \A x \in refused'[p] : x \in refused[p] \/ x = call[c].before
      BY ONLY <2>0, <2>3, p \in Process
    <3>3. \A x \in refused'[p] : Usable(x) /\ Sound(x)
      BY <3>1, <3>2 DEF SoundInv
    <3>4. QED
      BY <1>0, <2>0, <2>3, <3>3, SoundStays DEF SoundInv, Token
  <2>4. QED
    BY <2>1, <2>2, <2>3, PastEffect
<1>5. QED
  BY <1>2, <1>3, <1>4 DEF SoundInv

--------------------------------------------------------------------------------
(* A call that was told the result of its refresh has left the lock.          *)
LEMMA Released ==
  ASSUME call \in [Call -> CallState], NEW c \in Call,
         call' = Refreshed(c) \/ \E permanent : call' = NotRefreshed(c, permanent)
  PROVE  ~Holds(c)'
<1>1. \E pc \in {"over", "reloading", "leaving", "login"} :
        Ends(c) \/ Moved(c, pc, call[c].access, call[c].rejected, Absent, Absent)
  BY RefreshedMoves, NotRefreshedMoves
<1>2. call'[c].pc \in {"over", "reloading", "leaving", "login"}
  BY <1>1 DEF Ends, Moved
<1>3. QED
  BY <1>2 DEF Holds

LEMMA LockEffect ==
  ASSUME TypeOK, NEW c \in Call, Advance(c)
  PROVE  \/ lock' = lock /\ (Holds(c)' => Holds(c))
         \/ lock[ProcessOf[c]] = Nobody /\ lock' = [lock EXCEPT ![ProcessOf[c]] = c]
         \/ Holds(c) /\ ~Holds(c)' /\ lock' = [lock EXCEPT ![ProcessOf[c]] = Nobody]
<1>1. call \in [Call -> CallState]
  BY DEF TypeOK
<1>2. CASE Ask(c)
  <2>1. CASE call' = NotRefreshed(c, file # Absent) /\ lock' = lock
    BY <1>1, <2>1, Released
  <2>2. QED
    BY <1>2, <2>1 DEF Ask
<1>3. CASE Compare(c)
  <2>1. Holds(c)
    BY <1>3 DEF Compare, At, Holds
  <2>2. CASE Unlock(c) /\ (call' = Refreshed(c) \/ \E permanent : call' = NotRefreshed(c, permanent))
    BY <1>1, <2>1, <2>2, Released DEF Unlock
  <2>3. QED
    BY <1>3, <2>1, <2>2 DEF Compare, local
<1>4. CASE Settle(c)
  <2>1. Holds(c)
    BY <1>4 DEF Settle, At, Holds
  <2>2. Unlock(c) /\ (call' = Refreshed(c) \/ \E permanent : call' = NotRefreshed(c, permanent))
    BY <1>4 DEF Settle
  <2>3. QED
    BY <1>1, <2>1, <2>2, Released DEF Unlock
<1>5. CASE lock' = lock /\ ~Ask(c)
  BY <1>5, CallPc DEF Next
<1>6. CASE ~Ask(c) /\ ~Compare(c) /\ ~Settle(c)
  BY <1>5, <1>6 DEF Advance, Refresh, Begin, BackendAnswers, Reload, TokenEndpoint, Leave, Revoke,
                    StartLogin, local
<1>7. QED
  BY <1>2, <1>3, <1>4, <1>6

LEMMA LockStep ==
  ASSUME TypeOK, [Next]_vars, LockInv
  PROVE  LockInv'
<1> SUFFICES ASSUME NEW d \in Call
             PROVE  /\ Holds(d)' => lock'[ProcessOf[d]] = d
                    /\ call'[d].pc \in {"refreshing", "answered"} => Usable(call'[d].before)
                    /\ call'[d].pc = "answered" /\ Usable(call'[d].answer) /\ ~rotates' =>
                         call'[d].answer.refresh = call'[d].before.refresh
  BY DEF LockInv
<1>0. /\ lock \in [Process -> Call \cup {Nobody}] /\ ProcessOf[d] \in Process /\ Nobody \notin Call
      /\ rotates' = rotates
  BY CallAssumption, FileEffect DEF TypeOK, Process
<1>1. Holds(d)' => lock'[ProcessOf[d]] = d
  <2>1. CASE call' = call /\ lock' = lock
    BY <2>1 DEF LockInv, Holds
  <2>2. ASSUME NEW c \in Call, Advance(c), Holds(d)' PROVE lock'[ProcessOf[d]] = d
    <3>1. CASE c = d
      BY <1>0, <2>2, <3>1, LockEffect DEF LockInv
    <3>2. CASE c # d
      <4>1. call'[d] = call[d]
        BY <2>2, <3>2, OneMoves DEF TypeOK
      <4>2. lock[ProcessOf[d]] = d /\ (Holds(c) => lock[ProcessOf[c]] = c)
        BY <2>2, <4>1 DEF LockInv, Holds
      <4>3. \/ lock' = lock
            \/ ProcessOf[c] # ProcessOf[d] /\ \E x : lock' = [lock EXCEPT ![ProcessOf[c]] = x]
        BY <1>0, <2>2, <3>2, <4>2, LockEffect
      <4>4. QED
        BY <1>0, <4>2, <4>3
    <3>3. QED
      BY <3>1, <3>2
  <2>3. QED
    BY <2>1, <2>2 DEF Next, Login, Delete, Expire, vars, local
<1>2. call'[d].pc \in {"refreshing", "answered"} => Usable(call'[d].before)
  <2>1. CASE call'[d] = call[d]
    BY <2>1 DEF LockInv
  <2>2. CASE Advance(d) /\ call'[d].pc \in {"refreshing", "answered"}
    <3>1. \/ Compare(d) /\ file = call[d].before /\ Usable(file) /\ call'[d].before = call[d].before
          \/ TokenEndpoint(d) /\ call'[d].before = call[d].before
      <4>1. CASE TokenEndpoint(d) /\ Grants(d)
        BY <4>1 DEF Grants, Moved
      <4>2. CASE ~(TokenEndpoint(d) /\ Grants(d))
        <5>1. PICK pc, access, rejected, before, answer :
                /\ Moved(d, pc, access, rejected, before, answer)
                /\ pc = "refreshing" => Compare(d) /\ file = call[d].before /\ Usable(file)
                                        /\ before = call[d].before
                /\ pc = "answered" => TokenEndpoint(d) /\ before = call[d].before
          BY <2>2, <4>2, CallOutcome DEF Outcome, Ends
        <5>2. call'[d].pc = pc /\ call'[d].before = before
          BY ONLY <5>1 DEF Moved
        <5>3. QED
          BY <2>2, <5>1, <5>2
      <4>3. QED
        BY <4>1, <4>2
    <3>2. QED
      BY <3>1 DEF TokenEndpoint, At, LockInv
  <2>3. ASSUME NEW c \in Call, Advance(c), c # d PROVE call'[d] = call[d]
    BY <2>3, OneMoves DEF TypeOK
  <2>4. QED
    BY <2>1, <2>2, <2>3 DEF Next, Login, Delete, Expire, vars
<1>3. Granted(d)' /\ ~rotates' => call'[d].answer.refresh = call'[d].before.refresh
  <2>1. CASE Granted(d) /\ call'[d] = call[d]
    BY <1>0, <2>1 DEF LockInv, Granted
  <2>2. CASE Grants(d)
    BY <1>0, <2>2 DEF Grants, Moved, Chatgpt
  <2>3. QED
    BY <2>1, <2>2, CallPc
<1>4. QED
  BY <1>1, <1>2, <1>3 DEF Granted

--------------------------------------------------------------------------------
LEMMA GrantedFacts ==
  ASSUME TypeOK, SoundInv, LockInv, NEW c \in Call, Granted(c)
  PROVE  /\ call[c].answer.access \in 1..minted /\ Usable(call[c].before) /\ Sound(call[c].before)
         /\ rotates => /\ call[c].answer.refresh = call[c].answer.access
                       /\ call[c].before.refresh = call[c].before.access
BY DEF SoundInv, LockInv, Granted, Sound, Usable, Absent, ApiKey

LEMMA SettleLeaves ==
  ASSUME TypeOK, NEW c \in Call, Settle(c)
  PROVE  Holds(c) /\ ~Holds(c)'
<1>1. call' = Refreshed(c) \/ \E permanent : call' = NotRefreshed(c, permanent)
  BY DEF Settle
<1>2. QED
  BY <1>1, Released DEF Settle, At, Holds, TypeOK

LEMMA FreshStep ==
  ASSUME TypeOK, [Next]_vars, SoundInv, LockInv, FreshInv
  PROVE  FreshInv'
<1> SUFFICES ASSUME NEW d \in Call, Granted(d)', NEW new, new = call'[d].answer.access
             PROVE  /\ file'.access # new
                    /\ \A e \in Call : /\ call'[e].before.access # new
                                       /\ call'[e].access # new /\ call'[e].rejected # new
                                       /\ e # d /\ Granted(e)' => call'[e].answer.access # new
                    /\ \A p \in Process : new \notin spent'[p] /\ \A x \in refused'[p] : x.access # new
  BY DEF FreshInv
<1>0. /\ minted \in Nat /\ Absent.access = 0 /\ ApiKey.access = 0
      /\ spent \in [Process -> SUBSET Token] /\ refused \in [Process -> SUBSET Contents]
  BY DEF TypeOK, Token, Absent, ApiKey
<1>1. ASSUME NEW e \in Call
      PROVE  call[e].before.access \in 0..minted /\ call[e].access \in 0..minted
             /\ call[e].rejected \in 0..minted /\ file.access \in 0..minted
             /\ call[e].answer.access \in 0..minted
  BY SoundBounds DEF SoundInv, TypeOK, CallState, Token
<1>2. CASE TokenEndpoint(d) /\ Grants(d)
  <2>1. new = minted + 1
    BY <1>2 DEF Grants, Moved, Chatgpt
  <2>2. file' = file /\ spent' = spent /\ refused' = refused
    BY <1>2 DEF TokenEndpoint, past
  <2>3. ASSUME NEW e \in Call
        PROVE  /\ call'[e].before.access # new /\ call'[e].access # new /\ call'[e].rejected # new
               /\ e # d => call'[e].answer.access # new
    <3>1. /\ call'[e].before.access \in 0..minted /\ call'[e].access \in 0..minted
          /\ call'[e].rejected \in 0..minted
      BY <1>0, <1>1, CallFields
    <3>2. e # d => call'[e] = call[e]
      BY <1>2 DEF Grants, Moved, TypeOK
    <3>3. QED
      BY <1>0, <1>1, <2>1, <3>1, <3>2
  <2>4. ASSUME NEW p \in Process
        PROVE  new \notin spent[p] /\ \A x \in refused[p] : x.access # new
    BY <1>0, <2>1, SoundBounds DEF SoundInv, Token
  <2>5. QED
    BY <1>0, <1>1, <2>1, <2>2, <2>3, <2>4
<1>3. CASE Granted(d) /\ call'[d] = call[d]
  <2>0. new = call[d].answer.access /\ new \in 1..minted
    BY <1>3, GrantedFacts
  <2>1. /\ file.access # new
        /\ \A e \in Call : /\ call[e].before.access # new
                           /\ call[e].access # new /\ call[e].rejected # new
                           /\ e # d /\ Granted(e) => call[e].answer.access # new
        /\ \A p \in Process : new \notin spent[p] /\ \A x \in refused[p] : x.access # new
    BY <1>3, <2>0 DEF FreshInv
  <2>2. ASSUME NEW c \in Call, Settle(c) PROVE c # d
    BY <1>3, <2>2, SettleLeaves DEF Granted, Holds
  <2>3. file'.access # new
    <3>1. CASE file' = Chatgpt(minted + 1, minted + 1)
      BY <1>0, <2>0, <3>1 DEF Chatgpt
    <3>2. ASSUME NEW c \in Call, Settle(c), Granted(c), file' = call[c].answer PROVE file'.access # new
      BY <2>1, <2>2, <3>2
    <3>3. QED
      BY <1>0, <2>0, <2>1, <3>1, <3>2, FileEffect
  <2>4. ASSUME NEW e \in Call
        PROVE  /\ call'[e].before.access # new /\ call'[e].access # new /\ call'[e].rejected # new
               /\ e # d /\ Granted(e)' => call'[e].answer.access # new
    <3>1. call'[e].before.access # new /\ call'[e].access # new /\ call'[e].rejected # new
      BY <1>0, <2>0, <2>1, CallFields
    <3>2. Grants(e) => call'[e].answer.access = minted + 1
      BY DEF Grants, Moved, Chatgpt
    <3>3. e # d /\ Granted(e)' => call'[e].answer.access # new
      BY <1>0, <2>0, <2>1, <3>2, CallPc
    <3>4. QED
      BY <3>1, <3>3
  <2>5. ASSUME NEW p \in Process
        PROVE  new \notin spent'[p] /\ \A x \in refused'[p] : x.access # new
    <3>1. ASSUME NEW c \in Call, Settle(c), Granted(c), refused' = refused,
                 call[c].answer.refresh # call[c].before.refresh,
                 spent' = [spent EXCEPT ![ProcessOf[c]] = @ \cup {call[c].before.refresh}]
          PROVE  new \notin spent'[p] /\ \A x \in refused'[p] : x.access # new
      <4>1. rotates
        BY <3>1 DEF Granted, LockInv
      <4>2. call[c].before.refresh # new
        BY <2>1, <3>1, <4>1, GrantedFacts
      <4>3. \A t \in spent'[p] : t \in spent[p] \/ t = call[c].before.refresh
        BY ONLY <1>0, <3>1, p \in Process
      <4>4. QED
        BY <2>1, <3>1, <4>2, <4>3
    <3>2. ASSUME NEW c \in Call, spent' = spent,
                 refused' = [refused EXCEPT ![ProcessOf[c]] = @ \cup {call[c].before}]
          PROVE  new \notin spent'[p] /\ \A x \in refused'[p] : x.access # new
      <4>1. \A x \in refused'[p] : x \in refused[p] \/ x = call[c].before
        BY ONLY <1>0, <3>2, p \in Process
      <4>2. QED
        BY <2>1, <3>2, <4>1
    <3>3. QED
      BY <2>1, <3>1, <3>2, PastEffect
  <2>6. QED
    BY <2>3, <2>4, <2>5
<1>4. QED
  BY <1>2, <1>3, CallPc

(* What auth.json comes to hold, no process has anything against.             *)
LEMMA Unseen ==
  ASSUME TypeOK, [Next]_vars, SoundInv, LockInv, FreshInv, file' # file
  PROVE  /\ \A p \in Process : /\ file' \notin refused[p]
                               /\ Usable(file') => file'.refresh \notin spent[p]
         /\ \A d \in Call : Usable(file') => file'.access # call[d].rejected
<1>0. minted \in Nat /\ refused \in [Process -> SUBSET Contents]
  BY DEF TypeOK, Token
<1>1. CASE file' \in {Absent, ApiKey}
  BY <1>1 DEF SoundInv, Usable, Absent, ApiKey
<1>2. CASE file' = Chatgpt(minted + 1, minted + 1)
  <2>1. file'.access = minted + 1 /\ file'.refresh = minted + 1
    BY <1>2 DEF Chatgpt
  <2>2. \A p \in Process : file' \notin refused[p]
    BY <1>0, <2>1, SoundBounds DEF SoundInv
  <2>3. \A p \in Process : minted + 1 \notin spent[p]
    BY <1>0 DEF SoundInv
  <2>4. \A d \in Call : minted + 1 # call[d].rejected
    BY <1>0 DEF SoundInv
  <2>5. QED
    BY <2>1, <2>2, <2>3, <2>4
<1>3. ASSUME NEW c \in Call, Settle(c), Granted(c), file' = call[c].answer
      PROVE  /\ \A p \in Process : /\ file' \notin refused[p]
                                   /\ Usable(file') => file'.refresh \notin spent[p]
             /\ \A d \in Call : Usable(file') => file'.access # call[d].rejected
  <2>1. \A p \in Process : file'.refresh \notin spent[p]
    <3>1. CASE rotates
      BY <1>3, <3>1, GrantedFacts DEF FreshInv
    <3>2. CASE ~rotates
      BY <3>2 DEF SoundInv
    <3>3. QED
      BY <3>1, <3>2
  <2>2. QED
    BY <1>3, <2>1 DEF FreshInv
<1>4. QED
  BY <1>1, <1>2, <1>3, FileEffect

(* A failure is forgotten or replaced by a call that holds the lock.          *)
LEMMA FailureEffect ==
  ASSUME TypeOK, [Next]_vars, NEW p \in Process, failure'[p] # failure[p]
  PROVE  \E c \in Call : Holds(c) /\ ProcessOf[c] = p /\ (Compare(c) \/ Settle(c))
<1>1. failure \in [Process -> Contents]
  BY DEF TypeOK
<1>2. ASSUME NEW c \in Call, Compare(c) \/ Settle(c)
      PROVE  Holds(c) /\ (ProcessOf[c] # p => failure'[p] = failure[p])
  <2>1. \/ failure' = failure
        \/ \E x : failure' = [failure EXCEPT ![ProcessOf[c]] = x]
    BY <1>2 DEF Compare, Settle, Forget, local
  <2>2. Holds(c)
    BY <1>2 DEF Compare, Settle, At, Holds
  <2>3. QED
    BY <1>1, <2>1, <2>2
<1>3. ASSUME NEW c \in Call, Advance(c), ~(Compare(c) \/ Settle(c)) PROVE failure' = failure
  BY <1>3 DEF Advance, Refresh, Begin, BackendAnswers, Reload, Ask, TokenEndpoint, Leave, Revoke,
              StartLogin, local
<1>4. QED
  BY <1>2, <1>3 DEF Next, Login, Delete, Expire, vars, local

LEMMA KnownStep ==
  ASSUME TypeOK, [Next]_vars, SoundInv, LockInv, FreshInv, KnownInv
  PROVE  KnownInv'
<1>0. /\ spent \in [Process -> SUBSET Token] /\ refused \in [Process -> SUBSET Contents]
      /\ failure \in [Process -> Contents] /\ \A c \in Call : ProcessOf[c] \in Process
  BY DEF TypeOK, Process
<1>1. ASSUME NEW p \in Process, Usable(file')
      PROVE  file'.refresh \notin spent'[p]
  <2>1. CASE spent' = spent
    BY <1>1, <2>1, Unseen DEF KnownInv
  <2>2. ASSUME NEW c \in Call, Granted(c), file' = call[c].answer,
               call[c].answer.refresh # call[c].before.refresh,
               spent' = [spent EXCEPT ![ProcessOf[c]] = @ \cup {call[c].before.refresh}]
        PROVE  file'.refresh \notin spent'[p]
    <3>1. file' # file
      BY <2>2 DEF FreshInv
    <3>2. file'.refresh \notin spent[p]
      BY <1>1, <3>1, Unseen
    <3>3. QED
      BY ONLY <1>0, <2>2, <3>2, p \in Process
  <2>3. QED
    BY <2>1, <2>2, PastEffect
<1>2. ASSUME NEW p \in Process, file' \in refused'[p]
      PROVE  failure'[p] = file'
  <2>1. CASE refused' = refused
    <3>1. file' = file
      BY <1>2, <2>1, Unseen
    <3>2. failure'[p] = failure[p]
      BY <1>2, <2>1, <3>1, FailureEffect DEF KnownInv
    <3>3. QED
      BY <1>2, <2>1, <3>1, <3>2 DEF KnownInv
  <2>2. ASSUME NEW c \in Call, Settle(c), file' = file,
               refused' = [refused EXCEPT ![ProcessOf[c]] = @ \cup {call[c].before}],
               failure' = [failure EXCEPT ![ProcessOf[c]] = call[c].before]
        PROVE  failure'[p] = file'
    <3>1. CASE p = ProcessOf[c]
      <4>1. file \notin refused[p]
        BY <2>2, <3>1, SettleLeaves DEF KnownInv
      <4>2. QED
        BY ONLY <1>0, <1>2, <2>2, <3>1, <4>1
    <3>2. CASE p # ProcessOf[c]
      <4>1. refused'[p] = refused[p] /\ failure'[p] = failure[p]
        BY ONLY <1>0, <2>2, <3>2, p \in Process
      <4>2. QED
        BY <1>2, <2>2, <4>1 DEF KnownInv
    <3>3. QED
      BY <3>1, <3>2
  <2>3. QED
    BY <2>1, <2>2, PastEffect
<1>3. ASSUME NEW d \in Call, Holds(d)'
      PROVE  /\ file' \notin refused'[ProcessOf[d]]
             /\ call'[d].before \notin refused'[ProcessOf[d]]
             /\ Usable(call'[d].before) => call'[d].before.refresh \notin spent'[ProcessOf[d]]
  <2>1. CASE Holds(d) /\ call'[d].before = call[d].before
    <3>1. ASSUME NEW c \in Call, Settle(c) PROVE ProcessOf[c] # ProcessOf[d]
      <4>1. Holds(c) /\ c # d
        BY <1>3, <3>1, SettleLeaves
      <4>2. QED
        BY <2>1, <4>1 DEF LockInv
    <3>2. refused'[ProcessOf[d]] = refused[ProcessOf[d]] /\ spent'[ProcessOf[d]] = spent[ProcessOf[d]]
      BY <1>0, <3>1, PastEffect
    <3>3. file' \notin refused[ProcessOf[d]]
      BY <1>0, <2>1, Unseen DEF KnownInv
    <3>4. QED
      BY <2>1, <3>2, <3>3 DEF KnownInv
  <2>2. CASE Ask(d) /\ file \notin {Absent, failure[ProcessOf[d]]} /\ call'[d].before = file
    <3>1. file' = file /\ refused' = refused /\ spent' = spent
      BY <2>2 DEF Ask, past
    <3>2. file \notin refused[ProcessOf[d]]
      BY <1>0, <2>2 DEF KnownInv
    <3>3. QED
      BY <1>0, <2>2, <3>1, <3>2 DEF KnownInv
  <2>3. QED
    BY <1>3, <2>1, <2>2, CallPc
<1>4. QED
  BY <1>1, <1>2, <1>3 DEF KnownInv, Usable

LEMMA RetryStep ==
  ASSUME TypeOK, [Next]_vars, SoundInv, LockInv, FreshInv, RetryInv
  PROVE  RetryInv'
<1> SUFFICES ASSUME NEW d \in Call
             PROVE  /\ call'[d].pc = "comparing" /\ Usable(file') /\ file'.access = call'[d].rejected =>
                         file' = call'[d].before
                    /\ call'[d].pc = "reloading" /\ Usable(file') => file'.access # call'[d].rejected
                    /\ call'[d].pc = "resending" => call'[d].access # call'[d].rejected
  BY DEF RetryInv, Usable
<1>1. CASE call'[d] = call[d]
  <2>1. CASE file' = file
    BY <1>1, <2>1 DEF RetryInv
  <2>2. CASE file' # file
    BY <1>1, <2>2, Unseen DEF RetryInv
  <2>3. QED
    BY <2>1, <2>2
<1>2. CASE Advance(d)
  <2>1. PICK pc, access, rejected, before, answer :
          /\ Moved(d, pc, access, rejected, before, answer)
          /\ pc = "comparing" => Ask(d) /\ before = file
          /\ pc = "reloading" => /\ rejected = call[d].rejected
                                 /\ \/ Compare(d) /\ file # call[d].before /\ Usable(file)
                                    \/ Settle(d) /\ Usable(call[d].answer)
          /\ pc = "resending" => /\ Reload(d) /\ Usable(file)
                                 /\ access = file.access /\ rejected = call[d].rejected
    BY <1>2, CallOutcome DEF Outcome, Ends, Grants
  <2>2. /\ call'[d].pc = pc /\ call'[d].access = access /\ call'[d].rejected = rejected
        /\ call'[d].before = before
    BY ONLY <2>1 DEF Moved
  <2>3. CASE pc = "comparing"
    BY <2>1, <2>2, <2>3 DEF Ask
  <2>4. CASE pc = "reloading"
    <3>1. CASE Compare(d) /\ file # call[d].before /\ Usable(file)
      BY <2>1, <2>2, <2>4, <3>1 DEF Compare, At, RetryInv
    <3>2. CASE Settle(d) /\ Usable(call[d].answer)
      <4>1. call[d].answer # Absent /\ call[d].answer # ApiKey
        BY <3>2 DEF Usable, Absent, ApiKey
      <4>2. Granted(d) /\ file' = call[d].answer
        BY <3>2, <4>1 DEF Settle, At, Granted
      <4>3. QED
        BY <2>1, <2>2, <2>4, <4>2 DEF FreshInv
    <3>3. QED
      BY <2>1, <2>4, <3>1, <3>2
  <2>5. CASE pc = "resending"
    BY <2>1, <2>2, <2>5 DEF Reload, At, RetryInv
  <2>6. QED
    BY <2>2, <2>3, <2>4, <2>5
<1>3. ASSUME NEW c \in Call, Advance(c), c # d PROVE call'[d] = call[d]
  BY <1>3, OneMoves DEF TypeOK
<1>4. QED
  BY <1>1, <1>2, <1>3 DEF Next, Login, Delete, Expire, vars

--------------------------------------------------------------------------------
LEMMA AuthInit == Init => AuthInv
<1> SUFFICES ASSUME Init PROVE AuthInv
  OBVIOUS
<1>1. TypeOK
  BY TypeInit
<1>2. SoundInv
  <2>1. Sound(file) /\ Sound(Absent)
    BY DEF Init, Sound, Usable, Chatgpt
  <2>2. QED
    BY <2>1 DEF Init, SoundInv, NewCall
<1>3. \A c \in Call : call[c].pc = "new"
  BY DEF Init, NewCall
<1>4. LockInv /\ FreshInv /\ RetryInv
  BY <1>3 DEF LockInv, FreshInv, RetryInv, Holds, Granted
<1>5. KnownInv
  BY <1>3 DEF KnownInv, Holds, Init
<1>6. QED
  BY <1>1, <1>2, <1>4, <1>5 DEF AuthInv

LEMMA AuthStep == AuthInv /\ [Next]_vars => AuthInv'
BY TypeStep, SoundStep, LockStep, FreshStep, KnownStep, RetryStep DEF AuthInv

LEMMA AuthAlways == Spec => []AuthInv
BY AuthInit, AuthStep, PTL DEF Spec

(* However many requests of a process are answered 401 at once, and whatever  *)
(* other processes and logins write, refresh_and_persist never presents a     *)
(* refresh token after the process was given its successor.                   *)
THEOREM SpentTokensStayAway == Spec => []SpentTokenNotPresented
<1>1. AuthInv => SpentTokenNotPresented
  BY DEF AuthInv, LockInv, KnownInv, SpentTokenNotPresented, At, Holds
<1>2. QED
  BY <1>1, AuthAlways, PTL

(* A login that the token endpoint refused is not presented again by the      *)
(* process that saw it refused, as long as auth.json holds it.                *)
THEOREM RefusedLoginsStayAway == Spec => []RefusedLoginNotPresented
<1>1. AuthInv => RefusedLoginNotPresented
  BY DEF AuthInv, KnownInv, RefusedLoginNotPresented, At, Holds
<1>2. QED
  BY <1>1, AuthAlways, PTL

(* The one retry of a request that was answered 401 carries another token.    *)
THEOREM RetriesChangeTheToken == Spec => []RetriedWithAnotherToken
<1>1. AuthInv => RetriedWithAnotherToken
  BY DEF AuthInv, RetryInv, RetriedWithAnotherToken, At
<1>2. QED
  BY <1>1, AuthAlways, PTL
================================================================================
