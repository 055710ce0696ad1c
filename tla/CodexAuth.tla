------------------------------ MODULE CodexAuth ------------------------------
(***************************************************************************)
(* Authentication against the Codex backend: the one auth.json that all    *)
(* processes share, the refresh of its tokens (CodexAuthManager), the      *)
(* single retry of a request that was answered 401 (client.rs and          *)
(* websocket_transport.rs have the same arms), logout with revocation, the *)
(* preflight of `serve` and the logins that write the file.                *)
(*                                                                         *)
(* The refresh lock and the cached permanent failure belong to a process;  *)
(* auth.json is replaced by a rename and guarded by nothing.  A step ends  *)
(* where the code awaits, and between two reads of the file, except that   *)
(* load_codex_auth at the end of a refresh, which reads the account, is    *)
(* part of the step before it.  Tokens are numbers in the order the token  *)
(* endpoint minted them; a file's contents stand for its fingerprint.      *)
(* Accounts, JWT claims and the browser of a login are left out.           *)
(***************************************************************************)
EXTENDS Naturals

CONSTANTS
  Call,       (* requests, /auth/refresh calls and starts of the server      *)
  KindOf,     (* [Call -> {"message", "refresh", "start"}]                   *)
  ProcessOf,  (* the process a call runs in                                  *)
  Nobody,     (* the holder of a free lock                                   *)
  MaxTokens   (* bound: tokens that are ever minted                          *)

Process == {ProcessOf[c] : c \in Call}

ASSUME CallAssumption ==
  /\ KindOf \in [Call -> {"message", "refresh", "start"}]
  /\ Nobody \notin Call /\ MaxTokens \in Nat \ {0}

VARIABLES
  file,     (* auth.json                                                     *)
  call,     (* the calls in progress                                         *)
  lock,     (* refresh_lock: the call that holds it, per process             *)
  failure,  (* permanent_refresh_failure: the contents that were refused     *)
  minted,   (* tokens minted so far                                          *)
  expired,  (* access tokens up to this one are no longer accepted           *)
  valid,    (* refresh tokens that the token endpoint accepts                *)
  rotates,  (* whether a refresh replaces the refresh token as well          *)
  spent,    (* history: refresh tokens a process was given a successor of    *)
  refused   (* history: contents whose refresh token a process saw refused   *)

local  == <<lock, failure>>
server == <<minted, expired, valid, rotates>>
past   == <<spent, refused>>
vars   == <<file, call, local, server, past>>

Token    == 0 .. MaxTokens
Contents == [kind : {"absent", "chatgpt", "api_key"}, access : Token, refresh : Token]

Absent        == [kind |-> "absent", access |-> 0, refresh |-> 0]
ApiKey        == [kind |-> "api_key", access |-> 0, refresh |-> 0]
Chatgpt(a, t) == [kind |-> "chatgpt", access |-> a, refresh |-> t]

(* load_credentials finds an access token; ready_for_messages. *)
Usable(contents) == contents.kind = "chatgpt"

NewCall == [pc |-> "new", access |-> 0, rejected |-> 0, before |-> Absent, answer |-> Absent]

Init ==
  /\ file = Chatgpt(1, 1)
  /\ call = [c \in Call |-> NewCall]
  /\ lock = [p \in Process |-> Nobody]
  /\ failure = [p \in Process |-> Absent]
  /\ minted = 1
  /\ expired = 0
  /\ valid = {1}
  /\ rotates \in BOOLEAN
  /\ spent = [p \in Process |-> {}]
  /\ refused = [p \in Process |-> {}]

At(c, pc)  == call[c].pc = pc
Goto(c, pc) == [call EXCEPT ![c].pc = pc]
Over(c)    == [call EXCEPT ![c] = [NewCall EXCEPT !.pc = "over"]]

(***************************************************************************)
(* A request: send, refresh once on a 401, send once more                  *)
(***************************************************************************)

(* The first reading of auth.json: the request's credentials, or the       *)
(* preflight's status, which starts a login when it is not ready.          *)
Begin(c) ==
  /\ At(c, "new")
  /\ call' = CASE KindOf[c] = "message" /\ Usable(file) ->
                    [call EXCEPT ![c].pc = "sending", ![c].access = file.access]
               [] KindOf[c] = "message" /\ ~Usable(file) -> Over(c)
               [] KindOf[c] = "start" /\ ~Usable(file) -> Goto(c, "login")
               [] OTHER -> Goto(c, "waiting")
  /\ UNCHANGED <<file, local, server, past>>

(* A 401 to the first sending starts a refresh; any other answer, and any  *)
(* answer to the second sending, is final.                                 *)
BackendAnswers(c) ==
  /\ \/ At(c, "sending") \/ At(c, "resending")
  /\ call' = IF call[c].access <= expired /\ At(c, "sending")
             THEN [call EXCEPT ![c].pc = "waiting", ![c].rejected = call[c].access,
                               ![c].access = 0]
             ELSE Over(c)
  /\ UNCHANGED <<file, local, server, past>>

(* Mutant: the request is sent again as it was. *)
ReloadNothing(c) ==
  /\ At(c, "reloading")
  /\ call' = IF Usable(file)
             THEN [call EXCEPT ![c].pc = "resending", ![c].access = call[c].rejected]
             ELSE Over(c)
  /\ UNCHANGED <<file, local, server, past>>

(* load_access_token_default_path after the refresh. *)
Reload(c) ==
  /\ At(c, "reloading")
  /\ call' = IF Usable(file)
             THEN [call EXCEPT ![c].pc = "resending", ![c].access = file.access]
             ELSE Over(c)
  /\ UNCHANGED <<file, local, server, past>>

(***************************************************************************)
(* refresh_and_persist                                                     *)
(***************************************************************************)

(* How each kind of call goes on after a refresh: a request sends again,   *)
(* or logs out when the failure is permanent; a start logs in again        *)
(* whatever failed; /auth/refresh only reports.                            *)
Later(c, pc) == [call EXCEPT ![c].pc = pc, ![c].before = Absent, ![c].answer = Absent]
Refreshed(c) == IF KindOf[c] = "message" THEN Later(c, "reloading") ELSE Over(c)
NotRefreshed(c, permanent) ==
  CASE KindOf[c] = "message" /\ permanent -> Later(c, "leaving")
    [] KindOf[c] = "start" -> Later(c, "login")
    [] OTHER -> Over(c)

(* Mutant: the lock is not waited for. *)
AskUnlocked(c) ==
  LET p == ProcessOf[c] IN
  /\ At(c, "waiting")
  /\ IF file \notin {Absent, failure[p]}
     THEN /\ lock' = [lock EXCEPT ![p] = c]
          /\ call' = [call EXCEPT ![c].pc = "comparing", ![c].before = file]
     ELSE /\ call' = NotRefreshed(c, file # Absent)
          /\ UNCHANGED lock
  /\ UNCHANGED <<file, failure, server, past>>

(* Mutant: the refusal of these contents is not looked up. *)
AskAgain(c) ==
  LET p == ProcessOf[c] IN
  /\ At(c, "waiting") /\ lock[p] = Nobody
  /\ IF file # Absent
     THEN /\ lock' = [lock EXCEPT ![p] = c]
          /\ call' = [call EXCEPT ![c].pc = "comparing", ![c].before = file]
     ELSE /\ call' = NotRefreshed(c, FALSE)
          /\ UNCHANGED lock
  /\ UNCHANGED <<file, failure, server, past>>

(* Under the lock: auth.json is read, and what was refused before is not   *)
(* asked again.  A missing file is no permanent failure.                   *)
Ask(c) ==
  LET p == ProcessOf[c] IN
  /\ At(c, "waiting") /\ lock[p] = Nobody
  /\ IF file \notin {Absent, failure[p]}
     THEN /\ lock' = [lock EXCEPT ![p] = c]
          /\ call' = [call EXCEPT ![c].pc = "comparing", ![c].before = file]
     ELSE /\ call' = NotRefreshed(c, file # Absent)
          /\ UNCHANGED lock
  /\ UNCHANGED <<file, failure, server, past>>

Unlock(c) == lock' = [lock EXCEPT ![ProcessOf[c]] = Nobody]

(* clear_cached_permanent_failure_if_changed *)
Forget(c, contents) ==
  failure' = [failure EXCEPT ![ProcessOf[c]] = IF @ = contents THEN @ ELSE Absent]

(* The second reading: contents that changed meanwhile are taken as they   *)
(* are, contents without a refresh token are an error, and the rest are    *)
(* sent to the token endpoint.                                             *)
Compare(c) ==
  /\ At(c, "comparing")
  /\ \/ /\ file # call[c].before /\ file # Absent
        /\ Forget(c, file)
        /\ Unlock(c)
        /\ call' = IF Usable(file) THEN Refreshed(c) ELSE NotRefreshed(c, FALSE)
     \/ /\ file = Absent \/ (file = call[c].before /\ ~Usable(file))
        /\ Unlock(c)
        /\ call' = NotRefreshed(c, FALSE)
        /\ UNCHANGED failure
     \/ /\ file = call[c].before /\ Usable(file)
        /\ call' = Goto(c, "refreshing")
        /\ UNCHANGED local
  /\ UNCHANGED <<file, server, past>>

(* The token endpoint grants a valid refresh token and refuses another     *)
(* with 401.  Its answer, or the question, may be lost.                    *)
Answered(c, answer) == call' = [call EXCEPT ![c].pc = "answered", ![c].answer = answer]

TokenEndpoint(c) ==
  LET asked == call[c].before.refresh
      new   == minted + 1
      next  == IF rotates THEN new ELSE asked
      kept  == IF rotates THEN valid \ {asked} ELSE valid
  IN
  /\ At(c, "refreshing")
  /\ \/ /\ asked \in valid /\ minted < MaxTokens
        /\ minted' = new
        /\ valid' = kept \cup {next}
        /\ \/ Answered(c, Chatgpt(new, next))
           \/ Answered(c, ApiKey)
     \/ /\ asked \notin valid
        /\ Answered(c, Absent)
        /\ UNCHANGED <<minted, valid>>
     \/ /\ Answered(c, ApiKey)
        /\ UNCHANGED <<minted, valid>>
  /\ UNCHANGED <<file, local, expired, rotates, past>>

(* The answer arrives: Absent stands for a 401, ApiKey for any other       *)
(* failure.  Granted tokens are written over whatever auth.json holds by   *)
(* now, into the contents that were read before.                           *)
Settle(c) ==
  LET p == ProcessOf[c]
      answer == call[c].answer
  IN
  /\ At(c, "answered")
  /\ Unlock(c)
  /\ \/ /\ Usable(answer)
        /\ file' = answer
        /\ Forget(c, call[c].before)
        /\ call' = Refreshed(c)
        /\ spent' = IF answer.refresh = call[c].before.refresh THEN spent
                    ELSE [spent EXCEPT ![p] = @ \cup {call[c].before.refresh}]
        /\ UNCHANGED refused
     \/ /\ answer = Absent
        /\ failure' = [failure EXCEPT ![p] = call[c].before]
        /\ refused' = [refused EXCEPT ![p] = @ \cup {call[c].before}]
        /\ call' = NotRefreshed(c, TRUE)
        /\ UNCHANGED <<file, spent>>
     \/ /\ answer = ApiKey
        /\ call' = NotRefreshed(c, FALSE)
        /\ UNCHANGED <<file, failure, past>>
  /\ UNCHANGED server

(***************************************************************************)
(* logout_with_revoke: outside the lock, of whatever the file holds by now *)
(***************************************************************************)
Leave(c) ==
  /\ At(c, "leaving")
  /\ \/ /\ Usable(file)
        /\ call' = [call EXCEPT ![c].pc = "revoking", ![c].before = file]
        /\ UNCHANGED file
     \/ /\ ~Usable(file)
        /\ file' = Absent
        /\ call' = Over(c)
  /\ UNCHANGED <<local, server, past>>

(* The revocation is best effort; the file goes in any case. *)
Revoke(c) ==
  /\ At(c, "revoking")
  /\ \/ UNCHANGED valid
     \/ valid' = valid \ {call[c].before.refresh}
  /\ file' = Absent
  /\ call' = Over(c)
  /\ UNCHANGED <<local, minted, expired, rotates, past>>

(***************************************************************************)
(* Logins, the user and the passing of time                                *)
(***************************************************************************)
Minted ==
  /\ minted < MaxTokens
  /\ minted' = minted + 1
  /\ valid' = valid \cup {minted + 1}
  /\ file' = Chatgpt(minted + 1, minted + 1)

(* The preflight's login: the start fails with it or goes on to serve. *)
StartLogin(c) ==
  /\ At(c, "login")
  /\ call' = Over(c)
  /\ \/ Minted
     \/ UNCHANGED <<file, minted, valid>>
  /\ UNCHANGED <<local, expired, rotates, past>>

(* `cld-gateway login`, with ChatGPT or with an API key. *)
Login ==
  /\ \/ Minted
     \/ file' = ApiKey /\ UNCHANGED <<minted, valid>>
  /\ UNCHANGED <<call, local, expired, rotates, past>>

(* auth.json is deleted by its owner. *)
Delete ==
  /\ file' = Absent
  /\ UNCHANGED <<call, local, server, past>>

(* Access tokens expire in the order they were minted; a refresh token may *)
(* be revoked elsewhere.                                                   *)
Expire ==
  /\ \/ expired < minted /\ expired' = expired + 1 /\ UNCHANGED valid
     \/ (\E t \in valid : valid' = valid \ {t}) /\ UNCHANGED expired
  /\ UNCHANGED <<file, call, local, minted, rotates, past>>

(***************************************************************************)
(* Specification                                                           *)
(***************************************************************************)
Refresh(c) == Ask(c) \/ Compare(c) \/ TokenEndpoint(c) \/ Settle(c)
Advance(c) == Begin(c) \/ BackendAnswers(c) \/ Reload(c) \/ Refresh(c) \/ Leave(c) \/ Revoke(c)
              \/ StartLogin(c)

Next == (\E c \in Call : Advance(c)) \/ Login \/ Delete \/ Expire

Spec == Init /\ [][Next]_vars

(***************************************************************************)
(* Properties                                                              *)
(***************************************************************************)

(* A rotating refresh token works once, and presenting it again ends the   *)
(* login for good.  However many requests of a process are answered 401 at *)
(* the same moment, the process never presents a token after it was given  *)
(* that token's successor.                                                 *)
SpentTokenNotPresented ==
  \A c \in Call : At(c, "refreshing") => call[c].before.refresh \notin spent[ProcessOf[c]]

(* A login that the token endpoint refused is not presented again by the   *)
(* process that saw it refused, by no request and no /auth/refresh, until  *)
(* auth.json holds something else.                                         *)
RefusedLoginNotPresented ==
  \A c \in Call : At(c, "refreshing") => call[c].before \notin refused[ProcessOf[c]]

(* A request that is sent again carries another token than the one that    *)
(* was answered 401, whatever other requests, processes and logins wrote   *)
(* to auth.json in between.                                                *)
RetriedWithAnotherToken ==
  \A c \in Call : At(c, "resending") => call[c].access # call[c].rejected

(* "Deleting ~/.gateway/auth.json removes the gateway's local credentials  *)
(* immediately; you'll need to run cld-gateway login again": a deleted     *)
(* file comes back by a login, which mints its tokens as it writes them,   *)
(* or by an API key, and by nothing else.                                  *)
DeletedUntilLogin ==
  [][file = Absent /\ file' # Absent => file' = ApiKey \/ minted' # minted]_vars

=============================================================================
