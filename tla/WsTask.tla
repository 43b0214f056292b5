------------------------------- MODULE WsTask -------------------------------
(***************************************************************************)
(* The background websocket task (src/src/ws.rs): it waits for a session,  *)
(* connects with its token, relays until something tells it to stop, and   *)
(* starts over.                                                            *)
(*                                                                         *)
(* What it works against is a SessionStore, which module Auth implements:  *)
(* sessions are stored and cleared under its feet, by refreshes too.  It   *)
(* learns of that, and of set_active, through tokio watch channels: one    *)
(* value and one "changed since you looked" mark, so two changes the task  *)
(* did not look at in between are one.                                     *)
(***************************************************************************)
EXTENDS SessionStore, Naturals

CONSTANTS QueueSize,    (* capacity of the command channel                  *)
          MaxChanges    (* bound: what the application and Auth do in all   *)

ASSUME StoreAssumption == NoAccount \notin Accounts
ASSUME WsBoundsAssumption == QueueSize \in Nat \ {0} /\ MaxChanges \in Nat

VARIABLES
  active,       \* AuthState.active_tx
  news,         \* channels that changed since the task last looked at them
  wpc,          \* the point the task has reached
  bearer,       \* the account whose token it connects with, or did
  socket,       \* the account whose token opened the socket, or NoAccount
  shown,        \* what connection_state says
  offer,        \* offer_deflate
  queued,       \* commands in the channel
  clients,      \* a handle that can send commands is left
  outlived,     \* history: signed out since the bearer was taken
  changesLeft

env == <<active, clients, changesLeft>>
conn == <<bearer, socket, shown, outlived>>
wsVars == <<held, usable, consent, active, news, wpc, bearer, socket, shown,
            offer, queued, clients, outlived, changesLeft>>

WsLabels == {"wait", "signedout", "activity", "idle", "authorize", "denied",
             "connect", "opened", "loop", "retry", "backoff"}

Open == socket # NoAccount

-----------------------------------------------------------------------------
(***************************************************************************)
(* Around the task.                                                        *)
(***************************************************************************)
Change ==
  /\ changesLeft > 0
  /\ changesLeft' = changesLeft - 1

Ask(a) ==
  /\ Change
  /\ AskFor(a)
  /\ UNCHANGED <<news, active, wpc, conn, offer, queued, clients>>

\* A sign-in or a refresh stores a session: set_session_if_current.
StoreSession(a) ==
  /\ Change
  /\ Hold(a)
  /\ news' = news \union {"session"}
  /\ UNCHANGED <<active, wpc, conn, offer, queued, clients>>

\* clear_session publishes that there is none, whether there was one or not.
ClearStore ==
  /\ Change
  /\ Clear
  /\ news' = news \union {"session"}
  /\ outlived' = (bearer # NoAccount)
  /\ UNCHANGED <<active, wpc, bearer, socket, shown, offer, queued, clients>>

\* send_replace marks the channel changed even when the value is the same.
SetActive(on) ==
  /\ Change
  /\ active' = on
  /\ news' = news \union {"active"}
  /\ UNCHANGED <<storeVars, wpc, conn, offer, queued, clients>>

SendCommand ==
  /\ Change
  /\ clients
  /\ queued < QueueSize
  /\ queued' = queued + 1
  /\ UNCHANGED <<storeVars, active, news, wpc, conn, offer, clients>>

\* The last handle that could send a command goes; the task does not.
DropClients ==
  /\ clients
  /\ clients' = FALSE
  /\ UNCHANGED <<storeVars, active, news, wpc, conn, offer, queued,
                 changesLeft>>

-----------------------------------------------------------------------------
(***************************************************************************)
(* spawn_ws_task: the outer loop.                                          *)
(***************************************************************************)
At(label) == wpc = label

Goto(label) == wpc' = label

Look(channel) == news' = news \ {channel}

\* Variant: the socket goes without a word.
DisconnectedQuietly ==
  /\ socket' = NoAccount
  /\ bearer' = NoAccount
  /\ outlived' = FALSE
  /\ UNCHANGED shown

\* The socket, if there is one, is dropped and the state published.
Disconnected ==
  /\ socket' = NoAccount
  /\ bearer' = NoAccount
  /\ outlived' = FALSE
  /\ shown' = "Disconnected"

CheckSession ==
  /\ At("wait")
  /\ Goto(IF held = NoAccount THEN "signedout" ELSE "activity")
  /\ UNCHANGED <<storeVars, env, news, conn, offer, queued>>

AwaitSession ==
  /\ At("signedout")
  /\ "session" \in news
  /\ Look("session")
  /\ Goto("wait")
  /\ UNCHANGED <<storeVars, env, conn, offer, queued>>

CheckActive ==
  /\ At("activity")
  /\ Look("active")
  /\ \/ active /\ Goto("authorize") /\ UNCHANGED conn
     \/ ~active /\ Goto("idle") /\ Disconnected
  /\ UNCHANGED <<storeVars, env, offer, queued>>

AwaitActive ==
  /\ At("idle")
  /\ active
  /\ Look("active")
  /\ Goto("authorize")
  /\ UNCHANGED <<storeVars, env, conn, offer, queued>>

\* The end of authorize.  A refresh it made, or failed to make, has come and
\* gone as a step of the store.
Authorize ==
  /\ At("authorize")
  /\ \/ /\ held # NoAccount /\ usable
        /\ bearer' = held
        /\ outlived' = FALSE
        /\ Goto("connect")
        /\ UNCHANGED <<socket, shown>>
     \/ /\ held = NoAccount \/ ~usable
        /\ Disconnected
        /\ Goto("denied")
  /\ UNCHANGED <<storeVars, env, news, offer, queued>>

\* Variant: a change that came before the wait began is put out of mind.
AwaitSignInForgetting ==
  /\ At("denied")
  /\ "session" \in news
  /\ Look("session")
  /\ Goto("wait") \/ UNCHANGED wpc
  /\ UNCHANGED <<storeVars, env, conn, offer, queued>>

\* "auth error, waiting for next sign-in"
AwaitSignIn ==
  /\ At("denied")
  /\ "session" \in news
  /\ Look("session")
  /\ Goto("wait")
  /\ UNCHANGED <<storeVars, env, conn, offer, queued>>

(***************************************************************************)
(* connect_and_run.                                                        *)
(***************************************************************************)
ConnectFails ==
  /\ At("connect")
  /\ Disconnected
  /\ Goto("retry")
  /\ UNCHANGED <<storeVars, env, news, offer, queued>>

\* The server took the compression nobody here can undo: never offered again.
DeflateNegotiated ==
  /\ At("connect")
  /\ offer
  /\ offer' = FALSE
  /\ Disconnected
  /\ Goto("retry")
  /\ UNCHANGED <<storeVars, env, news, queued>>

Connect ==
  /\ At("connect")
  /\ socket' = bearer
  /\ shown' = "Connected"
  /\ Goto("opened")
  /\ UNCHANGED <<storeVars, env, news, bearer, outlived, offer, queued>>

\* The connection ends well: start over at once.
Close == Disconnected /\ Goto("wait")

\* Variant: the loop starts with a clean slate.
StartLoopAfresh ==
  /\ At("opened")
  /\ IF usable THEN Goto("loop") /\ UNCHANGED conn ELSE Close
  /\ news' = {}
  /\ UNCHANGED <<storeVars, env, offer, queued>>

StartLoop ==
  /\ At("opened")
  /\ IF usable THEN Goto("loop") /\ UNCHANGED conn ELSE Close
  /\ UNCHANGED <<storeVars, env, news, offer, queued>>

(***************************************************************************)
(* run_message_loop: one action for each branch of its select.             *)
(***************************************************************************)
\* Variant: the change is taken for a refresh, whatever it is.
SeeSessionOnly ==
  /\ At("loop")
  /\ "session" \in news
  /\ Look("session")
  /\ UNCHANGED <<storeVars, env, offer, queued, wpc, conn>>

SeeSession ==
  /\ At("loop")
  /\ "session" \in news
  /\ Look("session")
  /\ IF held = NoAccount THEN Close ELSE UNCHANGED <<wpc, conn>>
  /\ UNCHANGED <<storeVars, env, offer, queued>>

\* Variant: a change of activity is noticed only when it is to active.
SeeActiveOnly ==
  /\ At("loop")
  /\ "active" \in news
  /\ Look("active")
  /\ UNCHANGED <<storeVars, env, offer, queued, wpc, conn>>

SeeActive ==
  /\ At("loop")
  /\ "active" \in news
  /\ Look("active")
  /\ IF ~active THEN Close ELSE UNCHANGED <<wpc, conn>>
  /\ UNCHANGED <<storeVars, env, offer, queued>>

\* The command is out of the channel whatever becomes of it.
TakeCommand ==
  /\ At("loop")
  /\ queued > 0
  /\ queued' = queued - 1
  /\ \/ usable /\ UNCHANGED <<wpc, conn>>
     \/ usable /\ Disconnected /\ Goto("retry")
     \/ ~usable /\ Close
  /\ UNCHANGED <<storeVars, env, news, offer>>

NoMoreCommands ==
  /\ At("loop")
  /\ queued = 0 /\ ~clients
  /\ Close
  /\ UNCHANGED <<storeVars, env, news, offer, queued>>

\* The server closes, or a read, a ping or a pong fails.
ConnectionLost ==
  /\ At("loop")
  /\ Disconnected
  /\ Goto("retry")
  /\ UNCHANGED <<storeVars, env, news, offer, queued>>

CheckStillSignedIn ==
  /\ At("retry")
  /\ Goto(IF held = NoAccount THEN "wait" ELSE "backoff")
  /\ UNCHANGED <<storeVars, env, news, conn, offer, queued>>

\* sleep(backoff), at most 30 seconds.
WakeUp ==
  /\ At("backoff")
  /\ Goto("wait")
  /\ UNCHANGED <<storeVars, env, news, conn, offer, queued>>

-----------------------------------------------------------------------------

\* The channels are subscribed to when the task starts: nothing is new.
Init ==
  /\ StoreInit
  /\ active = TRUE
  /\ news = {}
  /\ wpc = "wait"
  /\ bearer = NoAccount
  /\ socket = NoAccount
  /\ shown = "Disconnected"
  /\ offer = TRUE
  /\ queued = 0
  /\ clients = TRUE
  /\ outlived = FALSE
  /\ changesLeft = MaxChanges

Around ==
  \/ \E a \in Accounts : Ask(a) \/ StoreSession(a)
  \/ ClearStore
  \/ \E on \in BOOLEAN : SetActive(on)
  \/ SendCommand
  \/ DropClients

Outer == \/ CheckSession \/ AwaitSession \/ CheckActive \/ AwaitActive
         \/ Authorize \/ AwaitSignIn \/ CheckStillSignedIn \/ WakeUp

Connecting == ConnectFails \/ DeflateNegotiated \/ Connect

Relay == \/ StartLoop \/ SeeSession \/ SeeActive \/ TakeCommand
         \/ NoMoreCommands \/ ConnectionLost

Next == Around \/ Outer \/ Connecting \/ Relay

Spec == Init /\ [][Next]_wsVars

(***************************************************************************)
(* Fairness: the runtime runs the task, an attempt to connect ends, and a  *)
(* branch of the select that stays ready is taken some time (the macro     *)
(* starts at a random one).  That the server lets the client in when it    *)
(* tries for ever is asked for by itself.                                  *)
(***************************************************************************)
FairSpec ==
  /\ Spec
  /\ WF_wsVars(Outer) /\ WF_wsVars(Connecting) /\ SF_wsVars(Connect)
  /\ WF_wsVars(StartLoop) /\ WF_wsVars(SeeSession) /\ WF_wsVars(SeeActive)
  /\ WF_wsVars(TakeCommand) /\ WF_wsVars(NoMoreCommands)

-----------------------------------------------------------------------------
(***************************************************************************)
(* What is checked.                                                        *)
(***************************************************************************)

\* Every variable has its type, and connection_state says what is the case.
WsTypeOK ==
  /\ held \in Accounts \union {NoAccount}
  /\ usable \in BOOLEAN /\ (usable => held # NoAccount)
  /\ consent \in SUBSET Accounts
  /\ active \in BOOLEAN
  /\ news \in SUBSET {"session", "active"}
  /\ wpc \in WsLabels
  /\ bearer \in Accounts \union {NoAccount}
  /\ socket \in {bearer, NoAccount}
  /\ shown = IF Open THEN "Connected" ELSE "Disconnected"
  /\ offer \in BOOLEAN
  /\ queued \in 0 .. QueueSize
  /\ clients \in BOOLEAN
  /\ outlived \in BOOLEAN
  /\ changesLeft \in 0 .. MaxChanges

\* No wake-up is lost: while the task relays for a client that has signed out
\* or gone idle, the channel that says so is still unread (the order of
\* borrow_and_update, authorize, connect and the select).
NoLostWakeup ==
  At("loop") => /\ held = NoAccount => "session" \in news
                /\ ~active => "active" \in news

\* A client that stays signed in with a token and stays active is connected
\* again and again, whatever went wrong before (the outer loop's waits).
KeepsReconnecting == <>[](usable /\ active) => []<>Open

\* Idle, the websocket disconnects (GrindrClient::set_active).
IdleDisconnects == Open /\ ~active ~> ~Open \/ active

\* Signed out, and not signed in again, the websocket closes
\* (GrindrClient::sign_out).
SignedOutDisconnects == Open /\ held = NoAccount ~> ~Open \/ held # NoAccount

(***************************************************************************)
(* Why no wake-up is lost: from the look at active_rx on, going idle marks *)
(* the channel; from the check of the token on, signing out does.  (And    *)
(* nobody connects without a token, or holds a socket anywhere else.)      *)
(***************************************************************************)
WsIInv ==
  /\ WsTypeOK
  /\ wpc \in {"authorize", "connect", "opened", "loop"}
       => (~active => "active" \in news)
  /\ At("loop") => (held = NoAccount => "session" \in news)
  /\ wpc \in {"connect", "opened", "loop"} => bearer # NoAccount
  /\ Open => wpc \in {"opened", "loop"}

\* The websocket works in the name of an account that was asked for and not
\* signed out of since: the token it connects with, and the socket it opened
\* with it, are of such an account, or the session has ended since the token
\* was taken and, while no other was stored, the loop has yet to be told.
SocketAskedFor ==
  bearer # NoAccount
    => \/ ~outlived /\ bearer \in consent
       \/ outlived /\ (At("loop") /\ held = NoAccount => "session" \in news)

(***************************************************************************)
(* What the documentation says and the code does not do.                   *)
(***************************************************************************)

\* "Clears the session and closes the websocket" (GrindrClient::sign_out):
\* a socket that was opened before a sign-out is closed after it.
SignOutClosesSocket == outlived ~> ~outlived
=============================================================================
