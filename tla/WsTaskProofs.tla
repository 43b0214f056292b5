---------------------------- MODULE WsTaskProofs ----------------------------
(***************************************************************************)
(* Proofs about WsTask, for any accounts and bounds.                       *)
(***************************************************************************)
EXTENDS WsTask, TLAPS

USE StoreAssumption, WsBoundsAssumption
USE DEF At, Goto, Look, Open, Change, Disconnected, Close,
        storeVars, env, conn, wsVars

\* The invariant holds in every initial state.
LEMMA WsInit == Init => WsIInv
<1> SUFFICES ASSUME Init PROVE WsIInv
  OBVIOUS
<1>1. held \in Accounts \union {NoAccount} /\ consent \in SUBSET Accounts
  BY DEF Init, StoreInit
<1>2. queued \in 0 .. QueueSize /\ changesLeft \in 0 .. MaxChanges
  BY DEF Init
<1>3. wpc \in WsLabels
  BY DEF Init, WsLabels
<1>4. WsTypeOK
  BY <1>1, <1>2, <1>3 DEF Init, StoreInit, WsTypeOK
<1> QED
  BY <1>4 DEF Init, WsIInv

\* The parts of the invariant.
Stored ==
  /\ held \in Accounts \union {NoAccount}
  /\ usable \in BOOLEAN /\ (usable => held # NoAccount)
  /\ consent \in SUBSET Accounts

Connection ==
  /\ bearer \in Accounts \union {NoAccount}
  /\ socket \in {bearer, NoAccount}
  /\ shown = IF Open THEN "Connected" ELSE "Disconnected"
  /\ wpc \in {"connect", "opened", "loop"} => bearer # NoAccount
  /\ Open => wpc \in {"opened", "loop"}

Others ==
  /\ active \in BOOLEAN
  /\ news \in SUBSET {"session", "active"}
  /\ wpc \in WsLabels
  /\ offer \in BOOLEAN
  /\ queued \in 0 .. QueueSize
  /\ clients \in BOOLEAN
  /\ outlived \in BOOLEAN
  /\ changesLeft \in 0 .. MaxChanges

Unread ==
  /\ wpc \in {"authorize", "connect", "opened", "loop"}
       => (~active => "active" \in news)
  /\ At("loop") => (held = NoAccount => "session" \in news)

\* No step, of the task or around it, leaves the store ill-typed.
LEMMA StoredStep == WsIInv /\ [Next]_wsVars => Stored'
<1> SUFFICES ASSUME WsIInv, [Next]_wsVars PROVE Stored'
  OBVIOUS
<1> USE DEF WsIInv, WsTypeOK, Stored
<1>1. CASE \E a \in Accounts : Ask(a)
  BY <1>1 DEF Ask, AskFor
<1>2. CASE \E a \in Accounts : StoreSession(a)
  BY <1>2 DEF StoreSession, Hold
<1>3. CASE ClearStore
  BY <1>3 DEF ClearStore, Clear
<1>4. CASE \E on \in BOOLEAN : SetActive(on)
  BY <1>4 DEF SetActive
<1>5. CASE SendCommand \/ DropClients
  BY <1>5 DEF SendCommand, DropClients
<1>6. CASE CheckSession \/ AwaitSession
  BY <1>6 DEF CheckSession, AwaitSession
<1>7. CASE CheckActive
  BY <1>7 DEF CheckActive
<1>8. CASE AwaitActive
  BY <1>8 DEF AwaitActive
<1>9. CASE Authorize
  BY <1>9 DEF Authorize
<1>10. CASE AwaitSignIn
  BY <1>10 DEF AwaitSignIn
<1>11. CASE ConnectFails \/ DeflateNegotiated
  BY <1>11 DEF ConnectFails, DeflateNegotiated
<1>12. CASE Connect
  BY <1>12 DEF Connect
<1>13. CASE StartLoop
  BY <1>13 DEF StartLoop
<1>14. CASE SeeSession
  BY <1>14 DEF SeeSession
<1>15. CASE SeeActive
  BY <1>15 DEF SeeActive
<1>16. CASE TakeCommand
  BY <1>16 DEF TakeCommand
<1>17. CASE NoMoreCommands \/ ConnectionLost
  BY <1>17 DEF NoMoreCommands, ConnectionLost
<1>18. CASE CheckStillSignedIn \/ WakeUp
  BY <1>18 DEF CheckStillSignedIn, WakeUp
<1>19. CASE UNCHANGED wsVars
  BY <1>19
<1> QED
  BY <1>1, <1>2, <1>3, <1>4, <1>5, <1>6, <1>7, <1>8, <1>9, <1>10, <1>11,
     <1>12, <1>13, <1>14, <1>15, <1>16, <1>17, <1>18, <1>19
  DEF Next, Around, Outer, Connecting, Relay

\* No step leaves a socket without its bearer, a socket outside the relay, or
\* a connection_state that is not the case.
LEMMA ConnectionStep == WsIInv /\ [Next]_wsVars => Connection'
<1> SUFFICES ASSUME WsIInv, [Next]_wsVars PROVE Connection'
  OBVIOUS
<1> USE DEF WsIInv, WsTypeOK, Connection
<1>1. CASE \E a \in Accounts : Ask(a)
  BY <1>1 DEF Ask, AskFor
<1>2. CASE \E a \in Accounts : StoreSession(a)
  BY <1>2 DEF StoreSession, Hold
<1>3. CASE ClearStore
  BY <1>3 DEF ClearStore, Clear
<1>4. CASE \E on \in BOOLEAN : SetActive(on)
  BY <1>4 DEF SetActive
<1>5. CASE SendCommand \/ DropClients
  BY <1>5 DEF SendCommand, DropClients
<1>6. CASE CheckSession \/ AwaitSession
  BY <1>6 DEF CheckSession, AwaitSession
<1>7. CASE CheckActive
  BY <1>7 DEF CheckActive
<1>8. CASE AwaitActive
  BY <1>8 DEF AwaitActive
<1>9. CASE Authorize
  BY <1>9 DEF Authorize
<1>10. CASE AwaitSignIn
  BY <1>10 DEF AwaitSignIn
<1>11. CASE ConnectFails \/ DeflateNegotiated
  BY <1>11 DEF ConnectFails, DeflateNegotiated
<1>12. CASE Connect
  BY <1>12 DEF Connect
<1>13. CASE StartLoop
  BY <1>13 DEF StartLoop
<1>14. CASE SeeSession
  BY <1>14 DEF SeeSession
<1>15. CASE SeeActive
  BY <1>15 DEF SeeActive
<1>16. CASE TakeCommand
  BY <1>16 DEF TakeCommand
<1>17. CASE NoMoreCommands \/ ConnectionLost
  BY <1>17 DEF NoMoreCommands, ConnectionLost
<1>18. CASE CheckStillSignedIn \/ WakeUp
  BY <1>18 DEF CheckStillSignedIn, WakeUp
<1>19. CASE UNCHANGED wsVars
  BY <1>19
<1> QED
  BY <1>1, <1>2, <1>3, <1>4, <1>5, <1>6, <1>7, <1>8, <1>9, <1>10, <1>11,
     <1>12, <1>13, <1>14, <1>15, <1>16, <1>17, <1>18, <1>19
  DEF Next, Around, Outer, Connecting, Relay

\* No step leaves the channels, the label or the bounds ill-typed.
LEMMA OthersStep == WsIInv /\ [Next]_wsVars => Others'
<1> SUFFICES ASSUME WsIInv, [Next]_wsVars PROVE Others'
  OBVIOUS
<1> USE DEF WsIInv, WsTypeOK, Others, WsLabels
<1>1. CASE \E a \in Accounts : Ask(a)
  BY <1>1 DEF Ask, AskFor
<1>2. CASE \E a \in Accounts : StoreSession(a)
  BY <1>2 DEF StoreSession, Hold
<1>3. CASE ClearStore
  BY <1>3 DEF ClearStore, Clear
<1>4. CASE \E on \in BOOLEAN : SetActive(on)
  BY <1>4 DEF SetActive
<1>5. CASE SendCommand \/ DropClients
  <2>1. CASE SendCommand
    <3>1. queued' \in 0 .. QueueSize /\ changesLeft' \in 0 .. MaxChanges
      BY <2>1 DEF SendCommand
    <3> QED
      BY <2>1, <3>1 DEF SendCommand
  <2>2. CASE DropClients
    BY <2>2 DEF DropClients
  <2> QED
    BY <1>5, <2>1, <2>2
<1>6. CASE CheckSession \/ AwaitSession
  BY <1>6 DEF CheckSession, AwaitSession
<1>7. CASE CheckActive
  BY <1>7 DEF CheckActive
<1>8. CASE AwaitActive
  BY <1>8 DEF AwaitActive
<1>9. CASE Authorize
  BY <1>9 DEF Authorize
<1>10. CASE AwaitSignIn
  BY <1>10 DEF AwaitSignIn
<1>11. CASE ConnectFails \/ DeflateNegotiated
  BY <1>11 DEF ConnectFails, DeflateNegotiated
<1>12. CASE Connect
  BY <1>12 DEF Connect
<1>13. CASE StartLoop
  BY <1>13 DEF StartLoop
<1>14. CASE SeeSession
  BY <1>14 DEF SeeSession
<1>15. CASE SeeActive
  BY <1>15 DEF SeeActive
<1>16. CASE TakeCommand
  <2>1. queued' = queued - 1 /\ queued > 0 /\ queued \in Nat
    BY <1>16 DEF TakeCommand
  <2>2. queued' \in 0 .. QueueSize
    BY <2>1
  <2> QED
    BY <1>16, <2>2 DEF TakeCommand
<1>17. CASE NoMoreCommands \/ ConnectionLost
  BY <1>17 DEF NoMoreCommands, ConnectionLost
<1>18. CASE CheckStillSignedIn \/ WakeUp
  BY <1>18 DEF CheckStillSignedIn, WakeUp
<1>19. CASE UNCHANGED wsVars
  BY <1>19
<1> QED
  BY <1>1, <1>2, <1>3, <1>4, <1>5, <1>6, <1>7, <1>8, <1>9, <1>10, <1>11,
     <1>12, <1>13, <1>14, <1>15, <1>16, <1>17, <1>18, <1>19
  DEF Next, Around, Outer, Connecting, Relay

\* No step makes the task forget that a channel changed before it looked: this
\* is where the order of the reads in spawn_ws_task and connect_and_run counts.
LEMMA UnreadStep == WsIInv /\ [Next]_wsVars => Unread'
<1> SUFFICES ASSUME WsIInv, [Next]_wsVars PROVE Unread'
  OBVIOUS
<1> USE DEF WsIInv, WsTypeOK, Unread
<1>1. CASE \E a \in Accounts : Ask(a)
  BY <1>1 DEF Ask, AskFor
<1>2. CASE \E a \in Accounts : StoreSession(a)
  BY <1>2 DEF StoreSession, Hold
<1>3. CASE ClearStore
  BY <1>3 DEF ClearStore, Clear
<1>4. CASE \E on \in BOOLEAN : SetActive(on)
  BY <1>4 DEF SetActive
<1>5. CASE SendCommand \/ DropClients
  BY <1>5 DEF SendCommand, DropClients
<1>6. CASE CheckSession \/ AwaitSession
  BY <1>6 DEF CheckSession, AwaitSession
<1>7. CASE CheckActive
  BY <1>7 DEF CheckActive
<1>8. CASE AwaitActive
  BY <1>8 DEF AwaitActive
<1>9. CASE Authorize
  BY <1>9 DEF Authorize
<1>10. CASE AwaitSignIn
  BY <1>10 DEF AwaitSignIn
<1>11. CASE ConnectFails \/ DeflateNegotiated
  BY <1>11 DEF ConnectFails, DeflateNegotiated
<1>12. CASE Connect
  BY <1>12 DEF Connect
<1>13. CASE StartLoop
  BY <1>13 DEF StartLoop
<1>14. CASE SeeSession
  BY <1>14 DEF SeeSession
<1>15. CASE SeeActive
  BY <1>15 DEF SeeActive
<1>16. CASE TakeCommand
  BY <1>16 DEF TakeCommand
<1>17. CASE NoMoreCommands \/ ConnectionLost
  BY <1>17 DEF NoMoreCommands, ConnectionLost
<1>18. CASE CheckStillSignedIn \/ WakeUp
  BY <1>18 DEF CheckStillSignedIn, WakeUp
<1>19. CASE UNCHANGED wsVars
  BY <1>19
<1> QED
  BY <1>1, <1>2, <1>3, <1>4, <1>5, <1>6, <1>7, <1>8, <1>9, <1>10, <1>11,
     <1>12, <1>13, <1>14, <1>15, <1>16, <1>17, <1>18, <1>19
  DEF Next, Around, Outer, Connecting, Relay

\* The invariant is inductive: the four parts make it up.
LEMMA WsStep == WsIInv /\ [Next]_wsVars => WsIInv'
  BY StoredStep, ConnectionStep, OthersStep, UnreadStep
  DEF WsIInv, WsTypeOK, Stored, Connection, Others, Unread

\* However sign-outs, sign-ins and changes of activity fall between the reads
\* of the watch channels, the message loop has them still to read.
THEOREM WakeupsKept == Spec => []NoLostWakeup
<1>1. WsIInv => NoLostWakeup
  BY DEF WsIInv, NoLostWakeup
<1> QED
  BY <1>1, WsInit, WsStep, PTL DEF Spec

\* The variables keep their types and connection_state tells the truth.
THEOREM WsTypeCorrect == Spec => []WsTypeOK
<1>1. WsIInv => WsTypeOK
  BY DEF WsIInv
<1> QED
  BY <1>1, WsInit, WsStep, PTL DEF Spec

\* The account held is one that was asked for, and so is the one whose token
\* the task has, unless the session was cleared since it took it.
Names ==
  /\ held # NoAccount => held \in consent
  /\ bearer # NoAccount => outlived \/ bearer \in consent

LEMMA NamesInit == Init => Names
  BY DEF Init, StoreInit, Names

\* Nothing that is asked for is forgotten but by a clear, which marks the
\* token; and a token is taken of the account that is held then.
LEMMA NamesStep == WsIInv /\ Names /\ [Next]_wsVars => Names'
<1> SUFFICES ASSUME WsIInv, Names, [Next]_wsVars PROVE Names'
  OBVIOUS
<1> USE DEF Names
<1>1. CASE \E a \in Accounts : Ask(a)
  BY <1>1 DEF Ask, AskFor
<1>2. CASE \E a \in Accounts : StoreSession(a)
  BY <1>2 DEF StoreSession, Hold
<1>3. CASE ClearStore
  BY <1>3 DEF ClearStore, Clear
<1>4. CASE Authorize
  BY <1>4 DEF Authorize
<1>5. CASE CheckActive
  BY <1>5 DEF CheckActive
<1>7. CASE Connecting \/ AwaitSession \/ CheckSession \/ AwaitActive
             \/ AwaitSignIn \/ CheckStillSignedIn \/ WakeUp
  BY <1>7 DEF Connecting, ConnectFails, DeflateNegotiated, Connect,
     AwaitSession, CheckSession, AwaitActive, AwaitSignIn, CheckStillSignedIn,
     WakeUp
<1>8. CASE Relay
  BY <1>8 DEF Relay, StartLoop, SeeSession, SeeActive, TakeCommand,
     NoMoreCommands, ConnectionLost
<1>9. CASE UNCHANGED wsVars \/ SendCommand \/ DropClients
             \/ \E on \in BOOLEAN : SetActive(on)
  BY <1>9 DEF SendCommand, DropClients, SetActive
<1> QED
  BY <1>1, <1>2, <1>3, <1>4, <1>5, <1>7, <1>8, <1>9 DEF Next, Around, Outer

\* The websocket works in the name of an account that was asked for and not
\* signed out of since, or one that was signed out of after its token was taken;
\* and of that the message loop has yet to be told, while no other is signed in.
THEOREM SocketsAskedFor == Spec => []SocketAskedFor
<1>1. WsIInv /\ Names => SocketAskedFor
  BY DEF WsIInv, Names, SocketAskedFor
<1> QED
  BY <1>1, WsInit, WsStep, NamesInit, NamesStep, PTL DEF Spec
=============================================================================
