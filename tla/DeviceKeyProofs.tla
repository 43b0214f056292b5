-------------------------- MODULE DeviceKeyProofs --------------------------
(***************************************************************************)
(* Proofs about DeviceKey, for any tasks, accounts and bound.              *)
(***************************************************************************)
EXTENDS DeviceKey, TLAPS

USE KeyStoreAssumption, KeyTasksAssumption, CallsAssumption
USE DEF Move, Local, Return, Spend, Free, Registering,
        storeVars, identity, history

(***************************************************************************)
(* The type invariant, in two halves: what is shared and what is a task's. *)
(***************************************************************************)
SharedOK ==
  /\ held \in Accounts \union {NoAccount}
  /\ usable \in BOOLEAN /\ (usable => held # NoAccount)
  /\ consent \in SUBSET Accounts
  /\ slot \in Key /\ watched \in Key
  /\ signing \in Tasks \union {NoTask}
  /\ device \in Nat /\ rotations \in Nat
  /\ signOuts \in Nat /\ forgotten \in Nat /\ shed \in Nat
  /\ callsLeft \in 0 .. MaxCalls

TasksOK ==
  /\ at \in [Tasks -> KeyLabels]
  /\ call \in [Tasks -> Call]

\* The type invariant is its two halves, in this state and in the next.
LEMMA Halves == /\ KeyTypeOK <=> SharedOK /\ TasksOK
                /\ KeyTypeOK' <=> SharedOK' /\ TasksOK'
  BY DEF KeyTypeOK, SharedOK, TasksOK

\* clear_session leaves the store typed.
LEMMA Cleared ==
  Clear => /\ held' \in Accounts \union {NoAccount} /\ usable' \in BOOLEAN
           /\ (usable' => held' # NoAccount) /\ consent' \in SUBSET Accounts
<1> SUFFICES ASSUME Clear
             PROVE /\ held' \in Accounts \union {NoAccount}
                   /\ usable' \in BOOLEAN
                   /\ (usable' => held' # NoAccount)
                   /\ consent' \in SUBSET Accounts
  OBVIOUS
<1>1. held' = NoAccount /\ usable' = FALSE /\ consent' = {}
  BY DEF Clear
<1> QED
  BY <1>1

\* A task that is not in a call has local variables of the right type.
LEMMA Nothing == NoKey \in Key /\ NoCall \in Call
  BY DEF NoKey, NoCall, Key, Call, Kinds

\* What is shared keeps its type.
LEMMA SharedStep == KInv /\ [Next]_keyVars => SharedOK'
<1> SUFFICES ASSUME KInv, [Next]_keyVars PROVE SharedOK'
  OBVIOUS
<1> USE DEF KInv, KeyTypeOK, SharedOK
<1>1. CASE SessionStep
  <2>1. CASE \E a \in Accounts : AskFor(a)
    BY <1>1, <2>1 DEF SessionStep, AskFor
  <2>2. CASE \E a \in Accounts : Hold(a)
    BY <1>1, <2>2 DEF SessionStep, Hold
  <2>3. CASE Clear
    BY <1>1, <2>3, Cleared DEF SessionStep
  <2> QED
    BY <1>1, <2>1, <2>2, <2>3 DEF SessionStep
<1>2. ASSUME NEW t \in Tasks, StartSigned(t) PROVE SharedOK'
  BY <1>2 DEF StartSigned, Start
<1>3. ASSUME NEW t \in Tasks, StartSignOut(t) PROVE SharedOK'
  BY <1>3, Cleared DEF StartSignOut
<1>4. ASSUME NEW t \in Tasks, StartRotate(t) PROVE SharedOK'
  BY <1>4 DEF StartRotate
<1>5. ASSUME NEW t \in Tasks, StartReset(t) PROVE SharedOK'
  BY <1>5 DEF StartReset
<1>6. ASSUME NEW t \in Tasks, NEW a \in Accounts, StartRestore(t, a)
      PROVE SharedOK'
  BY <1>6 DEF StartRestore
<1>7. ASSUME NEW t \in Tasks, Abandon(t) PROVE SharedOK'
  BY <1>7 DEF Abandon
<1>8. ASSUME NEW t \in Tasks, LockSlot(t) PROVE SharedOK'
  BY <1>8 DEF LockSlot, Ensured
<1>9. ASSUME NEW t \in Tasks, Put(t) PROVE SharedOK'
  BY <1>9 DEF Put, Call, KeyOf, Key
<1>10. ASSUME NEW t \in Tasks, Drop(t) PROVE SharedOK'
  <2>1. call[t].signOuts \in Nat /\ call[t].rotations \in Nat
    BY DEF Call
  <2> QED
    BY <1>10, <2>1, Nothing DEF Drop, Settle
<1>11. ASSUME NEW t \in Tasks, Sign(t) PROVE SharedOK'
  BY <1>11 DEF Sign
<1>12. ASSUME NEW t \in Tasks, Swap(t) PROVE SharedOK'
  BY <1>12 DEF Swap, Call
<1>13. ASSUME NEW t \in Tasks, Publish(t) PROVE SharedOK'
  BY <1>13 DEF Publish, Call, KeyOf, Key
<1>14. ASSUME NEW t \in Tasks, Unpublish(t) PROVE SharedOK'
  BY <1>14, Nothing DEF Unpublish
<1>15. ASSUME NEW t \in Tasks, ReadUser(t) PROVE SharedOK'
  BY <1>15 DEF ReadUser
<1>16. ASSUME NEW t \in Tasks, Challenge(t) PROVE SharedOK'
  BY <1>16 DEF Challenge, NotEnsured
<1>17. ASSUME NEW t \in Tasks, Register(t) PROVE SharedOK'
  BY <1>17 DEF Register, NotEnsured
<1>18. ASSUME NEW t \in Tasks, RegisterAgain(t) PROVE SharedOK'
  BY <1>18 DEF RegisterAgain, NotEnsured
<1>19. ASSUME NEW t \in Tasks, Registered(t) PROVE SharedOK'
  BY <1>19 DEF Registered, Ensured, Call, KeyOf, Key
<1>20. ASSUME NEW t \in Tasks, RegistrationFails(t) PROVE SharedOK'
  BY <1>20 DEF RegistrationFails, NotEnsured
<1>21. ASSUME NEW t \in Tasks, AuthorizeUpload(t) PROVE SharedOK'
  BY <1>21 DEF AuthorizeUpload
<1>22. ASSUME NEW t \in Tasks, SendAgain(t) PROVE SharedOK'
  BY <1>22 DEF SendAgain
<1>23. ASSUME NEW t \in Tasks, Refused(t) PROVE SharedOK'
  BY <1>23 DEF Refused
<1>24. ASSUME NEW t \in Tasks, Answered(t) PROVE SharedOK'
  BY <1>24 DEF Answered
<1>25. CASE UNCHANGED keyVars
  BY <1>25 DEF keyVars
<1> QED
  BY <1>1, <1>2, <1>3, <1>4, <1>5, <1>6, <1>7, <1>8, <1>9, <1>10,
     <1>11, <1>12, <1>13, <1>14, <1>15, <1>16, <1>17, <1>18, <1>19, <1>20,
     <1>21, <1>22, <1>23, <1>24, <1>25
  DEF Next, Application, Waiting, Going

\* What is a task's keeps its type.
LEMMA TasksStep == KInv /\ [Next]_keyVars => TasksOK'
<1> SUFFICES ASSUME KInv, [Next]_keyVars PROVE TasksOK'
  OBVIOUS
<1> USE DEF KInv, KeyTypeOK, TasksOK, KeyLabels
<1>1. CASE SessionStep
  BY <1>1 DEF SessionStep, AskFor, Hold, Clear
<1>2. ASSUME NEW t \in Tasks, StartSigned(t) PROVE TasksOK'
  BY <1>2, Nothing DEF StartSigned, Start, Call, Kinds
<1>3. ASSUME NEW t \in Tasks, StartSignOut(t) PROVE TasksOK'
  <2>1. signOuts' \in Nat
    BY <1>3 DEF StartSignOut
  <2>2. [NoCall EXCEPT !.kind = "sign_out", !.signOuts = signOuts'] \in Call
    BY <2>1, Nothing DEF Call, Kinds
  <2> QED
    BY <1>3, <2>2 DEF StartSignOut
<1>4. ASSUME NEW t \in Tasks, StartRotate(t) PROVE TasksOK'
  <2>1. rotations' \in Nat
    BY <1>4 DEF StartRotate
  <2>2. [NoCall EXCEPT !.kind = "rotate", !.rotations = rotations'] \in Call
    BY <2>1, Nothing DEF Call, Kinds
  <2> QED
    BY <1>4, <2>2 DEF StartRotate
<1>5. ASSUME NEW t \in Tasks, StartReset(t) PROVE TasksOK'
  BY <1>5, Nothing DEF StartReset, Call, Kinds
<1>6. ASSUME NEW t \in Tasks, NEW a \in Accounts, StartRestore(t, a)
      PROVE TasksOK'
  BY <1>6, Nothing DEF StartRestore, Call, Kinds, Key
<1>7. ASSUME NEW t \in Tasks, Abandon(t) PROVE TasksOK'
  BY <1>7, Nothing DEF Abandon
<1>8. ASSUME NEW t \in Tasks, LockSlot(t) PROVE TasksOK'
  <2>2. [call[t] EXCEPT !.rotations = rotations] \in Call
    BY DEF Call
  <2>1. [NoCall EXCEPT !.kind = "upload"] \in Call
    BY Nothing DEF Call, Kinds
  <2> QED
    BY <1>8, <2>1, <2>2, Nothing DEF LockSlot, Ensured
<1>9. ASSUME NEW t \in Tasks, Put(t) PROVE TasksOK'
  BY <1>9 DEF Put
<1>10. ASSUME NEW t \in Tasks, Drop(t) PROVE TasksOK'
  BY <1>10 DEF Drop, Settle
<1>11. ASSUME NEW t \in Tasks, Sign(t) PROVE TasksOK'
  BY <1>11, Nothing DEF Sign
<1>12. ASSUME NEW t \in Tasks, Swap(t) PROVE TasksOK'
  BY <1>12, Nothing DEF Swap
<1>13. ASSUME NEW t \in Tasks, Publish(t) PROVE TasksOK'
  BY <1>13, Nothing DEF Publish
<1>14. ASSUME NEW t \in Tasks, Unpublish(t) PROVE TasksOK'
  BY <1>14, Nothing DEF Unpublish
<1>15. ASSUME NEW t \in Tasks, ReadUser(t) PROVE TasksOK'
  <2>1. [call[t] EXCEPT !.user = held] \in Call
    BY DEF Call
  <2> QED
    BY <1>15, <2>1, Nothing DEF ReadUser
<1>16. ASSUME NEW t \in Tasks, Challenge(t) PROVE TasksOK'
  BY <1>16, Nothing DEF Challenge, NotEnsured
<1>17. ASSUME NEW t \in Tasks, Register(t) PROVE TasksOK'
  <2>1. [call[t] EXCEPT !.by = held, !.signOuts = signOuts] \in Call
    BY DEF Call
  <2> QED
    BY <1>17, <2>1, Nothing DEF Register, NotEnsured
<1>18. ASSUME NEW t \in Tasks, RegisterAgain(t) PROVE TasksOK'
  <2>1. [call[t] EXCEPT !.retries = 1, !.signOuts = signOuts] \in Call
    <3>1. 1 \in 0 .. 2
      OBVIOUS
    <3> QED
      BY <3>1 DEF Call
  <2> QED
    BY <1>18, <2>1, Nothing DEF RegisterAgain, NotEnsured
<1>19. ASSUME NEW t \in Tasks, Registered(t) PROVE TasksOK'
  <2>1. [NoCall EXCEPT !.kind = "upload"] \in Call
    BY Nothing DEF Call, Kinds
  <2> QED
    BY <1>19, <2>1, Nothing DEF Registered, Ensured
<1>20. ASSUME NEW t \in Tasks, RegistrationFails(t) PROVE TasksOK'
  BY <1>20, Nothing DEF RegistrationFails, NotEnsured
<1>21. ASSUME NEW t \in Tasks, AuthorizeUpload(t) PROVE TasksOK'
  <2>1. [call[t] EXCEPT !.by = held] \in Call
    BY DEF Call
  <2> QED
    BY <1>21, <2>1, Nothing DEF AuthorizeUpload
<1>22. ASSUME NEW t \in Tasks, SendAgain(t) PROVE TasksOK'
  <2>1. call[t].retries < 2 => [call[t] EXCEPT !.retries = @ + 1] \in Call
    BY DEF Call
  <2> QED
    BY <1>22, <2>1, Nothing DEF SendAgain
<1>23. ASSUME NEW t \in Tasks, Refused(t) PROVE TasksOK'
  BY <1>23 DEF Refused
<1>24. ASSUME NEW t \in Tasks, Answered(t) PROVE TasksOK'
  BY <1>24, Nothing DEF Answered
<1>25. CASE UNCHANGED keyVars
  BY <1>25 DEF keyVars
<1> QED
  BY <1>1, <1>2, <1>3, <1>4, <1>5, <1>6, <1>7, <1>8, <1>9, <1>10,
     <1>11, <1>12, <1>13, <1>14, <1>15, <1>16, <1>17, <1>18, <1>19, <1>20,
     <1>21, <1>22, <1>23, <1>24, <1>25
  DEF Next, Application, Waiting, Going

\* A registration takes the mutex with its first step and gives it back with
\* its last, and whoever drops its future gives it back too.
LEMMA HeldStep == KInv /\ [Next]_keyVars => HeldByRegistration'
<1> SUFFICES ASSUME KInv, [Next]_keyVars PROVE HeldByRegistration'
  OBVIOUS
<1> USE DEF KInv, KeyTypeOK, HeldByRegistration
<1>1. CASE SessionStep
  BY <1>1 DEF SessionStep, AskFor, Hold, Clear
<1>2. ASSUME NEW t \in Tasks, StartSigned(t) PROVE HeldByRegistration'
  BY <1>2 DEF StartSigned, Start
<1>3. ASSUME NEW t \in Tasks, StartSignOut(t) PROVE HeldByRegistration'
  BY <1>3 DEF StartSignOut, Clear
<1>4. ASSUME NEW t \in Tasks, StartRotate(t) PROVE HeldByRegistration'
  BY <1>4 DEF StartRotate
<1>5. ASSUME NEW t \in Tasks, StartReset(t) PROVE HeldByRegistration'
  BY <1>5 DEF StartReset
<1>6. ASSUME NEW t \in Tasks, NEW a \in Accounts, StartRestore(t, a)
      PROVE HeldByRegistration'
  BY <1>6 DEF StartRestore
<1>7. ASSUME NEW t \in Tasks, Abandon(t) PROVE HeldByRegistration'
  BY <1>7 DEF Abandon
<1>8. ASSUME NEW t \in Tasks, LockSlot(t) PROVE HeldByRegistration'
  BY <1>8 DEF LockSlot, Ensured
<1>9. ASSUME NEW t \in Tasks, Put(t) PROVE HeldByRegistration'
  BY <1>9 DEF Put
<1>10. ASSUME NEW t \in Tasks, Drop(t) PROVE HeldByRegistration'
  BY <1>10 DEF Drop, Settle
<1>11. ASSUME NEW t \in Tasks, Sign(t) PROVE HeldByRegistration'
  BY <1>11 DEF Sign
<1>12. ASSUME NEW t \in Tasks, Swap(t) PROVE HeldByRegistration'
  BY <1>12 DEF Swap
<1>13. ASSUME NEW t \in Tasks, Publish(t) PROVE HeldByRegistration'
  BY <1>13 DEF Publish
<1>14. ASSUME NEW t \in Tasks, Unpublish(t) PROVE HeldByRegistration'
  BY <1>14 DEF Unpublish
<1>15. ASSUME NEW t \in Tasks, ReadUser(t) PROVE HeldByRegistration'
  BY <1>15 DEF ReadUser
<1>16. ASSUME NEW t \in Tasks, Challenge(t) PROVE HeldByRegistration'
  BY <1>16 DEF Challenge, NotEnsured
<1>17. ASSUME NEW t \in Tasks, Register(t) PROVE HeldByRegistration'
  BY <1>17 DEF Register, NotEnsured
<1>18. ASSUME NEW t \in Tasks, RegisterAgain(t) PROVE HeldByRegistration'
  BY <1>18 DEF RegisterAgain, NotEnsured
<1>19. ASSUME NEW t \in Tasks, Registered(t) PROVE HeldByRegistration'
  BY <1>19 DEF Registered, Ensured
<1>20. ASSUME NEW t \in Tasks, RegistrationFails(t) PROVE HeldByRegistration'
  BY <1>20 DEF RegistrationFails, NotEnsured
<1>21. ASSUME NEW t \in Tasks, AuthorizeUpload(t) PROVE HeldByRegistration'
  BY <1>21 DEF AuthorizeUpload
<1>22. ASSUME NEW t \in Tasks, SendAgain(t) PROVE HeldByRegistration'
  BY <1>22 DEF SendAgain
<1>23. ASSUME NEW t \in Tasks, Refused(t) PROVE HeldByRegistration'
  BY <1>23 DEF Refused
<1>24. ASSUME NEW t \in Tasks, Answered(t) PROVE HeldByRegistration'
  BY <1>24 DEF Answered
<1>25. CASE UNCHANGED keyVars
  BY <1>25 DEF keyVars
<1> QED
  BY <1>1, <1>2, <1>3, <1>4, <1>5, <1>6, <1>7, <1>8, <1>9, <1>10,
     <1>11, <1>12, <1>13, <1>14, <1>15, <1>16, <1>17, <1>18, <1>19, <1>20,
     <1>21, <1>22, <1>23, <1>24, <1>25
  DEF Next, Application, Waiting, Going

\* The part of the invariant that counts.
Counts == forgotten <= signOuts /\ shed <= rotations

\* clear_signing empties the slot for calls that were made.
LEMMA CountsStep == KInv /\ [Next]_keyVars => Counts'
<1> SUFFICES ASSUME KInv, [Next]_keyVars PROVE Counts'
  OBVIOUS
<1> USE DEF KInv, KeyTypeOK, Counts, Marked
<1>1. CASE SessionStep
  BY <1>1 DEF SessionStep, AskFor, Hold, Clear
<1>2. ASSUME NEW t \in Tasks, StartSigned(t) PROVE Counts'
  BY <1>2 DEF StartSigned, Start
<1>3. ASSUME NEW t \in Tasks, StartSignOut(t) PROVE Counts'
  BY <1>3 DEF StartSignOut, Clear
<1>4. ASSUME NEW t \in Tasks, StartRotate(t) PROVE Counts'
  BY <1>4 DEF StartRotate
<1>5. ASSUME NEW t \in Tasks, StartReset(t) PROVE Counts'
  BY <1>5 DEF StartReset
<1>6. ASSUME NEW t \in Tasks, NEW a \in Accounts, StartRestore(t, a)
      PROVE Counts'
  BY <1>6 DEF StartRestore
<1>7. ASSUME NEW t \in Tasks, Abandon(t) PROVE Counts'
  BY <1>7 DEF Abandon
<1>8. ASSUME NEW t \in Tasks, LockSlot(t) PROVE Counts'
  BY <1>8 DEF LockSlot, Ensured
<1>9. ASSUME NEW t \in Tasks, Put(t) PROVE Counts'
  BY <1>9 DEF Put
<1>10. ASSUME NEW t \in Tasks, Drop(t) PROVE Counts'
  <2>1. call[t].signOuts \in Nat /\ call[t].rotations \in Nat
    BY DEF Call
  <2> QED
    BY <1>10, <2>1 DEF Drop, Settle
<1>11. ASSUME NEW t \in Tasks, Sign(t) PROVE Counts'
  BY <1>11 DEF Sign
<1>12. ASSUME NEW t \in Tasks, Swap(t) PROVE Counts'
  BY <1>12 DEF Swap
<1>13. ASSUME NEW t \in Tasks, Publish(t) PROVE Counts'
  BY <1>13 DEF Publish
<1>14. ASSUME NEW t \in Tasks, Unpublish(t) PROVE Counts'
  BY <1>14 DEF Unpublish
<1>15. ASSUME NEW t \in Tasks, ReadUser(t) PROVE Counts'
  BY <1>15 DEF ReadUser
<1>16. ASSUME NEW t \in Tasks, Challenge(t) PROVE Counts'
  BY <1>16 DEF Challenge, NotEnsured
<1>17. ASSUME NEW t \in Tasks, Register(t) PROVE Counts'
  BY <1>17 DEF Register, NotEnsured
<1>18. ASSUME NEW t \in Tasks, RegisterAgain(t) PROVE Counts'
  BY <1>18 DEF RegisterAgain, NotEnsured
<1>19. ASSUME NEW t \in Tasks, Registered(t) PROVE Counts'
  BY <1>19 DEF Registered, Ensured
<1>20. ASSUME NEW t \in Tasks, RegistrationFails(t) PROVE Counts'
  BY <1>20 DEF RegistrationFails, NotEnsured
<1>21. ASSUME NEW t \in Tasks, AuthorizeUpload(t) PROVE Counts'
  BY <1>21 DEF AuthorizeUpload
<1>22. ASSUME NEW t \in Tasks, SendAgain(t) PROVE Counts'
  BY <1>22 DEF SendAgain
<1>23. ASSUME NEW t \in Tasks, Refused(t) PROVE Counts'
  BY <1>23 DEF Refused
<1>24. ASSUME NEW t \in Tasks, Answered(t) PROVE Counts'
  BY <1>24 DEF Answered
<1>25. CASE UNCHANGED keyVars
  BY <1>25 DEF keyVars
<1> QED
  BY <1>1, <1>2, <1>3, <1>4, <1>5, <1>6, <1>7, <1>8, <1>9, <1>10,
     <1>11, <1>12, <1>13, <1>14, <1>15, <1>16, <1>17, <1>18, <1>19, <1>20,
     <1>21, <1>22, <1>23, <1>24, <1>25
  DEF Next, Application, Waiting, Going

\* The part of the invariant that is about the tasks.
AllBind == \A t \in Tasks : Binds(t)
AllMarked == \A t \in Tasks : Marked(t)
AllEnsure == \A t \in Tasks : Ensuring(t)

\* While a registration is under way nobody empties the slot, so what it
\* counted stays recent enough.
LEMMA BindsStep == KInv /\ [Next]_keyVars => AllBind'
<1> SUFFICES ASSUME KInv, [Next]_keyVars PROVE AllBind'
  OBVIOUS
<1> USE DEF KInv, KeyTypeOK, AllBind, Binds, Call, Key, NoCall, NoKey,
            HeldByRegistration
<1>1. CASE SessionStep
  BY <1>1 DEF SessionStep, AskFor, Hold, Clear
<1>2. ASSUME NEW t \in Tasks, StartSigned(t) PROVE AllBind'
  BY <1>2 DEF StartSigned, Start
<1>3. ASSUME NEW t \in Tasks, StartSignOut(t) PROVE AllBind'
  BY <1>3 DEF StartSignOut, Clear
<1>4. ASSUME NEW t \in Tasks, StartRotate(t) PROVE AllBind'
  BY <1>4 DEF StartRotate
<1>5. ASSUME NEW t \in Tasks, StartReset(t) PROVE AllBind'
  BY <1>5 DEF StartReset
<1>6. ASSUME NEW t \in Tasks, NEW a \in Accounts, StartRestore(t, a)
      PROVE AllBind'
  BY <1>6 DEF StartRestore
<1>7. ASSUME NEW t \in Tasks, Abandon(t) PROVE AllBind'
  BY <1>7 DEF Abandon
<1>8. ASSUME NEW t \in Tasks, LockSlot(t) PROVE AllBind'
  BY <1>8 DEF LockSlot, Ensured
<1>9. ASSUME NEW t \in Tasks, Put(t) PROVE AllBind'
  BY <1>9 DEF Put
<1>10. ASSUME NEW t \in Tasks, Drop(t) PROVE AllBind'
  BY <1>10 DEF Drop, Settle
<1>11. ASSUME NEW t \in Tasks, Sign(t) PROVE AllBind'
  BY <1>11 DEF Sign
<1>12. ASSUME NEW t \in Tasks, Swap(t) PROVE AllBind'
  BY <1>12 DEF Swap
<1>13. ASSUME NEW t \in Tasks, Publish(t) PROVE AllBind'
  BY <1>13 DEF Publish
<1>14. ASSUME NEW t \in Tasks, Unpublish(t) PROVE AllBind'
  BY <1>14 DEF Unpublish
<1>15. ASSUME NEW t \in Tasks, ReadUser(t) PROVE AllBind'
  BY <1>15 DEF ReadUser
<1>16. ASSUME NEW t \in Tasks, Challenge(t) PROVE AllBind'
  BY <1>16 DEF Challenge, NotEnsured
<1>17. ASSUME NEW t \in Tasks, Register(t) PROVE AllBind'
  <2>1. CASE /\ signing' = signing /\ signOuts' = signOuts /\ slot' = slot
             /\ call' = [call EXCEPT ![t] =
                         [call[t] EXCEPT !.by = held, !.signOuts = signOuts]]
    <3>1. /\ call'[t].user = call[t].user /\ call'[t].kind = call[t].kind
          /\ call'[t].signOuts = signOuts
          /\ call'[t].rotations = call[t].rotations
          /\ \A u \in Tasks \ {t} : call'[u] = call[u]
      BY <2>1
    <3> QED
      BY <1>17, <2>1, <3>1 DEF Register, NotEnsured
  <2>2. CASE NotEnsured(t)
    BY <1>17, <2>2 DEF Register, NotEnsured
  <2> QED
    BY <1>17, <2>1, <2>2 DEF Register
<1>18. ASSUME NEW t \in Tasks, RegisterAgain(t) PROVE AllBind'
  <2>1. CASE /\ signing' = signing /\ signOuts' = signOuts /\ slot' = slot
             /\ call' = [call EXCEPT ![t] =
                         [call[t] EXCEPT !.retries = 1, !.signOuts = signOuts]]
    <3>1. /\ call'[t].user = call[t].user /\ call'[t].kind = call[t].kind
          /\ call'[t].signOuts = signOuts
          /\ call'[t].rotations = call[t].rotations
          /\ \A u \in Tasks \ {t} : call'[u] = call[u]
      BY <2>1
    <3> QED
      BY <1>18, <2>1, <3>1 DEF RegisterAgain, NotEnsured
  <2>2. CASE NotEnsured(t)
    BY <1>18, <2>2 DEF RegisterAgain, NotEnsured
  <2> QED
    BY <1>18, <2>1, <2>2 DEF RegisterAgain
<1>19. ASSUME NEW t \in Tasks, Registered(t) PROVE AllBind'
  BY <1>19 DEF Registered, Ensured
<1>20. ASSUME NEW t \in Tasks, RegistrationFails(t) PROVE AllBind'
  BY <1>20 DEF RegistrationFails, NotEnsured
<1>21. ASSUME NEW t \in Tasks, AuthorizeUpload(t) PROVE AllBind'
  BY <1>21 DEF AuthorizeUpload
<1>22. ASSUME NEW t \in Tasks, SendAgain(t) PROVE AllBind'
  BY <1>22 DEF SendAgain
<1>23. ASSUME NEW t \in Tasks, Refused(t) PROVE AllBind'
  BY <1>23 DEF Refused
<1>24. ASSUME NEW t \in Tasks, Answered(t) PROVE AllBind'
  BY <1>24 DEF Answered
<1>25. CASE UNCHANGED keyVars
  BY <1>25 DEF keyVars
<1> QED
  BY <1>1, <1>2, <1>3, <1>4, <1>5, <1>6, <1>7, <1>8, <1>9, <1>10,
     <1>11, <1>12, <1>13, <1>14, <1>15, <1>16, <1>17, <1>18, <1>19, <1>20,
     <1>21, <1>22, <1>23, <1>24, <1>25
  DEF Next, Application, Waiting, Going

\* Restored keys say so, and a call is counted before it empties the slot.
LEMMA MarkedStep == KInv /\ [Next]_keyVars => AllMarked'
<1> SUFFICES ASSUME KInv, [Next]_keyVars PROVE AllMarked'
  OBVIOUS
<1> USE DEF KInv, KeyTypeOK, AllMarked, Marked, Ensuring, Call, Key, NoCall,
            NoKey
<1>1. CASE SessionStep
  BY <1>1 DEF SessionStep, AskFor, Hold, Clear
<1>2. ASSUME NEW t \in Tasks, StartSigned(t) PROVE AllMarked'
  BY <1>2 DEF StartSigned, Start
<1>3. ASSUME NEW t \in Tasks, StartSignOut(t) PROVE AllMarked'
  BY <1>3 DEF StartSignOut, Clear
<1>4. ASSUME NEW t \in Tasks, StartRotate(t) PROVE AllMarked'
  BY <1>4 DEF StartRotate
<1>5. ASSUME NEW t \in Tasks, StartReset(t) PROVE AllMarked'
  BY <1>5 DEF StartReset
<1>6. ASSUME NEW t \in Tasks, NEW a \in Accounts, StartRestore(t, a)
      PROVE AllMarked'
  BY <1>6 DEF StartRestore
<1>7. ASSUME NEW t \in Tasks, Abandon(t) PROVE AllMarked'
  BY <1>7 DEF Abandon
<1>8. ASSUME NEW t \in Tasks, LockSlot(t) PROVE AllMarked'
  BY <1>8 DEF LockSlot, Ensured
<1>9. ASSUME NEW t \in Tasks, Put(t) PROVE AllMarked'
  BY <1>9 DEF Put
<1>10. ASSUME NEW t \in Tasks, Drop(t) PROVE AllMarked'
  BY <1>10 DEF Drop, Settle
<1>11. ASSUME NEW t \in Tasks, Sign(t) PROVE AllMarked'
  BY <1>11 DEF Sign
<1>12. ASSUME NEW t \in Tasks, Swap(t) PROVE AllMarked'
  BY <1>12 DEF Swap
<1>13. ASSUME NEW t \in Tasks, Publish(t) PROVE AllMarked'
  BY <1>13 DEF Publish
<1>14. ASSUME NEW t \in Tasks, Unpublish(t) PROVE AllMarked'
  BY <1>14 DEF Unpublish
<1>15. ASSUME NEW t \in Tasks, ReadUser(t) PROVE AllMarked'
  BY <1>15 DEF ReadUser
<1>16. ASSUME NEW t \in Tasks, Challenge(t) PROVE AllMarked'
  BY <1>16 DEF Challenge, NotEnsured
<1>17. ASSUME NEW t \in Tasks, Register(t) PROVE AllMarked'
  <2>1. CASE /\ signing' = signing /\ signOuts' = signOuts /\ slot' = slot
             /\ call' = [call EXCEPT ![t] =
                         [call[t] EXCEPT !.by = held, !.signOuts = signOuts]]
    <3>1. /\ call'[t].user = call[t].user /\ call'[t].kind = call[t].kind
          /\ call'[t].signOuts = signOuts
          /\ call'[t].rotations = call[t].rotations
          /\ \A u \in Tasks \ {t} : call'[u] = call[u]
      BY <2>1
    <3> QED
      BY <1>17, <2>1, <3>1 DEF Register, NotEnsured
  <2>2. CASE NotEnsured(t)
    BY <1>17, <2>2 DEF Register, NotEnsured
  <2> QED
    BY <1>17, <2>1, <2>2 DEF Register
<1>18. ASSUME NEW t \in Tasks, RegisterAgain(t) PROVE AllMarked'
  <2>1. CASE /\ signing' = signing /\ signOuts' = signOuts /\ slot' = slot
             /\ call' = [call EXCEPT ![t] =
                         [call[t] EXCEPT !.retries = 1, !.signOuts = signOuts]]
    <3>1. /\ call'[t].user = call[t].user /\ call'[t].kind = call[t].kind
          /\ call'[t].signOuts = signOuts
          /\ call'[t].rotations = call[t].rotations
          /\ \A u \in Tasks \ {t} : call'[u] = call[u]
      BY <2>1
    <3> QED
      BY <1>18, <2>1, <3>1 DEF RegisterAgain, NotEnsured
  <2>2. CASE NotEnsured(t)
    BY <1>18, <2>2 DEF RegisterAgain, NotEnsured
  <2> QED
    BY <1>18, <2>1, <2>2 DEF RegisterAgain
<1>19. ASSUME NEW t \in Tasks, Registered(t) PROVE AllMarked'
  BY <1>19 DEF Registered, Ensured
<1>20. ASSUME NEW t \in Tasks, RegistrationFails(t) PROVE AllMarked'
  BY <1>20 DEF RegistrationFails, NotEnsured
<1>21. ASSUME NEW t \in Tasks, AuthorizeUpload(t) PROVE AllMarked'
  BY <1>21 DEF AuthorizeUpload
<1>22. ASSUME NEW t \in Tasks, SendAgain(t) PROVE AllMarked'
  BY <1>22 DEF SendAgain
<1>23. ASSUME NEW t \in Tasks, Refused(t) PROVE AllMarked'
  BY <1>23 DEF Refused
<1>24. ASSUME NEW t \in Tasks, Answered(t) PROVE AllMarked'
  BY <1>24 DEF Answered
<1>25. CASE UNCHANGED keyVars
  BY <1>25 DEF keyVars
<1> QED
  BY <1>1, <1>2, <1>3, <1>4, <1>5, <1>6, <1>7, <1>8, <1>9, <1>10,
     <1>11, <1>12, <1>13, <1>14, <1>15, <1>16, <1>17, <1>18, <1>19, <1>20,
     <1>21, <1>22, <1>23, <1>24, <1>25
  DEF Next, Application, Waiting, Going

\* A call keeps its kind until it returns.
LEMMA EnsuresStep == KInv /\ [Next]_keyVars => AllEnsure'
<1> SUFFICES ASSUME KInv, [Next]_keyVars PROVE AllEnsure'
  OBVIOUS
<1> USE DEF KInv, KeyTypeOK, AllEnsure, Ensuring, Call, NoCall
<1>1. CASE SessionStep
  BY <1>1 DEF SessionStep, AskFor, Hold, Clear
<1>2. ASSUME NEW t \in Tasks, StartSigned(t) PROVE AllEnsure'
  BY <1>2 DEF StartSigned, Start
<1>3. ASSUME NEW t \in Tasks, StartSignOut(t) PROVE AllEnsure'
  BY <1>3 DEF StartSignOut, Clear
<1>4. ASSUME NEW t \in Tasks, StartRotate(t) PROVE AllEnsure'
  BY <1>4 DEF StartRotate
<1>5. ASSUME NEW t \in Tasks, StartReset(t) PROVE AllEnsure'
  BY <1>5 DEF StartReset
<1>6. ASSUME NEW t \in Tasks, NEW a \in Accounts, StartRestore(t, a)
      PROVE AllEnsure'
  BY <1>6 DEF StartRestore
<1>7. ASSUME NEW t \in Tasks, Abandon(t) PROVE AllEnsure'
  BY <1>7 DEF Abandon
<1>8. ASSUME NEW t \in Tasks, LockSlot(t) PROVE AllEnsure'
  BY <1>8 DEF LockSlot, Ensured
<1>9. ASSUME NEW t \in Tasks, Put(t) PROVE AllEnsure'
  BY <1>9 DEF Put
<1>10. ASSUME NEW t \in Tasks, Drop(t) PROVE AllEnsure'
  BY <1>10 DEF Drop, Settle
<1>11. ASSUME NEW t \in Tasks, Sign(t) PROVE AllEnsure'
  BY <1>11 DEF Sign
<1>12. ASSUME NEW t \in Tasks, Swap(t) PROVE AllEnsure'
  BY <1>12 DEF Swap
<1>13. ASSUME NEW t \in Tasks, Publish(t) PROVE AllEnsure'
  BY <1>13 DEF Publish
<1>14. ASSUME NEW t \in Tasks, Unpublish(t) PROVE AllEnsure'
  BY <1>14 DEF Unpublish
<1>15. ASSUME NEW t \in Tasks, ReadUser(t) PROVE AllEnsure'
  BY <1>15 DEF ReadUser
<1>16. ASSUME NEW t \in Tasks, Challenge(t) PROVE AllEnsure'
  BY <1>16 DEF Challenge, NotEnsured
<1>17. ASSUME NEW t \in Tasks, Register(t) PROVE AllEnsure'
  <2>1. CASE /\ call' = [call EXCEPT ![t] =
                         [call[t] EXCEPT !.by = held, !.signOuts = signOuts]]
             /\ at' = [at EXCEPT ![t] = "registering"]
    <3>1. /\ call'[t].kind = call[t].kind
          /\ \A u \in Tasks \ {t} : call'[u] = call[u] /\ at'[u] = at[u]
      BY <2>1
    <3>2. at[t] = "register"
      BY <1>17 DEF Register
    <3>3. call[t].kind \in {"register", "upload"}
      BY <3>2 DEF Registering
    <3> QED
      BY <3>1, <3>3
  <2>2. CASE NotEnsured(t)
    BY <2>2 DEF NotEnsured, Return
  <2> QED
    BY <1>17, <2>1, <2>2 DEF Register, Local, Move
<1>18. ASSUME NEW t \in Tasks, RegisterAgain(t) PROVE AllEnsure'
  <2>1. CASE /\ call' = [call EXCEPT ![t] =
                         [call[t] EXCEPT !.retries = 1, !.signOuts = signOuts]]
             /\ at' = at
    <3>1. /\ call'[t].kind = call[t].kind
          /\ \A u \in Tasks \ {t} : call'[u] = call[u]
      BY <2>1
    <3> QED
      BY <2>1, <3>1
  <2>2. CASE NotEnsured(t)
    BY <2>2 DEF NotEnsured, Return
  <2> QED
    BY <1>18, <2>1, <2>2 DEF RegisterAgain, Local
<1>19. ASSUME NEW t \in Tasks, Registered(t) PROVE AllEnsure'
  BY <1>19 DEF Registered, Ensured
<1>20. ASSUME NEW t \in Tasks, RegistrationFails(t) PROVE AllEnsure'
  BY <1>20 DEF RegistrationFails, NotEnsured
<1>21. ASSUME NEW t \in Tasks, AuthorizeUpload(t) PROVE AllEnsure'
  BY <1>21 DEF AuthorizeUpload
<1>22. ASSUME NEW t \in Tasks, SendAgain(t) PROVE AllEnsure'
  BY <1>22 DEF SendAgain
<1>23. ASSUME NEW t \in Tasks, Refused(t) PROVE AllEnsure'
  BY <1>23 DEF Refused
<1>24. ASSUME NEW t \in Tasks, Answered(t) PROVE AllEnsure'
  BY <1>24 DEF Answered
<1>25. CASE UNCHANGED keyVars
  BY <1>25 DEF keyVars
<1> QED
  BY <1>1, <1>2, <1>3, <1>4, <1>5, <1>6, <1>7, <1>8, <1>9, <1>10,
     <1>11, <1>12, <1>13, <1>14, <1>15, <1>16, <1>17, <1>18, <1>19, <1>20,
     <1>21, <1>22, <1>23, <1>24, <1>25
  DEF Next, Application, Waiting, Going

\* The key a registration puts in the slot is newer than any clear so far, and
\* a clear leaves no key.
LEMMA DieStep == KInv /\ [Next]_keyVars => KeysDieWithSessionAndDevice'
<1> SUFFICES ASSUME KInv, [Next]_keyVars PROVE KeysDieWithSessionAndDevice'
  OBVIOUS
<1> USE DEF KInv, KeyTypeOK, KeysDieWithSessionAndDevice, Binds, Marked, Key,
            KeyOf
<1>1. CASE SessionStep
  BY <1>1 DEF SessionStep, AskFor, Hold, Clear
<1>2. ASSUME NEW t \in Tasks, StartSigned(t)
      PROVE KeysDieWithSessionAndDevice'
  BY <1>2 DEF StartSigned, Start
<1>3. ASSUME NEW t \in Tasks, StartSignOut(t)
      PROVE KeysDieWithSessionAndDevice'
  BY <1>3 DEF StartSignOut, Clear
<1>4. ASSUME NEW t \in Tasks, StartRotate(t)
      PROVE KeysDieWithSessionAndDevice'
  BY <1>4 DEF StartRotate
<1>5. ASSUME NEW t \in Tasks, StartReset(t) PROVE KeysDieWithSessionAndDevice'
  BY <1>5 DEF StartReset
<1>6. ASSUME NEW t \in Tasks, NEW a \in Accounts, StartRestore(t, a)
      PROVE KeysDieWithSessionAndDevice'
  BY <1>6 DEF StartRestore
<1>7. ASSUME NEW t \in Tasks, Abandon(t) PROVE KeysDieWithSessionAndDevice'
  BY <1>7 DEF Abandon
<1>8. ASSUME NEW t \in Tasks, LockSlot(t) PROVE KeysDieWithSessionAndDevice'
  BY <1>8 DEF LockSlot, Ensured
<1>9. ASSUME NEW t \in Tasks, Put(t) PROVE KeysDieWithSessionAndDevice'
  BY <1>9 DEF Put
<1>10. ASSUME NEW t \in Tasks, Drop(t) PROVE KeysDieWithSessionAndDevice'
  BY <1>10 DEF Drop, Settle
<1>11. ASSUME NEW t \in Tasks, Sign(t) PROVE KeysDieWithSessionAndDevice'
  BY <1>11 DEF Sign
<1>12. ASSUME NEW t \in Tasks, Swap(t) PROVE KeysDieWithSessionAndDevice'
  BY <1>12 DEF Swap
<1>13. ASSUME NEW t \in Tasks, Publish(t) PROVE KeysDieWithSessionAndDevice'
  BY <1>13 DEF Publish
<1>14. ASSUME NEW t \in Tasks, Unpublish(t) PROVE KeysDieWithSessionAndDevice'
  BY <1>14 DEF Unpublish
<1>15. ASSUME NEW t \in Tasks, ReadUser(t) PROVE KeysDieWithSessionAndDevice'
  BY <1>15 DEF ReadUser
<1>16. ASSUME NEW t \in Tasks, Challenge(t) PROVE KeysDieWithSessionAndDevice'
  BY <1>16 DEF Challenge, NotEnsured
<1>17. ASSUME NEW t \in Tasks, Register(t) PROVE KeysDieWithSessionAndDevice'
  BY <1>17 DEF Register, NotEnsured
<1>18. ASSUME NEW t \in Tasks, RegisterAgain(t)
      PROVE KeysDieWithSessionAndDevice'
  BY <1>18 DEF RegisterAgain, NotEnsured
<1>19. ASSUME NEW t \in Tasks, Registered(t)
      PROVE KeysDieWithSessionAndDevice'
  BY <1>19 DEF Registered, Ensured
<1>20. ASSUME NEW t \in Tasks, RegistrationFails(t)
      PROVE KeysDieWithSessionAndDevice'
  BY <1>20 DEF RegistrationFails, NotEnsured
<1>21. ASSUME NEW t \in Tasks, AuthorizeUpload(t)
      PROVE KeysDieWithSessionAndDevice'
  BY <1>21 DEF AuthorizeUpload
<1>22. ASSUME NEW t \in Tasks, SendAgain(t) PROVE KeysDieWithSessionAndDevice'
  BY <1>22 DEF SendAgain
<1>23. ASSUME NEW t \in Tasks, Refused(t) PROVE KeysDieWithSessionAndDevice'
  BY <1>23 DEF Refused
<1>24. ASSUME NEW t \in Tasks, Answered(t) PROVE KeysDieWithSessionAndDevice'
  BY <1>24 DEF Answered
<1>25. CASE UNCHANGED keyVars
  BY <1>25 DEF keyVars
<1> QED
  BY <1>1, <1>2, <1>3, <1>4, <1>5, <1>6, <1>7, <1>8, <1>9, <1>10,
     <1>11, <1>12, <1>13, <1>14, <1>15, <1>16, <1>17, <1>18, <1>19, <1>20,
     <1>21, <1>22, <1>23, <1>24, <1>25
  DEF Next, Application, Waiting, Going

\* Nobody fills the slot while a registration holds the mutex.
LEMMA MissingStep == KInv /\ [Next]_keyVars => RegistersOnlyWhenMissing'
<1> SUFFICES ASSUME KInv, [Next]_keyVars PROVE RegistersOnlyWhenMissing'
  OBVIOUS
<1> USE DEF KInv, KeyTypeOK, RegistersOnlyWhenMissing, HeldByRegistration,
            Binds, Call, Key, NoKey, NoCall
<1>1. CASE SessionStep
  BY <1>1 DEF SessionStep, AskFor, Hold, Clear
<1>2. ASSUME NEW t \in Tasks, StartSigned(t) PROVE RegistersOnlyWhenMissing'
  BY <1>2 DEF StartSigned, Start
<1>3. ASSUME NEW t \in Tasks, StartSignOut(t) PROVE RegistersOnlyWhenMissing'
  BY <1>3 DEF StartSignOut, Clear
<1>4. ASSUME NEW t \in Tasks, StartRotate(t) PROVE RegistersOnlyWhenMissing'
  BY <1>4 DEF StartRotate
<1>5. ASSUME NEW t \in Tasks, StartReset(t) PROVE RegistersOnlyWhenMissing'
  BY <1>5 DEF StartReset
<1>6. ASSUME NEW t \in Tasks, NEW a \in Accounts, StartRestore(t, a)
      PROVE RegistersOnlyWhenMissing'
  BY <1>6 DEF StartRestore
<1>7. ASSUME NEW t \in Tasks, Abandon(t) PROVE RegistersOnlyWhenMissing'
  BY <1>7 DEF Abandon
<1>8. ASSUME NEW t \in Tasks, LockSlot(t) PROVE RegistersOnlyWhenMissing'
  BY <1>8 DEF LockSlot, Ensured
<1>9. ASSUME NEW t \in Tasks, Put(t) PROVE RegistersOnlyWhenMissing'
  BY <1>9 DEF Put
<1>10. ASSUME NEW t \in Tasks, Drop(t) PROVE RegistersOnlyWhenMissing'
  BY <1>10 DEF Drop, Settle
<1>11. ASSUME NEW t \in Tasks, Sign(t) PROVE RegistersOnlyWhenMissing'
  BY <1>11 DEF Sign
<1>12. ASSUME NEW t \in Tasks, Swap(t) PROVE RegistersOnlyWhenMissing'
  BY <1>12 DEF Swap
<1>13. ASSUME NEW t \in Tasks, Publish(t) PROVE RegistersOnlyWhenMissing'
  BY <1>13 DEF Publish
<1>14. ASSUME NEW t \in Tasks, Unpublish(t) PROVE RegistersOnlyWhenMissing'
  BY <1>14 DEF Unpublish
<1>15. ASSUME NEW t \in Tasks, ReadUser(t) PROVE RegistersOnlyWhenMissing'
  BY <1>15 DEF ReadUser
<1>16. ASSUME NEW t \in Tasks, Challenge(t) PROVE RegistersOnlyWhenMissing'
  BY <1>16 DEF Challenge, NotEnsured
<1>17. ASSUME NEW t \in Tasks, Register(t) PROVE RegistersOnlyWhenMissing'
  <2>1. CASE /\ signing' = signing /\ signOuts' = signOuts /\ slot' = slot
             /\ call' = [call EXCEPT ![t] =
                         [call[t] EXCEPT !.by = held, !.signOuts = signOuts]]
    <3>1. /\ call'[t].user = call[t].user /\ call'[t].kind = call[t].kind
          /\ call'[t].signOuts = signOuts
          /\ call'[t].rotations = call[t].rotations
          /\ \A u \in Tasks \ {t} : call'[u] = call[u]
      BY <2>1
    <3> QED
      BY <1>17, <2>1, <3>1 DEF Register, NotEnsured
  <2>2. CASE NotEnsured(t)
    BY <1>17, <2>2 DEF Register, NotEnsured
  <2> QED
    BY <1>17, <2>1, <2>2 DEF Register
<1>18. ASSUME NEW t \in Tasks, RegisterAgain(t)
      PROVE RegistersOnlyWhenMissing'
  <2>1. CASE /\ signing' = signing /\ signOuts' = signOuts /\ slot' = slot
             /\ call' = [call EXCEPT ![t] =
                         [call[t] EXCEPT !.retries = 1, !.signOuts = signOuts]]
    <3>1. /\ call'[t].user = call[t].user /\ call'[t].kind = call[t].kind
          /\ call'[t].signOuts = signOuts
          /\ call'[t].rotations = call[t].rotations
          /\ \A u \in Tasks \ {t} : call'[u] = call[u]
      BY <2>1
    <3> QED
      BY <1>18, <2>1, <3>1 DEF RegisterAgain, NotEnsured
  <2>2. CASE NotEnsured(t)
    BY <1>18, <2>2 DEF RegisterAgain, NotEnsured
  <2> QED
    BY <1>18, <2>1, <2>2 DEF RegisterAgain
<1>19. ASSUME NEW t \in Tasks, Registered(t) PROVE RegistersOnlyWhenMissing'
  BY <1>19 DEF Registered, Ensured
<1>20. ASSUME NEW t \in Tasks, RegistrationFails(t)
      PROVE RegistersOnlyWhenMissing'
  BY <1>20 DEF RegistrationFails, NotEnsured
<1>21. ASSUME NEW t \in Tasks, AuthorizeUpload(t)
      PROVE RegistersOnlyWhenMissing'
  BY <1>21 DEF AuthorizeUpload
<1>22. ASSUME NEW t \in Tasks, SendAgain(t) PROVE RegistersOnlyWhenMissing'
  BY <1>22 DEF SendAgain
<1>23. ASSUME NEW t \in Tasks, Refused(t) PROVE RegistersOnlyWhenMissing'
  BY <1>23 DEF Refused
<1>24. ASSUME NEW t \in Tasks, Answered(t) PROVE RegistersOnlyWhenMissing'
  BY <1>24 DEF Answered
<1>25. CASE UNCHANGED keyVars
  BY <1>25 DEF keyVars
<1> QED
  BY <1>1, <1>2, <1>3, <1>4, <1>5, <1>6, <1>7, <1>8, <1>9, <1>10,
     <1>11, <1>12, <1>13, <1>14, <1>15, <1>16, <1>17, <1>18, <1>19, <1>20,
     <1>21, <1>22, <1>23, <1>24, <1>25
  DEF Next, Application, Waiting, Going

\* The invariant holds in every initial state.
LEMMA InitKInv == Init => KInv
<1> SUFFICES ASSUME Init PROVE KInv
  OBVIOUS
<1>1. KeyTypeOK
  <2>1. /\ held \in Accounts \union {NoAccount} /\ usable = FALSE
        /\ consent \in SUBSET Accounts
    BY DEF Init, StoreInit
  <2>2. slot \in Key /\ watched \in Key /\ call \in [Tasks -> Call]
    BY Nothing DEF Init
  <2>3. at \in [Tasks -> KeyLabels] /\ callsLeft \in 0 .. MaxCalls
    BY DEF Init, KeyLabels
  <2> QED
    BY <2>1, <2>2, <2>3 DEF Init, KeyTypeOK
<1>2. HeldByRegistration /\ RegistersOnlyWhenMissing
  BY DEF Init, HeldByRegistration, RegistersOnlyWhenMissing
<1>3. \A t \in Tasks : Binds(t) /\ Marked(t) /\ Ensuring(t)
  BY DEF Init, Binds, Marked, Ensuring, NoCall
<1> QED
  BY <1>1, <1>2, <1>3 DEF Init, KInv, KeysDieWithSessionAndDevice

\* The invariant is inductive: the parts make it up.
LEMMA KInvStep == KInv /\ [Next]_keyVars => KInv'
  BY Halves, SharedStep, TasksStep, HeldStep, CountsStep, BindsStep,
     MarkedStep, EnsuresStep, DieStep, MissingStep
  DEF KInv, Counts, AllBind, AllMarked, AllEnsure

-----------------------------------------------------------------------------
(***************************************************************************)
(* The theorems.                                                           *)
(***************************************************************************)

\* The variables keep their types, and no signed request is sent more than
\* three times (exchange).
THEOREM KeyTypeCorrect == Spec => []KeyTypeOK
<1>1. KInv => KeyTypeOK
  BY DEF KInv
<1> QED
  BY <1>1, InitKInv, KInvStep, PTL DEF Spec

\* No key outlives the sign_out of the session that registered it, or the
\* rotate_device that replaced its device, even if the registration was in
\* flight at the time (ensure_device_key against clear_signing).
THEOREM KeysDie == Spec => []KeysDieWithSessionAndDevice
<1>1. KInv => KeysDieWithSessionAndDevice
  BY DEF KInv
<1> QED
  BY <1>1, InitKInv, KInvStep, PTL DEF Spec

\* A key is registered only for a profile that has none (ensure_device_key).
THEOREM OneRegistration == Spec => []RegistersOnlyWhenMissing
<1>1. KInv => RegistersOnlyWhenMissing
  BY DEF KInv
<1> QED
  BY <1>1, InitKInv, KInvStep, PTL DEF Spec

\* The mutex of `signing' is held between two steps by exactly the task whose
\* registration is under way: whoever waits for it holds nothing, so the one
\* that holds it is never among those that wait (ensure_device_key).
THEOREM HeldByRegistrations == Spec => []HeldByRegistration
<1>1. KInv => HeldByRegistration
  BY DEF KInv
<1> QED
  BY <1>1, InitKInv, KInvStep, PTL DEF Spec

(***************************************************************************)
(* What KeyCallsReturn rests on: a call's own steps bring it nearer its    *)
(* end, whatever the other tasks do.                                       *)
(***************************************************************************)
\* What each label leaves to do, in this state and in the next.
LEMMA StepsLeft ==
  ASSUME NEW t \in Tasks, KeyTypeOK
  PROVE  /\ call[t].retries \in 0 .. 2
         /\ at[t] = "idle" => Steps(t) = 0
         /\ at[t] \in {"swap", "publish", "unpublish"} => Steps(t) = 1
         /\ at[t] \in {"put", "drop"} => Steps(t) = 2
         /\ at[t] = "answer" => Steps(t) = 7 - 2 * call[t].retries
         /\ at[t] = "sign" => Steps(t) = 8 - 2 * call[t].retries
         /\ at[t] = "authorize" => Steps(t) = 9
         /\ at[t] = "registering" => Steps(t) = 12 - call[t].retries
         /\ at[t] = "register" => Steps(t) = 13
         /\ at[t] = "challenge" => Steps(t) = 14
         /\ at[t] = "locking" => Steps(t) = 15
         /\ at[t] = "user" => Steps(t) = 16
         /\ at[t] \in KeyLabels
<1>1. call[t] \in Call /\ at[t] \in KeyLabels
  BY DEF KeyTypeOK
<1> QED
  BY <1>1 DEF Call, Steps

LEMMA StepsLeftNext ==
  ASSUME NEW t \in Tasks
  PROVE  /\ at'[t] = "idle" => Steps(t)' = 0
         /\ at'[t] \in {"publish", "unpublish"} => Steps(t)' = 1
         /\ at'[t] \in {"put", "drop"} => Steps(t)' = 2
         /\ at'[t] = "answer" => Steps(t)' = 7 - 2 * call'[t].retries
         /\ at'[t] = "sign" => Steps(t)' = 8 - 2 * call'[t].retries
         /\ at'[t] = "authorize" => Steps(t)' = 9
         /\ at'[t] = "registering" => Steps(t)' = 12 - call'[t].retries
         /\ at'[t] = "register" => Steps(t)' = 13
         /\ at'[t] = "challenge" => Steps(t)' = 14
         /\ at'[t] = "locking" => Steps(t)' = 15
  BY DEF Steps

\* A step of a task's that it is nearer its end after.
Nearer(t) ==
  /\ Steps(t)' < Steps(t)
  /\ \A u \in Tasks \ {t} : UNCHANGED <<at[u], call[u]>>

\* A call that has something to do has a step left for it.
LEMMA SomethingLeft ==
  ASSUME NEW t \in Tasks, KeyTypeOK
  PROVE  at[t] # "idle" => Steps(t) \in Nat /\ Steps(t) > 0
<1>1. \A r \in 0 .. 2 : /\ 7 - 2 * r \in Nat \ {0}
                        /\ 8 - 2 * r \in Nat \ {0}
                        /\ 12 - r \in Nat \ {0}
  OBVIOUS
<1> QED
  BY <1>1, StepsLeft DEF KeyLabels

\* A call that returns is at its end.
LEMMA ReturnIsNearer ==
  ASSUME NEW t \in Tasks, KeyTypeOK, at[t] # "idle", Return(t)
  PROVE  Nearer(t)
<1>1. at'[t] = "idle" /\ \A u \in Tasks \ {t} : UNCHANGED <<at[u], call[u]>>
  BY DEF KeyTypeOK
<1>2. Steps(t)' = 0
  BY <1>1, StepsLeftNext
<1> QED
  BY <1>1, <1>2, SomethingLeft DEF Nearer

LEMMA NotEnsuredIsNearer ==
  ASSUME NEW t \in Tasks, KeyTypeOK, at[t] # "idle", NotEnsured(t)
  PROVE  Nearer(t)
  BY ReturnIsNearer DEF NotEnsured

\* A call whose key is there is over, or has its attempts before it.
LEMMA EnsuredIsNearer ==
  ASSUME NEW t \in Tasks, KeyTypeOK, at[t] \in {"locking", "registering"},
         Ensured(t)
  PROVE  Nearer(t)
<1>1. CASE Return(t)
  BY <1>1, ReturnIsNearer
<1>2. CASE /\ at' = [at EXCEPT ![t] = "authorize"]
           /\ call' = [call EXCEPT ![t] = [NoCall EXCEPT !.kind = "upload"]]
  <2>1. at'[t] = "authorize" /\ \A u \in Tasks \ {t} : UNCHANGED <<at[u], call[u]>>
    BY <1>2 DEF KeyTypeOK
  <2>2. Steps(t)' = 9
    BY <2>1, StepsLeftNext
  <2>3. Steps(t) \in Nat /\ Steps(t) > 9
    BY StepsLeft
  <2> QED
    BY <2>1, <2>2, <2>3 DEF Nearer
<1> QED
  BY <1>1, <1>2 DEF Ensured

\* What waits for the mutex is nearer its end when it has had it.
LEMMA WaitingIsNearer ==
  ASSUME KInv, NEW t \in Tasks, Waiting(t)
  PROVE  Nearer(t)
<1>0. KeyTypeOK
  BY DEF KInv
<1>1. CASE LockSlot(t)
  <2>1. CASE Ensured(t)
    BY <1>0, <1>1, <2>1, EnsuredIsNearer DEF LockSlot
  <2>2. CASE /\ at' = [at EXCEPT ![t] = "challenge"]
             /\ call' = [call EXCEPT ![t] =
                           [call[t] EXCEPT !.rotations = rotations]]
    <3>1. /\ at'[t] = "challenge"
          /\ \A u \in Tasks \ {t} : UNCHANGED <<at[u], call[u]>>
      BY <1>0, <2>2 DEF KeyTypeOK
    <3>2. Steps(t)' = 14 /\ Steps(t) = 15
      BY <1>0, <1>1, <3>1, StepsLeft, StepsLeftNext DEF LockSlot
    <3> QED
      BY <3>1, <3>2 DEF Nearer
  <2> QED
    BY <1>1, <2>1, <2>2 DEF LockSlot
<1>2. CASE Put(t) \/ Drop(t)
  <2>1. /\ at'[t] \in {"publish", "unpublish"} /\ at[t] \in {"put", "drop"}
        /\ \A u \in Tasks \ {t} : UNCHANGED <<at[u], call[u]>>
    BY <1>0, <1>2 DEF Put, Drop, KeyTypeOK
  <2>2. Steps(t)' = 1 /\ Steps(t) = 2
    BY <1>0, <2>1, StepsLeft, StepsLeftNext
  <2> QED
    BY <2>1, <2>2 DEF Nearer
<1>3. CASE Sign(t)
  <2>1. CASE Return(t)
    BY <1>0, <1>3, <2>1, ReturnIsNearer DEF Sign
  <2>2. CASE at' = [at EXCEPT ![t] = "answer"] /\ UNCHANGED call
    <3>1. /\ at'[t] = "answer" /\ at[t] = "sign"
          /\ call'[t].retries = call[t].retries
          /\ \A u \in Tasks \ {t} : UNCHANGED <<at[u], call[u]>>
      BY <1>0, <1>3, <2>2 DEF Sign, KeyTypeOK
    <3>2. /\ Steps(t)' = 7 - 2 * call[t].retries
          /\ Steps(t) = 8 - 2 * call[t].retries
          /\ call[t].retries \in 0 .. 2
      BY <1>0, <3>1, StepsLeft, StepsLeftNext
    <3> QED
      BY <3>1, <3>2 DEF Nearer
  <2> QED
    BY <1>3, <2>1, <2>2 DEF Sign
<1> QED
  BY <1>1, <1>2, <1>3 DEF Waiting

\* A registration that goes on, or is made again.
LEMMA RegistrationIsNearer ==
  ASSUME KInv, NEW t \in Tasks,
         \/ Challenge(t) \/ Register(t) \/ RegisterAgain(t)
         \/ Registered(t) \/ RegistrationFails(t)
  PROVE  Nearer(t)
<1>0. KeyTypeOK
  BY DEF KInv
<1>1. CASE Challenge(t)
  <2>1. CASE NotEnsured(t)
    BY <1>0, <1>1, <2>1, NotEnsuredIsNearer DEF Challenge
  <2>2. CASE at' = [at EXCEPT ![t] = "register"] /\ UNCHANGED call
    <3>1. /\ at'[t] = "register" /\ at[t] = "challenge"
          /\ \A u \in Tasks \ {t} : UNCHANGED <<at[u], call[u]>>
      BY <1>0, <1>1, <2>2 DEF Challenge, KeyTypeOK
    <3>2. Steps(t)' = 13 /\ Steps(t) = 14
      BY <1>0, <3>1, StepsLeft, StepsLeftNext
    <3> QED
      BY <3>1, <3>2 DEF Nearer
  <2> QED
    BY <1>1, <2>1, <2>2 DEF Challenge
<1>2. CASE Register(t)
  <2>1. CASE NotEnsured(t)
    BY <1>0, <1>2, <2>1, NotEnsuredIsNearer DEF Register
  <2>2. CASE /\ at' = [at EXCEPT ![t] = "registering"]
             /\ call' = [call EXCEPT ![t] =
                   [call[t] EXCEPT !.by = held, !.signOuts = signOuts]]
    <3>1. /\ at'[t] = "registering" /\ at[t] = "register"
          /\ call'[t].retries = call[t].retries
          /\ \A u \in Tasks \ {t} : UNCHANGED <<at[u], call[u]>>
      BY <1>0, <1>2, <2>2 DEF Register, KeyTypeOK, Call
    <3>2. /\ Steps(t)' = 12 - call[t].retries /\ Steps(t) = 13
          /\ call[t].retries \in 0 .. 2
      BY <1>0, <3>1, StepsLeft, StepsLeftNext
    <3> QED
      BY <3>1, <3>2 DEF Nearer
  <2> QED
    BY <1>2, <2>1, <2>2 DEF Register
<1>3. CASE RegisterAgain(t)
  <2>1. CASE NotEnsured(t)
    BY <1>0, <1>3, <2>1, NotEnsuredIsNearer DEF RegisterAgain
  <2>2. CASE /\ UNCHANGED at
             /\ call' = [call EXCEPT ![t] =
                   [call[t] EXCEPT !.retries = 1, !.signOuts = signOuts]]
    <3>1. /\ at'[t] = "registering" /\ at[t] = "registering"
          /\ call'[t].retries = 1 /\ call[t].retries = 0
          /\ \A u \in Tasks \ {t} : UNCHANGED <<at[u], call[u]>>
      BY <1>0, <1>3, <2>2 DEF RegisterAgain, KeyTypeOK, Call
    <3>2. Steps(t)' = 12 - 1 /\ Steps(t) = 12 - 0
      BY <1>0, <3>1, StepsLeft, StepsLeftNext
    <3> QED
      BY <3>1, <3>2 DEF Nearer
  <2> QED
    BY <1>3, <2>1, <2>2 DEF RegisterAgain
<1>4. CASE Registered(t)
  BY <1>0, <1>4, EnsuredIsNearer DEF Registered
<1>5. CASE RegistrationFails(t)
  BY <1>0, <1>5, NotEnsuredIsNearer DEF RegistrationFails
<1> QED
  BY <1>1, <1>2, <1>3, <1>4, <1>5

\* A request that is authorized, sent again, refused or answered.
LEMMA RequestIsNearer ==
  ASSUME KInv, NEW t \in Tasks,
         AuthorizeUpload(t) \/ SendAgain(t) \/ Refused(t) \/ Answered(t)
  PROVE  Nearer(t)
<1>0. KeyTypeOK
  BY DEF KInv
<1>1. CASE AuthorizeUpload(t)
  <2>1. CASE Return(t)
    BY <1>0, <1>1, <2>1, ReturnIsNearer DEF AuthorizeUpload
  <2>2. CASE /\ at' = [at EXCEPT ![t] = "sign"]
             /\ call' = [call EXCEPT ![t] = [call[t] EXCEPT !.by = held]]
    <3>1. /\ at'[t] = "sign" /\ at[t] = "authorize"
          /\ call'[t].retries = call[t].retries
          /\ \A u \in Tasks \ {t} : UNCHANGED <<at[u], call[u]>>
      BY <1>0, <1>1, <2>2 DEF AuthorizeUpload, KeyTypeOK, Call
    <3>2. /\ Steps(t)' = 8 - 2 * call[t].retries /\ Steps(t) = 9
          /\ call[t].retries \in 0 .. 2
      BY <1>0, <3>1, StepsLeft, StepsLeftNext
    <3> QED
      BY <3>1, <3>2 DEF Nearer
  <2> QED
    BY <1>1, <2>1, <2>2 DEF AuthorizeUpload
<1>2. CASE SendAgain(t)
  <2>1. CASE Return(t)
    BY <1>0, <1>2, <2>1, ReturnIsNearer DEF SendAgain
  <2>2. CASE /\ at' = [at EXCEPT ![t] = "sign"]
             /\ call' = [call EXCEPT ![t] = [call[t] EXCEPT !.retries = @ + 1]]
    <3>1. /\ at'[t] = "sign" /\ at[t] = "answer"
          /\ call'[t].retries = call[t].retries + 1
          /\ \A u \in Tasks \ {t} : UNCHANGED <<at[u], call[u]>>
      BY <1>0, <1>2, <2>2 DEF SendAgain, KeyTypeOK, Call
    <3>2. /\ Steps(t)' = 8 - 2 * (call[t].retries + 1)
          /\ Steps(t) = 7 - 2 * call[t].retries
          /\ call[t].retries \in 0 .. 2
      BY <1>0, <3>1, StepsLeft, StepsLeftNext
    <3> QED
      BY <3>1, <3>2 DEF Nearer
  <2> QED
    BY <1>2, <2>1, <2>2 DEF SendAgain
<1>3. CASE Refused(t)
  <2>1. /\ at'[t] = "drop" /\ at[t] = "answer"
        /\ \A u \in Tasks \ {t} : UNCHANGED <<at[u], call[u]>>
    BY <1>0, <1>3 DEF Refused, KeyTypeOK
  <2>2. /\ Steps(t)' = 2 /\ Steps(t) = 7 - 2 * call[t].retries
        /\ call[t].retries \in 0 .. 2
    BY <1>0, <2>1, StepsLeft, StepsLeftNext
  <2> QED
    BY <2>1, <2>2 DEF Nearer
<1>4. CASE Answered(t)
  BY <1>0, <1>4, ReturnIsNearer DEF Answered
<1> QED
  BY <1>1, <1>2, <1>3, <1>4

\* What does not wait for the mutex.
LEMMA GoingIsNearer ==
  ASSUME KInv, NEW t \in Tasks, Going(t)
  PROVE  Nearer(t)
<1>0. KeyTypeOK
  BY DEF KInv
<1>1. CASE Swap(t) \/ Publish(t) \/ Unpublish(t)
  BY <1>0, <1>1, ReturnIsNearer DEF Swap, Publish, Unpublish
<1>2. CASE ReadUser(t)
  <2>1. CASE Return(t)
    BY <1>0, <1>2, <2>1, ReturnIsNearer DEF ReadUser
  <2>2. CASE /\ at' = [at EXCEPT ![t] = "locking"]
             /\ call' = [call EXCEPT ![t] = [call[t] EXCEPT !.user = held]]
    <3>1. /\ at'[t] = "locking" /\ at[t] = "user"
          /\ \A u \in Tasks \ {t} : UNCHANGED <<at[u], call[u]>>
      BY <1>0, <1>2, <2>2 DEF ReadUser, KeyTypeOK
    <3>2. Steps(t)' = 15 /\ Steps(t) = 16
      BY <1>0, <3>1, StepsLeft, StepsLeftNext
    <3> QED
      BY <3>1, <3>2 DEF Nearer
  <2> QED
    BY <1>2, <2>1, <2>2 DEF ReadUser
<1> QED
  BY <1>1, <1>2, RegistrationIsNearer, RequestIsNearer DEF Going

\* The steps the application takes: to start a call it takes one that is
\* idle, and to drop one it ends it.
LEMMA ApplicationIsNearer ==
  ASSUME KInv, NEW t \in Tasks, Application(t)
  PROVE  \A u \in Tasks :
           at[u] # "idle" => \/ UNCHANGED <<at[u], call[u]>>
                             \/ Steps(u)' < Steps(u)
<1>0. KeyTypeOK
  BY DEF KInv
<1>1. CASE Abandon(t)
  BY <1>0, <1>1, ReturnIsNearer DEF Abandon, Nearer
<1>2. CASE at[t] = "idle" /\ \A u \in Tasks \ {t} : UNCHANGED <<at[u], call[u]>>
  BY <1>2
<1>3. CASE \/ StartSigned(t) \/ StartSignOut(t) \/ StartRotate(t)
           \/ StartReset(t) \/ \E a \in Accounts : StartRestore(t, a)
  <2>1. at[t] = "idle" /\ \A u \in Tasks \ {t} : UNCHANGED <<at[u], call[u]>>
    BY <1>0, <1>3 DEF StartSigned, Start, StartSignOut, StartRotate,
                      StartReset, StartRestore, KeyTypeOK
  <2> QED
    BY <1>2, <2>1
<1> QED
  BY <1>1, <1>3 DEF Application

\* No call comes back to where it was: a registration that is made twice and
\* three attempts are the most there is to it, for any tasks and whatever they
\* do (ensure_device_key, exchange, clear_signing).
THEOREM CallsEnd == Spec => CallsRunOut
<1>1. KInv /\ [Next]_keyVars
        => [\A t \in Tasks :
              at[t] # "idle" => \/ UNCHANGED <<at[t], call[t]>>
                                \/ Steps(t)' < Steps(t)]_keyVars
  <2> SUFFICES ASSUME KInv, Next, NEW t \in Tasks, at[t] # "idle"
               PROVE \/ UNCHANGED <<at[t], call[t]>>
                     \/ Steps(t)' < Steps(t)
    OBVIOUS
  <2>1. CASE SessionStep
    BY <2>1 DEF SessionStep
  <2>2. ASSUME NEW u \in Tasks, Waiting(u) \/ Going(u)
        PROVE  UNCHANGED <<at[t], call[t]>> \/ Steps(t)' < Steps(t)
    BY <2>2, WaitingIsNearer, GoingIsNearer DEF Nearer
  <2>3. ASSUME NEW u \in Tasks, Application(u)
        PROVE  UNCHANGED <<at[t], call[t]>> \/ Steps(t)' < Steps(t)
    BY <2>3, ApplicationIsNearer
  <2> QED
    BY <2>1, <2>2, <2>3 DEF Next
<1> QED
  BY <1>1, InitKInv, KInvStep, PTL DEF Spec, CallsRunOut
=============================================================================
