----------------------------- MODULE AuthProofs -----------------------------
(***************************************************************************)
(* Proofs about Auth, for any tasks, accounts and bounds.                  *)
(***************************************************************************)
EXTENDS Auth, TLAPS

USE TasksAssumption, AccountsAssumption, BoundsAssumption
USE DEF At, Goto, Become, Finish, Unlock, Begin, store, guards, vars,
        SignedIn, Expiring, Blocked, Direct, Gated, Terminal

(***************************************************************************)
(* The local variables of a task, one field at a time.                     *)
(***************************************************************************)
\* What Op lets ctx be.
AnyContext == Direct \union Gated \union {"none"}

\* A task that is not in a call has local variables of the right type.
LEMMA OpNone == NoOp \in Op
  BY DEF NoOp, Op, MaybeAccount

\* Setting one local variable to a value of its type keeps the record typed.
LEMMA OpUpdates ==
  ASSUME NEW o \in Op
  PROVE  /\ \A c \in AnyContext : [o EXCEPT !.ctx = c] \in Op
         /\ \A a \in MaybeAccount : [o EXCEPT !.acct = a] \in Op
         /\ \A n \in Nat : [o EXCEPT !.epoch = n] \in Op
         /\ \A e \in Errors \union {"cleared", "none"} :
              [o EXCEPT !.err = e] \in Op
         /\ \A b \in Bearer \union {NoBearer} : [o EXCEPT !.bearer = b] \in Op
         /\ \A r \in {"refresh", "resign"} :
              [o EXCEPT !.retries = @ \union {r}] \in Op
  BY DEF Op, AnyContext

\* Giving one task typed local variables keeps everybody's typed.
LEMMA BecomeType ==
  ASSUME op \in [Tasks -> Op], NEW t \in Tasks, NEW o \in Op, Become(t, o)
  PROVE  op' \in [Tasks -> Op]
  OBVIOUS

\* The end of a background refresh leaves the task and the lock typed.
LEMMA GatedDoneType ==
  ASSUME TypeOK, NEW t \in Tasks, NEW ok \in BOOLEAN, GatedDone(t, ok)
  PROVE  /\ pc' \in [Tasks -> Labels]
         /\ op' \in [Tasks -> Op]
         /\ lock' \in Tasks \union {NoTask}
<1> DEFINE o == [op[t] EXCEPT !.acct = NoAccount, !.epoch = 0, !.err = "none",
                              !.ctx = "proactive"]
           a == [op[t] EXCEPT !.acct = NoAccount]
           b == [a EXCEPT !.epoch = 0]
           c == [b EXCEPT !.err = "none"]
<1>1. op[t] \in Op
  BY DEF TypeOK
<1>2. a \in Op
  BY <1>1, OpUpdates DEF MaybeAccount
<1>3. b \in Op
  BY <1>2, OpUpdates
<1>4. c \in Op
  BY <1>3, OpUpdates
<1>5. [c EXCEPT !.ctx = "proactive"] \in Op
  BY <1>4, OpUpdates DEF AnyContext
<1>6. o = [c EXCEPT !.ctx = "proactive"]
  BY <1>1 DEF Op
<1>7. o \in Op
  BY <1>5, <1>6
<1> QED
  BY <1>7, BecomeType DEF GatedDone, TypeOK, Labels

\* The invariant holds in every initial state, a restored session included.
LEMMA InitIInv == Init => IInv
<1> SUFFICES ASSUME Init PROVE IInv
  OBVIOUS
<1>1. TypeOK
  <2>1. session \in Session /\ consent \in SUBSET Accounts
    <3>1. PICK a \in MaybeAccount, known \in MaybeAccount :
            /\ session = [NoSession EXCEPT !.acct = a, !.profile = known]
            /\ consent = {a} \ {NoAccount}
      BY DEF Init, MaybeAccount
    <3> QED
      BY <3>1 DEF Session, NoSession, MaybeAccount
  <2>2. pc \in [Tasks -> Labels]
    BY DEF Init, Labels
  <2>3. op \in [Tasks -> Op]
    BY OpNone DEF Init
  <2>4. epoch \in Nat /\ minted \in Nat /\ opsLeft \in 0 .. MaxOps
    BY DEF Init
  <2>5. gate \in Gate
    BY DEF Init, Gate, NewGate
  <2> QED
    BY <2>1, <2>2, <2>3, <2>4, <2>5 DEF Init, TypeOK
<1>2. Contexts
  BY DEF Init, Contexts, Requesting
<1>3. Captured
  BY DEF Init, Captured
<1>4. Profiles
  <2>1. session.token = 0
    BY DEF Init, NoSession
  <2>2. \A t \in Tasks : op[t].bearer.profile = op[t].bearer.acct
    BY DEF Init, NoOp, NoBearer
  <2> QED
    BY <2>1, <2>2 DEF Profiles
<1>5. OneRefreshAtATime
  BY DEF Init, OneRefreshAtATime, Holds, Guarded
<1>6. NoResurrection
  BY DEF Init, NoResurrection, NoSession, MaybeAccount
<1>7. OneFailurePerCooldown
  BY DEF Init, OneFailurePerCooldown
<1> QED
  BY <1>1, <1>2, <1>3, <1>4, <1>5, <1>6, <1>7 DEF IInv

(***************************************************************************)
(* The type invariant, in two halves: what is shared and what is a task's. *)
(***************************************************************************)
SharedOK ==
  /\ session \in Session /\ epoch \in Nat /\ minted \in Nat
  /\ consent \in SUBSET Accounts
  /\ gate \in Gate /\ active \in BOOLEAN /\ resuming \in BOOLEAN
  /\ notice \in {"none", "failed", "recovered"}
  /\ opsLeft \in 0 .. MaxOps

TasksOK ==
  /\ lock \in Tasks \union {NoTask}
  /\ pc \in [Tasks -> Labels]
  /\ op \in [Tasks -> Op]

\* The type invariant is its two halves, in this state and in the next.
LEMMA TypeHalves == /\ TypeOK <=> SharedOK /\ TasksOK
                    /\ TypeOK' <=> SharedOK' /\ TasksOK'
  BY DEF TypeOK, SharedOK, TasksOK

\* clear_session leaves everything it writes typed.
LEMMA ClearSessionType ==
  ASSUME TypeOK, ClearSession
  PROVE  /\ session' \in Session /\ epoch' \in Nat /\ gate' \in Gate
         /\ notice' = "none" /\ consent' = {}
  BY DEF TypeOK, ClearSession, Session, NoSession, MaybeAccount, Gate, NewGate

\* What is shared keeps its type.
LEMMA SharedStep == IInv /\ [Next]_vars => SharedOK'
<1> SUFFICES ASSUME IInv, [Next]_vars PROVE SharedOK'
  OBVIOUS
<1> USE DEF IInv, TypeOK, SharedOK
<1>1. ASSUME NEW t \in Tasks, NEW a \in Accounts, StartSignIn(t, a)
      PROVE SharedOK'
  BY <1>1 DEF StartSignIn
<1>2. ASSUME NEW t \in Tasks, StartForced(t) PROVE SharedOK'
  BY <1>2 DEF StartForced
<1>3. ASSUME NEW t \in Tasks, StartRequest(t) PROVE SharedOK'
  BY <1>3 DEF StartRequest
<1>4. ASSUME NEW t \in Tasks, Cancel(t) PROVE SharedOK'
  BY <1>4 DEF Cancel
<1>5. CASE SignOut
  BY <1>5, ClearSessionType DEF SignOut
<1>6. ASSUME NEW on \in BOOLEAN, SetActive(on) PROVE SharedOK'
  BY <1>6 DEF SetActive
<1>7. CASE ClearBackoff
  BY <1>7 DEF ClearBackoff, Gate
<1>8. CASE Expire
  BY <1>8 DEF Expire, Session
<1>9. CASE CooldownEnds
  BY <1>9 DEF CooldownEnds, Gate
<1>10. ASSUME NEW t \in Tasks, Lock(t) PROVE SharedOK'
  BY <1>10 DEF Lock
<1>11. ASSUME NEW t \in Tasks, Authorize(t) PROVE SharedOK'
  BY <1>11 DEF Authorize
<1>12. ASSUME NEW t \in Tasks, Recheck(t) PROVE SharedOK'
  BY <1>12 DEF Recheck
<1>13. ASSUME NEW t \in Tasks, PassGate(t) PROVE SharedOK'
  BY <1>13 DEF PassGate
<1>14. ASSUME NEW t \in Tasks, TakeCredentials(t) PROVE SharedOK'
  BY <1>14 DEF TakeCredentials
<1>15. ASSUME NEW t \in Tasks, MintSucceeds(t) PROVE SharedOK'
  BY <1>15 DEF MintSucceeds
<1>16. ASSUME NEW t \in Tasks, NEW e \in Errors, MintFails(t, e)
      PROVE SharedOK'
  BY <1>16 DEF MintFails
<1>17. ASSUME NEW t \in Tasks, Install(t) PROVE SharedOK'
  <2>1. minted + 1 \in Nat /\ minted' \in Nat
    BY <1>17 DEF Install
  <2>2. op[t].acct \in MaybeAccount
    BY DEF Op
  <2>3. [acct |-> op[t].acct, profile |-> op[t].acct, token |-> minted',
         fresh |-> TRUE] \in Session
    BY <2>1, <2>2 DEF Session
  <2> QED
    BY <1>17, <2>1, <2>3 DEF Install
<1>18. ASSUME NEW t \in Tasks, TakeOwedRecovery(t) PROVE SharedOK'
  BY <1>18 DEF TakeOwedRecovery, Gate, NewGate
<1>19. ASSUME NEW t \in Tasks, SendRecovered(t) PROVE SharedOK'
  BY <1>19 DEF SendRecovered
<1>20. ASSUME NEW t \in Tasks, ReturnError(t) PROVE SharedOK'
  BY <1>20 DEF ReturnError
<1>21. ASSUME NEW t \in Tasks, RecordFailure(t) PROVE SharedOK'
  BY <1>21 DEF RecordFailure, Gate
<1>22. ASSUME NEW t \in Tasks, EmitFailure(t) PROVE SharedOK'
  <2>1. CASE op[t].err \in Terminal
    BY <1>22, <2>1, ClearSessionType DEF EmitFailure
  <2>2. CASE op[t].err \notin Terminal
    BY <1>22, <2>2 DEF EmitFailure
  <2> QED
    BY <2>1, <2>2
<1>23. ASSUME NEW t \in Tasks, MarkReported(t) PROVE SharedOK'
  BY <1>23 DEF MarkReported, Gate
<1>24. ASSUME NEW t \in Tasks, SendFailure(t) PROVE SharedOK'
  BY <1>24 DEF SendFailure
<1>25. ASSUME NEW t \in Tasks, TakeBearer(t) PROVE SharedOK'
  BY <1>25 DEF TakeBearer
<1>26. ASSUME NEW t \in Tasks, Answer401(t) PROVE SharedOK'
  BY <1>26 DEF Answer401
<1>27. ASSUME NEW t \in Tasks, Answer(t) PROVE SharedOK'
  BY <1>27 DEF Answer
<1>28. ASSUME NEW t \in Tasks, Resign(t) PROVE SharedOK'
  BY <1>28 DEF Resign
<1>29. ASSUME NEW t \in Tasks, ReturnAnswer(t) PROVE SharedOK'
  BY <1>29 DEF ReturnAnswer
<1>30. CASE UNCHANGED vars
  BY <1>30
<1> QED
  BY <1>1, <1>2, <1>3, <1>4, <1>5, <1>6, <1>7, <1>8, <1>9, <1>10, <1>11,
     <1>12, <1>13, <1>14, <1>15, <1>16, <1>17, <1>18, <1>19, <1>20, <1>21,
     <1>22, <1>23, <1>24, <1>25, <1>26, <1>27, <1>28, <1>29, <1>30
  DEF Next, Application, Time, Progress

\* What is a task's keeps its type.
LEMMA TasksStep == IInv /\ [Next]_vars => TasksOK'
<1> SUFFICES ASSUME IInv, [Next]_vars PROVE TasksOK'
  OBVIOUS
<1> USE DEF IInv, TypeOK, TasksOK, Labels
<1>1. ASSUME NEW t \in Tasks, NEW a \in Accounts, StartSignIn(t, a)
      PROVE TasksOK'
  <2>1. [NoOp EXCEPT !.ctx = "signin", !.acct = a, !.epoch = epoch] \in Op
    BY <1>1, OpNone DEF Op, MaybeAccount, Session
  <2> QED
    BY <1>1, <2>1 DEF StartSignIn
<1>2. ASSUME NEW t \in Tasks, StartForced(t) PROVE TasksOK'
  <2>1. [NoOp EXCEPT !.ctx = "forced", !.acct = session.acct,
                      !.epoch = epoch] \in Op
    BY <1>2, OpNone DEF Op, MaybeAccount, Session
  <2> QED
    BY <1>2, <2>1 DEF StartForced
<1>3. ASSUME NEW t \in Tasks, StartRequest(t) PROVE TasksOK'
  <2>1. [NoOp EXCEPT !.ctx = "proactive"] \in Op
    BY <1>3, OpNone DEF Op, MaybeAccount, Session
  <2> QED
    BY <1>3, <2>1 DEF StartRequest
<1>4. ASSUME NEW t \in Tasks, Cancel(t) PROVE TasksOK'
  BY <1>4, OpNone DEF Cancel
<1>5. CASE SignOut
  BY <1>5 DEF SignOut
<1>6. ASSUME NEW on \in BOOLEAN, SetActive(on) PROVE TasksOK'
  BY <1>6 DEF SetActive
<1>7. CASE ClearBackoff
  BY <1>7 DEF ClearBackoff
<1>8. CASE Expire
  BY <1>8 DEF Expire
<1>9. CASE CooldownEnds
  BY <1>9 DEF CooldownEnds
<1>10. ASSUME NEW t \in Tasks, Lock(t) PROVE TasksOK'
  BY <1>10 DEF Lock
<1>11. ASSUME NEW t \in Tasks, Authorize(t) PROVE TasksOK'
  BY <1>11, OpNone DEF Authorize
<1>12. ASSUME NEW t \in Tasks, Recheck(t) PROVE TasksOK'
  BY <1>12, OpNone, GatedDoneType DEF Recheck
<1>13. ASSUME NEW t \in Tasks, PassGate(t) PROVE TasksOK'
  BY <1>13, OpNone, GatedDoneType DEF PassGate
<1>14. ASSUME NEW t \in Tasks, TakeCredentials(t) PROVE TasksOK'
  <2>1. [op[t] EXCEPT !.err = "auth"] \in Op
    BY OpUpdates DEF Errors
  <2>2. session.acct \in MaybeAccount
    BY DEF Session
  <2>3. [op[t] EXCEPT !.acct = session.acct, !.epoch = epoch] \in Op
    BY <2>2, OpUpdates
  <2> QED
    BY <1>14, <2>1, <2>3 DEF TakeCredentials
<1>15. ASSUME NEW t \in Tasks, MintSucceeds(t) PROVE TasksOK'
  BY <1>15 DEF MintSucceeds
<1>16. ASSUME NEW t \in Tasks, NEW e \in Errors, MintFails(t, e)
      PROVE TasksOK'
  BY <1>16, OpUpdates DEF MintFails, Fails
<1>17. ASSUME NEW t \in Tasks, Install(t) PROVE TasksOK'
  <2>1. [op[t] EXCEPT !.err = "cleared"] \in Op
    BY OpUpdates
  <2> QED
    BY <1>17, <2>1 DEF Install, Fails
<1>18. ASSUME NEW t \in Tasks, TakeOwedRecovery(t) PROVE TasksOK'
  BY <1>18, OpNone, GatedDoneType DEF TakeOwedRecovery, Succeeds
<1>19. ASSUME NEW t \in Tasks, SendRecovered(t) PROVE TasksOK'
  BY <1>19, OpNone, GatedDoneType DEF SendRecovered, Succeeds
<1>20. ASSUME NEW t \in Tasks, ReturnError(t) PROVE TasksOK'
  BY <1>20, OpNone DEF ReturnError
<1>21. ASSUME NEW t \in Tasks, RecordFailure(t) PROVE TasksOK'
  BY <1>21 DEF RecordFailure
<1>22. ASSUME NEW t \in Tasks, EmitFailure(t) PROVE TasksOK'
  BY <1>22, GatedDoneType DEF EmitFailure
<1>23. ASSUME NEW t \in Tasks, MarkReported(t) PROVE TasksOK'
  BY <1>23 DEF MarkReported
<1>24. ASSUME NEW t \in Tasks, SendFailure(t) PROVE TasksOK'
  BY <1>24, GatedDoneType DEF SendFailure
<1>25. ASSUME NEW t \in Tasks, TakeBearer(t) PROVE TasksOK'
  <2> DEFINE b == [acct |-> session.acct, profile |-> session.profile,
                   token |-> session.token]
  <2>1. SignedIn /\ session.token # 0 => b \in Bearer
    BY DEF Profiles, Bearer, Session, MaybeAccount
  <2>2. SignedIn /\ session.token # 0 => [op[t] EXCEPT !.bearer = b] \in Op
    BY <2>1, OpUpdates
  <2> QED
    BY <1>25, <2>2, OpNone DEF TakeBearer
<1>26. ASSUME NEW t \in Tasks, Answer401(t) PROVE TasksOK'
  <2> DEFINE a == [op[t] EXCEPT !.retries = @ \union {"refresh"}]
             b == [op[t] EXCEPT !.retries = @ \union {"refresh"},
                                !.ctx = "reactive"]
  <2>1. op[t] \in Op
    OBVIOUS
  <2>2. a \in Op
    BY <2>1, OpUpdates
  <2>3. [a EXCEPT !.ctx = "reactive"] \in Op
    BY <2>2, OpUpdates DEF AnyContext
  <2>4. b = [a EXCEPT !.ctx = "reactive"]
    BY <2>1 DEF Op
  <2>5. b \in Op
    BY <2>3, <2>4
  <2> QED
    BY <1>26, <2>5 DEF Answer401
<1>27. ASSUME NEW t \in Tasks, Answer(t) PROVE TasksOK'
  BY <1>27 DEF Answer
<1>28. ASSUME NEW t \in Tasks, Resign(t) PROVE TasksOK'
  <2>1. [op[t] EXCEPT !.retries = @ \union {"resign"}] \in Op
    BY DEF Op
  <2> QED
    BY <1>28, <2>1 DEF Resign
<1>29. ASSUME NEW t \in Tasks, ReturnAnswer(t) PROVE TasksOK'
  BY <1>29, OpNone DEF ReturnAnswer
<1>30. CASE UNCHANGED vars
  BY <1>30
<1> QED
  BY <1>1, <1>2, <1>3, <1>4, <1>5, <1>6, <1>7, <1>8, <1>9, <1>10, <1>11,
     <1>12, <1>13, <1>14, <1>15, <1>16, <1>17, <1>18, <1>19, <1>20, <1>21,
     <1>22, <1>23, <1>24, <1>25, <1>26, <1>27, <1>28, <1>29, <1>30
  DEF Next, Application, Time, Progress

\* No step breaks the type invariant.
LEMMA TypeStep == IInv /\ [Next]_vars => TypeOK'
  BY SharedStep, TasksStep, TypeHalves
-----------------------------------------------------------------------------
(***************************************************************************)
(* The lock.                                                               *)
(***************************************************************************)

\* A background refresh that is over is a request again, and nobody else's
\* affair.
LEMMA GatedDoneTask ==
  ASSUME TypeOK, NEW t \in Tasks, NEW ok \in BOOLEAN, GatedDone(t, ok)
  PROVE  /\ lock' = NoTask
         /\ pc'[t] \in {"bearer", "authorize", "answer"}
         /\ op'[t].ctx = "proactive" /\ op'[t].bearer = op[t].bearer
         /\ \A u \in Tasks \ {t} : pc'[u] = pc[u] /\ op'[u] = op[u]
<1>1. op[t] \in Op
  BY DEF TypeOK
<1> DEFINE o == [op[t] EXCEPT !.acct = NoAccount, !.epoch = 0, !.err = "none",
                              !.ctx = "proactive"]
<1>2. o.ctx = "proactive" /\ o.bearer = op[t].bearer
  BY <1>1 DEF Op
<1>3. op'[t] = o /\ \A u \in Tasks \ {t} : op'[u] = op[u]
  BY DEF GatedDone, TypeOK
<1>4. /\ pc'[t] \in {"bearer", "authorize", "answer"}
      /\ \A u \in Tasks \ {t} : pc'[u] = pc[u]
  BY DEF GatedDone, TypeOK
<1> QED
  BY <1>2, <1>3, <1>4 DEF GatedDone

\* Capturing the credentials changes nothing but the account, the epoch or the
\* error of the task that does it, and takes it to "mint" or "record".
LEMMA TakeCredentialsTask ==
  ASSUME TypeOK, NEW t \in Tasks, TakeCredentials(t)
  PROVE  /\ pc'[t] \in {"record", "mint"}
         /\ op'[t].ctx = op[t].ctx /\ op'[t].bearer = op[t].bearer
         /\ \A u \in Tasks \ {t} : pc'[u] = pc[u] /\ op'[u] = op[u]
<1>1. op[t] \in Op
  BY DEF TypeOK
<1> DEFINE o(a, n) == [op[t] EXCEPT !.acct = a, !.epoch = n]
           p == [op[t] EXCEPT !.err = "auth"]
<1>2. \A a, n : o(a, n).ctx = op[t].ctx /\ o(a, n).bearer = op[t].bearer
  BY <1>1 DEF Op
<1>3. p.ctx = op[t].ctx /\ p.bearer = op[t].bearer
  BY <1>1 DEF Op
<1>4. op'[t] = p \/ op'[t] = o(session.acct, epoch)
  BY DEF TakeCredentials, TypeOK
<1> HIDE DEF o, p
<1>5. op'[t].ctx = op[t].ctx /\ op'[t].bearer = op[t].bearer
  BY <1>2, <1>3, <1>4
<1> QED
  BY <1>5 DEF TakeCredentials, TypeOK

\* What a task's label says of its context.
LEMMA ContextsStep == IInv /\ [Next]_vars => Contexts'
<1> SUFFICES ASSUME IInv, [Next]_vars PROVE Contexts'
  OBVIOUS
<1> USE DEF IInv, TypeOK, Op, Contexts, Requesting
<1>1. ASSUME NEW t \in Tasks, NEW a \in Accounts, StartSignIn(t, a)
      PROVE Contexts'
  BY <1>1 DEF StartSignIn, NoOp
<1>2. ASSUME NEW t \in Tasks, StartForced(t) PROVE Contexts'
  BY <1>2 DEF StartForced, NoOp
<1>3. ASSUME NEW t \in Tasks, StartRequest(t) PROVE Contexts'
  BY <1>3 DEF StartRequest, NoOp
<1>4. ASSUME NEW t \in Tasks, Cancel(t) PROVE Contexts'
  BY <1>4 DEF Cancel
<1>5. CASE SignOut
  BY <1>5 DEF SignOut, ClearSession
<1>6. ASSUME NEW on \in BOOLEAN, SetActive(on) PROVE Contexts'
  BY <1>6 DEF SetActive
<1>7. CASE ClearBackoff
  BY <1>7 DEF ClearBackoff
<1>8. CASE Expire
  BY <1>8 DEF Expire
<1>9. CASE CooldownEnds
  BY <1>9 DEF CooldownEnds
<1>10. ASSUME NEW t \in Tasks, Lock(t) PROVE Contexts'
  BY <1>10 DEF Lock
<1>11. ASSUME NEW t \in Tasks, Authorize(t) PROVE Contexts'
  BY <1>11 DEF Authorize
<1>12. ASSUME NEW t \in Tasks, Recheck(t) PROVE Contexts'
  <2>1. ASSUME NEW ok \in BOOLEAN, GatedDone(t, ok) PROVE Contexts'
    BY <2>1, GatedDoneTask
  <2>2. CASE Finish(t)
    BY <1>12, <2>2, OpNone DEF Recheck
  <2>3. CASE Goto(t, "gate") /\ UNCHANGED <<op, lock>>
    <3>1. /\ pc'[t] = "gate" /\ op' = op /\ pc[t] = "recheck"
          /\ \A u \in Tasks \ {t} : pc'[u] = pc[u]
      BY <1>12, <2>3 DEF Recheck
    <3> QED
      BY <3>1
  <2> QED
    BY <1>12, <2>1, <2>2, <2>3 DEF Recheck
<1>13. ASSUME NEW t \in Tasks, PassGate(t) PROVE Contexts'
  <2>1. ASSUME NEW ok \in BOOLEAN, GatedDone(t, ok) PROVE Contexts'
    BY <2>1, GatedDoneTask
  <2>2. CASE ~ \E ok \in BOOLEAN : GatedDone(t, ok)
    BY <1>13, <2>2 DEF PassGate
  <2> QED
    BY <2>1, <2>2
<1>14. ASSUME NEW t \in Tasks, TakeCredentials(t) PROVE Contexts'
  <2>1. op[t].ctx \in Gated
    BY <1>14 DEF TakeCredentials
  <2> QED
    BY <2>1, <1>14, TakeCredentialsTask
<1>15. ASSUME NEW t \in Tasks, MintSucceeds(t) PROVE Contexts'
  BY <1>15 DEF MintSucceeds
<1>16. ASSUME NEW t \in Tasks, NEW e \in Errors, MintFails(t, e)
      PROVE Contexts'
  BY <1>16 DEF MintFails, Fails
<1>17. ASSUME NEW t \in Tasks, Install(t) PROVE Contexts'
  BY <1>17 DEF Install, Fails
<1>18. ASSUME NEW t \in Tasks, TakeOwedRecovery(t) PROVE Contexts'
  <2>1. ASSUME NEW ok \in BOOLEAN, GatedDone(t, ok) PROVE Contexts'
    BY <2>1, GatedDoneTask
  <2>2. CASE gate.reported
    BY <1>18, <2>2 DEF TakeOwedRecovery
  <2>3. CASE Finish(t)
    BY <1>18, <2>3, OpNone DEF TakeOwedRecovery
  <2> QED
    BY <1>18, <2>1, <2>2, <2>3 DEF TakeOwedRecovery, Succeeds
<1>19. ASSUME NEW t \in Tasks, SendRecovered(t) PROVE Contexts'
  <2>1. ASSUME NEW ok \in BOOLEAN, GatedDone(t, ok) PROVE Contexts'
    BY <2>1, GatedDoneTask
  <2>2. CASE Finish(t)
    BY <1>19, <2>2, OpNone DEF SendRecovered
  <2> QED
    BY <1>19, <2>1, <2>2 DEF SendRecovered, Succeeds
<1>20. ASSUME NEW t \in Tasks, ReturnError(t) PROVE Contexts'
  BY <1>20 DEF ReturnError
<1>21. ASSUME NEW t \in Tasks, RecordFailure(t) PROVE Contexts'
  BY <1>21 DEF RecordFailure
<1>22. ASSUME NEW t \in Tasks, EmitFailure(t) PROVE Contexts'
  <2>1. CASE GatedDone(t, FALSE)
    <3>1. /\ pc'[t] \in {"bearer", "authorize", "answer"}
          /\ op'[t].ctx = "proactive"
          /\ \A u \in Tasks \ {t} : pc'[u] = pc[u] /\ op'[u] = op[u]
      BY <2>1, GatedDoneTask
    <3>2. \A u \in Tasks \ {t} :
            /\ pc'[u] \in Requesting => op'[u].ctx \in Gated
            /\ pc'[u] \in {"authorize", "bearer", "call", "answer"}
                 => op'[u].ctx = "proactive"
            /\ pc'[u] \in {"mint", "install", "owed", "recover"}
                 => op'[u].ctx # "none"
      BY <3>1
    <3> QED
      BY <3>1, <3>2
  <2>2. CASE (Goto(t, "tell") \/ Goto(t, "report")) /\ UNCHANGED op
    <3>1. /\ pc'[t] \in {"tell", "report"} /\ op' = op /\ pc[t] = "emit"
          /\ \A u \in Tasks \ {t} : pc'[u] = pc[u]
      BY <1>22, <2>2 DEF EmitFailure
    <3> QED
      BY <3>1
  <2> QED
    BY <1>22, <2>1, <2>2 DEF EmitFailure
<1>23. ASSUME NEW t \in Tasks, MarkReported(t) PROVE Contexts'
  BY <1>23 DEF MarkReported
<1>24. ASSUME NEW t \in Tasks, SendFailure(t) PROVE Contexts'
  BY <1>24 DEF SendFailure, GatedDone
<1>25. ASSUME NEW t \in Tasks, TakeBearer(t) PROVE Contexts'
  BY <1>25 DEF TakeBearer
<1>26. ASSUME NEW t \in Tasks, Answer401(t) PROVE Contexts'
  BY <1>26 DEF Answer401
<1>27. ASSUME NEW t \in Tasks, Answer(t) PROVE Contexts'
  BY <1>27 DEF Answer
<1>28. ASSUME NEW t \in Tasks, Resign(t) PROVE Contexts'
  BY <1>28 DEF Resign
<1>29. ASSUME NEW t \in Tasks, ReturnAnswer(t) PROVE Contexts'
  BY <1>29 DEF ReturnAnswer
<1>30. CASE UNCHANGED vars
  BY <1>30
<1> QED
  BY <1>1, <1>2, <1>3, <1>4, <1>5, <1>6, <1>7, <1>8, <1>9, <1>10, <1>11,
     <1>12, <1>13, <1>14, <1>15, <1>16, <1>17, <1>18, <1>19, <1>20, <1>21,
     <1>22, <1>23, <1>24, <1>25, <1>26, <1>27, <1>28, <1>29, <1>30
  DEF Next, Application, Time, Progress

\* The lock is taken by Lock alone and given back by whatever ends a background
\* refresh: GatedDone, a request that finds itself signed out, or Cancel.
LEMMA LockStep == IInv /\ [Next]_vars => OneRefreshAtATime'
<1> SUFFICES ASSUME IInv, [Next]_vars PROVE OneRefreshAtATime'
  OBVIOUS
<1> USE DEF IInv, TypeOK, Op, Contexts, Requesting, OneRefreshAtATime, Holds,
            Guarded
<1>1. ASSUME NEW t \in Tasks, NEW a \in Accounts, StartSignIn(t, a)
      PROVE OneRefreshAtATime'
  BY <1>1 DEF StartSignIn, NoOp
<1>2. ASSUME NEW t \in Tasks, StartForced(t) PROVE OneRefreshAtATime'
  BY <1>2 DEF StartForced, NoOp
<1>3. ASSUME NEW t \in Tasks, StartRequest(t) PROVE OneRefreshAtATime'
  BY <1>3 DEF StartRequest, NoOp
<1>4. ASSUME NEW t \in Tasks, Cancel(t) PROVE OneRefreshAtATime'
  BY <1>4 DEF Cancel, NoOp
<1>5. CASE SignOut
  BY <1>5 DEF SignOut, ClearSession
<1>6. ASSUME NEW on \in BOOLEAN, SetActive(on) PROVE OneRefreshAtATime'
  BY <1>6 DEF SetActive
<1>7. CASE ClearBackoff
  BY <1>7 DEF ClearBackoff
<1>8. CASE Expire
  BY <1>8 DEF Expire
<1>9. CASE CooldownEnds
  BY <1>9 DEF CooldownEnds
<1>10. ASSUME NEW t \in Tasks, Lock(t) PROVE OneRefreshAtATime'
  BY <1>10 DEF Lock
<1>11. ASSUME NEW t \in Tasks, Authorize(t) PROVE OneRefreshAtATime'
  BY <1>11 DEF Authorize, NoOp
<1>12. ASSUME NEW t \in Tasks, Recheck(t) PROVE OneRefreshAtATime'
  BY <1>12 DEF Recheck, GatedDone, NoOp
<1>13. ASSUME NEW t \in Tasks, PassGate(t) PROVE OneRefreshAtATime'
  BY <1>13 DEF PassGate, GatedDone
<1>14. ASSUME NEW t \in Tasks, TakeCredentials(t) PROVE OneRefreshAtATime'
  <2>1. /\ pc[t] = "creds" /\ lock' = lock /\ pc'[t] \in {"record", "mint"}
        /\ op'[t].ctx = op[t].ctx
        /\ \A u \in Tasks \ {t} : pc'[u] = pc[u] /\ op'[u] = op[u]
    BY <1>14, TakeCredentialsTask DEF TakeCredentials
  <2>2. Holds(t)' => Holds(t)
    BY <2>1
  <2>3. \A u \in Tasks \ {t} : Holds(u)' => Holds(u)
    BY <2>1
  <2> QED
    BY <2>1, <2>2, <2>3
<1>15. ASSUME NEW t \in Tasks, MintSucceeds(t) PROVE OneRefreshAtATime'
  BY <1>15 DEF MintSucceeds
<1>16. ASSUME NEW t \in Tasks, NEW e \in Errors, MintFails(t, e)
      PROVE OneRefreshAtATime'
  BY <1>16 DEF MintFails, Fails
<1>17. ASSUME NEW t \in Tasks, Install(t) PROVE OneRefreshAtATime'
  BY <1>17 DEF Install, Fails
<1>18. ASSUME NEW t \in Tasks, TakeOwedRecovery(t) PROVE OneRefreshAtATime'
  BY <1>18 DEF TakeOwedRecovery, Succeeds, GatedDone, NoOp
<1>19. ASSUME NEW t \in Tasks, SendRecovered(t) PROVE OneRefreshAtATime'
  BY <1>19 DEF SendRecovered, Succeeds, GatedDone, NoOp
<1>20. ASSUME NEW t \in Tasks, ReturnError(t) PROVE OneRefreshAtATime'
  BY <1>20 DEF ReturnError, NoOp
<1>21. ASSUME NEW t \in Tasks, RecordFailure(t) PROVE OneRefreshAtATime'
  BY <1>21 DEF RecordFailure
<1>22. ASSUME NEW t \in Tasks, EmitFailure(t) PROVE OneRefreshAtATime'
  BY <1>22 DEF EmitFailure, GatedDone, ClearSession
<1>23. ASSUME NEW t \in Tasks, MarkReported(t) PROVE OneRefreshAtATime'
  BY <1>23 DEF MarkReported
<1>24. ASSUME NEW t \in Tasks, SendFailure(t) PROVE OneRefreshAtATime'
  BY <1>24 DEF SendFailure, GatedDone
<1>25. ASSUME NEW t \in Tasks, TakeBearer(t) PROVE OneRefreshAtATime'
  BY <1>25 DEF TakeBearer, NoOp
<1>26. ASSUME NEW t \in Tasks, Answer401(t) PROVE OneRefreshAtATime'
  BY <1>26 DEF Answer401
<1>27. ASSUME NEW t \in Tasks, Answer(t) PROVE OneRefreshAtATime'
  BY <1>27 DEF Answer
<1>28. ASSUME NEW t \in Tasks, Resign(t) PROVE OneRefreshAtATime'
  BY <1>28 DEF Resign
<1>29. ASSUME NEW t \in Tasks, ReturnAnswer(t) PROVE OneRefreshAtATime'
  BY <1>29 DEF ReturnAnswer, NoOp
<1>30. CASE UNCHANGED vars
  BY <1>30
<1> QED
  BY <1>1, <1>2, <1>3, <1>4, <1>5, <1>6, <1>7, <1>8, <1>9, <1>10, <1>11,
     <1>12, <1>13, <1>14, <1>15, <1>16, <1>17, <1>18, <1>19, <1>20, <1>21,
     <1>22, <1>23, <1>24, <1>25, <1>26, <1>27, <1>28, <1>29, <1>30
  DEF Next, Application, Time, Progress
-----------------------------------------------------------------------------
(***************************************************************************)
(* The epoch.                                                              *)
(***************************************************************************)
\* The epoch only grows, and accounts leave consent only with a new epoch, so
\* what was captured in this epoch was asked for in it.
LEMMA CapturedStep == IInv /\ [Next]_vars => Captured'
<1> SUFFICES ASSUME IInv, [Next]_vars PROVE Captured'
  OBVIOUS
<1> USE DEF IInv, TypeOK, Op, Captured
<1>1. ASSUME NEW t \in Tasks, NEW a \in Accounts, StartSignIn(t, a)
      PROVE Captured'
  BY <1>1 DEF StartSignIn, NoOp
<1>2. ASSUME NEW t \in Tasks, StartForced(t) PROVE Captured'
  BY <1>2 DEF StartForced, NoOp, NoResurrection
<1>3. ASSUME NEW t \in Tasks, StartRequest(t) PROVE Captured'
  BY <1>3 DEF StartRequest, NoOp
<1>4. ASSUME NEW t \in Tasks, Cancel(t) PROVE Captured'
  BY <1>4 DEF Cancel
<1>5. CASE SignOut
  BY <1>5 DEF SignOut, ClearSession
<1>6. ASSUME NEW on \in BOOLEAN, SetActive(on) PROVE Captured'
  BY <1>6 DEF SetActive
<1>7. CASE ClearBackoff
  BY <1>7 DEF ClearBackoff
<1>8. CASE Expire
  BY <1>8 DEF Expire
<1>9. CASE CooldownEnds
  BY <1>9 DEF CooldownEnds
<1>10. ASSUME NEW t \in Tasks, Lock(t) PROVE Captured'
  BY <1>10 DEF Lock
<1>11. ASSUME NEW t \in Tasks, Authorize(t) PROVE Captured'
  BY <1>11 DEF Authorize
<1>12. ASSUME NEW t \in Tasks, Recheck(t) PROVE Captured'
  BY <1>12 DEF Recheck, GatedDone
<1>13. ASSUME NEW t \in Tasks, PassGate(t) PROVE Captured'
  BY <1>13 DEF PassGate, GatedDone
<1>14. ASSUME NEW t \in Tasks, TakeCredentials(t) PROVE Captured'
  <2>1. SignedIn => session.acct \in Accounts /\ session.acct \in consent
    BY DEF NoResurrection
  <2> DEFINE o == [op[t] EXCEPT !.acct = session.acct, !.epoch = epoch]
  <2>2. o.acct = session.acct /\ o.epoch = epoch
    OBVIOUS
  <2>3. pc'[t] = "mint" => op'[t] = o /\ SignedIn
    BY <1>14 DEF TakeCredentials
  <2>4. epoch' = epoch /\ consent' = consent /\ epoch \in Nat
    BY <1>14 DEF TakeCredentials
  <2> HIDE DEF o
  <2>5. pc'[t] = "mint" => /\ op'[t].acct \in Accounts /\ op'[t].acct \in consent'
                          /\ op'[t].epoch <= epoch'
    BY <2>1, <2>2, <2>3, <2>4
  <2> QED
    BY <2>4, <2>5, <1>14, TakeCredentialsTask
<1>15. ASSUME NEW t \in Tasks, MintSucceeds(t) PROVE Captured'
  BY <1>15 DEF MintSucceeds
<1>16. ASSUME NEW t \in Tasks, NEW e \in Errors, MintFails(t, e)
      PROVE Captured'
  BY <1>16 DEF MintFails, Fails
<1>17. ASSUME NEW t \in Tasks, Install(t) PROVE Captured'
  BY <1>17 DEF Install, Fails
<1>18. ASSUME NEW t \in Tasks, TakeOwedRecovery(t) PROVE Captured'
  BY <1>18 DEF TakeOwedRecovery, Succeeds, GatedDone
<1>19. ASSUME NEW t \in Tasks, SendRecovered(t) PROVE Captured'
  BY <1>19 DEF SendRecovered, Succeeds, GatedDone
<1>20. ASSUME NEW t \in Tasks, ReturnError(t) PROVE Captured'
  BY <1>20 DEF ReturnError
<1>21. ASSUME NEW t \in Tasks, RecordFailure(t) PROVE Captured'
  BY <1>21 DEF RecordFailure
<1>22. ASSUME NEW t \in Tasks, EmitFailure(t) PROVE Captured'
  BY <1>22 DEF EmitFailure, GatedDone, ClearSession
<1>23. ASSUME NEW t \in Tasks, MarkReported(t) PROVE Captured'
  BY <1>23 DEF MarkReported
<1>24. ASSUME NEW t \in Tasks, SendFailure(t) PROVE Captured'
  BY <1>24 DEF SendFailure, GatedDone
<1>25. ASSUME NEW t \in Tasks, TakeBearer(t) PROVE Captured'
  BY <1>25 DEF TakeBearer
<1>26. ASSUME NEW t \in Tasks, Answer401(t) PROVE Captured'
  BY <1>26 DEF Answer401
<1>27. ASSUME NEW t \in Tasks, Answer(t) PROVE Captured'
  BY <1>27 DEF Answer
<1>28. ASSUME NEW t \in Tasks, Resign(t) PROVE Captured'
  BY <1>28 DEF Resign
<1>29. ASSUME NEW t \in Tasks, ReturnAnswer(t) PROVE Captured'
  BY <1>29 DEF ReturnAnswer
<1>30. CASE UNCHANGED vars
  BY <1>30
<1> QED
  BY <1>1, <1>2, <1>3, <1>4, <1>5, <1>6, <1>7, <1>8, <1>9, <1>10, <1>11,
     <1>12, <1>13, <1>14, <1>15, <1>16, <1>17, <1>18, <1>19, <1>20, <1>21,
     <1>22, <1>23, <1>24, <1>25, <1>26, <1>27, <1>28, <1>29, <1>30
  DEF Next, Application, Time, Progress

\* Only Install puts an account in, and it compares the epochs first.
LEMMA NoResurrectionStep == IInv /\ [Next]_vars => NoResurrection'
<1> SUFFICES ASSUME IInv, [Next]_vars PROVE NoResurrection'
  OBVIOUS
<1> USE DEF IInv, TypeOK, Session, NoResurrection
<1>1. ASSUME NEW t \in Tasks, NEW a \in Accounts, StartSignIn(t, a)
      PROVE NoResurrection'
  BY <1>1 DEF StartSignIn
<1>2. ASSUME NEW t \in Tasks, StartForced(t) PROVE NoResurrection'
  BY <1>2 DEF StartForced
<1>3. ASSUME NEW t \in Tasks, StartRequest(t) PROVE NoResurrection'
  BY <1>3 DEF StartRequest
<1>4. ASSUME NEW t \in Tasks, Cancel(t) PROVE NoResurrection'
  BY <1>4 DEF Cancel
<1>5. CASE SignOut
  BY <1>5 DEF SignOut, ClearSession, NoSession
<1>6. ASSUME NEW on \in BOOLEAN, SetActive(on) PROVE NoResurrection'
  BY <1>6 DEF SetActive
<1>7. CASE ClearBackoff
  BY <1>7 DEF ClearBackoff
<1>8. CASE Expire
  BY <1>8 DEF Expire
<1>9. CASE CooldownEnds
  BY <1>9 DEF CooldownEnds
<1>10. ASSUME NEW t \in Tasks, Lock(t) PROVE NoResurrection'
  BY <1>10 DEF Lock
<1>11. ASSUME NEW t \in Tasks, Authorize(t) PROVE NoResurrection'
  BY <1>11 DEF Authorize
<1>12. ASSUME NEW t \in Tasks, Recheck(t) PROVE NoResurrection'
  BY <1>12 DEF Recheck, GatedDone
<1>13. ASSUME NEW t \in Tasks, PassGate(t) PROVE NoResurrection'
  BY <1>13 DEF PassGate, GatedDone
<1>14. ASSUME NEW t \in Tasks, TakeCredentials(t) PROVE NoResurrection'
  BY <1>14 DEF TakeCredentials
<1>15. ASSUME NEW t \in Tasks, MintSucceeds(t) PROVE NoResurrection'
  BY <1>15 DEF MintSucceeds
<1>16. ASSUME NEW t \in Tasks, NEW e \in Errors, MintFails(t, e)
      PROVE NoResurrection'
  BY <1>16 DEF MintFails, Fails
<1>17. ASSUME NEW t \in Tasks, Install(t) PROVE NoResurrection'
  BY <1>17 DEF Install, Fails, Captured
<1>18. ASSUME NEW t \in Tasks, TakeOwedRecovery(t) PROVE NoResurrection'
  BY <1>18 DEF TakeOwedRecovery, Succeeds, GatedDone
<1>19. ASSUME NEW t \in Tasks, SendRecovered(t) PROVE NoResurrection'
  BY <1>19 DEF SendRecovered, Succeeds, GatedDone
<1>20. ASSUME NEW t \in Tasks, ReturnError(t) PROVE NoResurrection'
  BY <1>20 DEF ReturnError
<1>21. ASSUME NEW t \in Tasks, RecordFailure(t) PROVE NoResurrection'
  BY <1>21 DEF RecordFailure
<1>22. ASSUME NEW t \in Tasks, EmitFailure(t) PROVE NoResurrection'
  BY <1>22 DEF EmitFailure, GatedDone, ClearSession, NoSession
<1>23. ASSUME NEW t \in Tasks, MarkReported(t) PROVE NoResurrection'
  BY <1>23 DEF MarkReported
<1>24. ASSUME NEW t \in Tasks, SendFailure(t) PROVE NoResurrection'
  BY <1>24 DEF SendFailure, GatedDone
<1>25. ASSUME NEW t \in Tasks, TakeBearer(t) PROVE NoResurrection'
  BY <1>25 DEF TakeBearer
<1>26. ASSUME NEW t \in Tasks, Answer401(t) PROVE NoResurrection'
  BY <1>26 DEF Answer401
<1>27. ASSUME NEW t \in Tasks, Answer(t) PROVE NoResurrection'
  BY <1>27 DEF Answer
<1>28. ASSUME NEW t \in Tasks, Resign(t) PROVE NoResurrection'
  BY <1>28 DEF Resign
<1>29. ASSUME NEW t \in Tasks, ReturnAnswer(t) PROVE NoResurrection'
  BY <1>29 DEF ReturnAnswer
<1>30. CASE UNCHANGED vars
  BY <1>30
<1> QED
  BY <1>1, <1>2, <1>3, <1>4, <1>5, <1>6, <1>7, <1>8, <1>9, <1>10, <1>11,
     <1>12, <1>13, <1>14, <1>15, <1>16, <1>17, <1>18, <1>19, <1>20, <1>21,
     <1>22, <1>23, <1>24, <1>25, <1>26, <1>27, <1>28, <1>29, <1>30
  DEF Next, Application, Time, Progress

(***************************************************************************)
(* Profiles.                                                               *)
(***************************************************************************)

\* A bearer is dropped, kept, or taken from the session after a comparison
\* with the one before.
BearersKept ==
  \A u \in Tasks :
    \/ op'[u].bearer = op[u].bearer
    \/ op'[u].bearer = NoBearer
    \/ /\ op'[u].bearer = [acct |-> session.acct, profile |-> session.profile,
                           token |-> session.token]
       /\ SignedIn /\ session.token # 0
       /\ op[u].bearer = NoBearer \/ op[u].bearer.profile = session.profile

\* Every step treats every task's bearer in that way.
LEMMA BearerStep == IInv /\ [Next]_vars => BearersKept
<1> SUFFICES ASSUME IInv, [Next]_vars PROVE BearersKept
  OBVIOUS
<1> USE DEF IInv, TypeOK, Op, BearersKept
<1>1. ASSUME NEW t \in Tasks, NEW a \in Accounts, StartSignIn(t, a)
      PROVE BearersKept
  BY <1>1 DEF StartSignIn, NoOp
<1>2. ASSUME NEW t \in Tasks, StartForced(t) PROVE BearersKept
  BY <1>2 DEF StartForced, NoOp
<1>3. ASSUME NEW t \in Tasks, StartRequest(t) PROVE BearersKept
  BY <1>3 DEF StartRequest, NoOp
<1>4. ASSUME NEW t \in Tasks, Cancel(t) PROVE BearersKept
  BY <1>4 DEF Cancel, NoOp
<1>5. CASE SignOut
  BY <1>5 DEF SignOut, ClearSession
<1>6. ASSUME NEW on \in BOOLEAN, SetActive(on) PROVE BearersKept
  BY <1>6 DEF SetActive
<1>7. CASE ClearBackoff
  BY <1>7 DEF ClearBackoff
<1>8. CASE Expire
  BY <1>8 DEF Expire
<1>9. CASE CooldownEnds
  BY <1>9 DEF CooldownEnds
<1>10. ASSUME NEW t \in Tasks, Lock(t) PROVE BearersKept
  BY <1>10 DEF Lock
<1>11. ASSUME NEW t \in Tasks, Authorize(t) PROVE BearersKept
  BY <1>11 DEF Authorize, NoOp
<1>12. ASSUME NEW t \in Tasks, Recheck(t) PROVE BearersKept
  <2>1. ASSUME NEW ok \in BOOLEAN, GatedDone(t, ok) PROVE BearersKept
    BY <2>1, GatedDoneTask
  <2>2. CASE Finish(t)
    BY <2>2 DEF NoOp
  <2>3. CASE UNCHANGED op
    BY <2>3
  <2> QED
    BY <1>12, <2>1, <2>2, <2>3 DEF Recheck
<1>13. ASSUME NEW t \in Tasks, PassGate(t) PROVE BearersKept
  <2>1. ASSUME NEW ok \in BOOLEAN, GatedDone(t, ok) PROVE BearersKept
    BY <2>1, GatedDoneTask
  <2>2. CASE Finish(t)
    BY <2>2 DEF NoOp
  <2>3. CASE UNCHANGED op
    BY <2>3
  <2> QED
    BY <1>13, <2>1, <2>2, <2>3 DEF PassGate
<1>14. ASSUME NEW t \in Tasks, TakeCredentials(t) PROVE BearersKept
  BY <1>14, TakeCredentialsTask
<1>15. ASSUME NEW t \in Tasks, MintSucceeds(t) PROVE BearersKept
  BY <1>15 DEF MintSucceeds
<1>16. ASSUME NEW t \in Tasks, NEW e \in Errors, MintFails(t, e)
      PROVE BearersKept
  BY <1>16 DEF MintFails, Fails
<1>17. ASSUME NEW t \in Tasks, Install(t) PROVE BearersKept
  BY <1>17 DEF Install, Fails
<1>18. ASSUME NEW t \in Tasks, TakeOwedRecovery(t) PROVE BearersKept
  <2>1. ASSUME NEW ok \in BOOLEAN, GatedDone(t, ok) PROVE BearersKept
    BY <2>1, GatedDoneTask
  <2>2. CASE Finish(t)
    BY <2>2 DEF NoOp
  <2>3. CASE UNCHANGED op
    BY <2>3
  <2> QED
    BY <1>18, <2>1, <2>2, <2>3 DEF TakeOwedRecovery, Succeeds
<1>19. ASSUME NEW t \in Tasks, SendRecovered(t) PROVE BearersKept
  <2>1. ASSUME NEW ok \in BOOLEAN, GatedDone(t, ok) PROVE BearersKept
    BY <2>1, GatedDoneTask
  <2>2. CASE Finish(t)
    BY <2>2 DEF NoOp
  <2>3. CASE UNCHANGED op
    BY <2>3
  <2> QED
    BY <1>19, <2>1, <2>2, <2>3 DEF SendRecovered, Succeeds
<1>20. ASSUME NEW t \in Tasks, ReturnError(t) PROVE BearersKept
  BY <1>20 DEF ReturnError, NoOp
<1>21. ASSUME NEW t \in Tasks, RecordFailure(t) PROVE BearersKept
  BY <1>21 DEF RecordFailure
<1>22. ASSUME NEW t \in Tasks, EmitFailure(t) PROVE BearersKept
  <2>1. ASSUME NEW ok \in BOOLEAN, GatedDone(t, ok) PROVE BearersKept
    BY <2>1, GatedDoneTask
  <2>2. CASE Finish(t)
    BY <2>2 DEF NoOp
  <2>3. CASE UNCHANGED op
    BY <2>3
  <2> QED
    BY <1>22, <2>1, <2>2, <2>3 DEF EmitFailure
<1>23. ASSUME NEW t \in Tasks, MarkReported(t) PROVE BearersKept
  BY <1>23 DEF MarkReported
<1>24. ASSUME NEW t \in Tasks, SendFailure(t) PROVE BearersKept
  <2>1. ASSUME NEW ok \in BOOLEAN, GatedDone(t, ok) PROVE BearersKept
    BY <2>1, GatedDoneTask
  <2>2. CASE Finish(t)
    BY <2>2 DEF NoOp
  <2>3. CASE UNCHANGED op
    BY <2>3
  <2> QED
    BY <1>24, <2>1, <2>2, <2>3 DEF SendFailure
<1>25. ASSUME NEW t \in Tasks, TakeBearer(t) PROVE BearersKept
  <2>1. CASE Finish(t)
    BY <2>1 DEF NoOp
  <2>2. CASE ~ Finish(t)
    <3> DEFINE b == [acct |-> session.acct, profile |-> session.profile,
                     token |-> session.token]
    <3>1. /\ SignedIn /\ session.token # 0
          /\ op[t].bearer = NoBearer \/ op[t].bearer.profile = session.profile
          /\ op' = [op EXCEPT ![t] = [op[t] EXCEPT !.bearer = b]]
      BY <1>25, <2>2 DEF TakeBearer
    <3>2. op'[t].bearer = b /\ \A u \in Tasks \ {t} : op'[u] = op[u]
      BY <3>1
    <3> QED
      BY <3>1, <3>2
  <2> QED
    BY <2>1, <2>2
<1>26. ASSUME NEW t \in Tasks, Answer401(t) PROVE BearersKept
  BY <1>26 DEF Answer401
<1>27. ASSUME NEW t \in Tasks, Answer(t) PROVE BearersKept
  BY <1>27 DEF Answer
<1>28. ASSUME NEW t \in Tasks, Resign(t) PROVE BearersKept
  BY <1>28 DEF Resign
<1>29. ASSUME NEW t \in Tasks, ReturnAnswer(t) PROVE BearersKept
  BY <1>29 DEF ReturnAnswer, NoOp
<1>30. CASE UNCHANGED vars
  BY <1>30
<1> QED
  BY <1>1, <1>2, <1>3, <1>4, <1>5, <1>6, <1>7, <1>8, <1>9, <1>10, <1>11,
     <1>12, <1>13, <1>14, <1>15, <1>16, <1>17, <1>18, <1>19, <1>20, <1>21,
     <1>22, <1>23, <1>24, <1>25, <1>26, <1>27, <1>28, <1>29, <1>30
  DEF Next, Application, Time, Progress

\* A minted token comes with its account's profile.
SessionProfile == session.token # 0 => SignedIn /\ session.profile = session.acct

\* Only Install stores a token, and it stores the profile with it.
LEMMA SessionProfileStep == IInv /\ [Next]_vars => SessionProfile'
<1> SUFFICES ASSUME IInv, [Next]_vars PROVE SessionProfile'
  OBVIOUS
<1> USE DEF IInv, TypeOK, Session, Profiles, SessionProfile
<1>1. ASSUME NEW t \in Tasks, NEW a \in Accounts, StartSignIn(t, a)
      PROVE SessionProfile'
  BY <1>1 DEF StartSignIn
<1>2. ASSUME NEW t \in Tasks, StartForced(t) PROVE SessionProfile'
  BY <1>2 DEF StartForced
<1>3. ASSUME NEW t \in Tasks, StartRequest(t) PROVE SessionProfile'
  BY <1>3 DEF StartRequest
<1>4. ASSUME NEW t \in Tasks, Cancel(t) PROVE SessionProfile'
  BY <1>4 DEF Cancel
<1>5. CASE SignOut
  BY <1>5 DEF SignOut, ClearSession, NoSession
<1>6. ASSUME NEW on \in BOOLEAN, SetActive(on) PROVE SessionProfile'
  BY <1>6 DEF SetActive
<1>7. CASE ClearBackoff
  BY <1>7 DEF ClearBackoff
<1>8. CASE Expire
  BY <1>8 DEF Expire
<1>9. CASE CooldownEnds
  BY <1>9 DEF CooldownEnds
<1>10. ASSUME NEW t \in Tasks, Lock(t) PROVE SessionProfile'
  BY <1>10 DEF Lock
<1>11. ASSUME NEW t \in Tasks, Authorize(t) PROVE SessionProfile'
  BY <1>11 DEF Authorize
<1>12. ASSUME NEW t \in Tasks, Recheck(t) PROVE SessionProfile'
  BY <1>12 DEF Recheck, GatedDone
<1>13. ASSUME NEW t \in Tasks, PassGate(t) PROVE SessionProfile'
  BY <1>13 DEF PassGate, GatedDone
<1>14. ASSUME NEW t \in Tasks, TakeCredentials(t) PROVE SessionProfile'
  BY <1>14 DEF TakeCredentials
<1>15. ASSUME NEW t \in Tasks, MintSucceeds(t) PROVE SessionProfile'
  BY <1>15 DEF MintSucceeds
<1>16. ASSUME NEW t \in Tasks, NEW e \in Errors, MintFails(t, e)
      PROVE SessionProfile'
  BY <1>16 DEF MintFails, Fails
<1>17. ASSUME NEW t \in Tasks, Install(t) PROVE SessionProfile'
  BY <1>17 DEF Install, Fails, Captured
<1>18. ASSUME NEW t \in Tasks, TakeOwedRecovery(t) PROVE SessionProfile'
  BY <1>18 DEF TakeOwedRecovery, Succeeds, GatedDone
<1>19. ASSUME NEW t \in Tasks, SendRecovered(t) PROVE SessionProfile'
  BY <1>19 DEF SendRecovered, Succeeds, GatedDone
<1>20. ASSUME NEW t \in Tasks, ReturnError(t) PROVE SessionProfile'
  BY <1>20 DEF ReturnError
<1>21. ASSUME NEW t \in Tasks, RecordFailure(t) PROVE SessionProfile'
  BY <1>21 DEF RecordFailure
<1>22. ASSUME NEW t \in Tasks, EmitFailure(t) PROVE SessionProfile'
  BY <1>22 DEF EmitFailure, GatedDone, ClearSession, NoSession
<1>23. ASSUME NEW t \in Tasks, MarkReported(t) PROVE SessionProfile'
  BY <1>23 DEF MarkReported
<1>24. ASSUME NEW t \in Tasks, SendFailure(t) PROVE SessionProfile'
  BY <1>24 DEF SendFailure, GatedDone
<1>25. ASSUME NEW t \in Tasks, TakeBearer(t) PROVE SessionProfile'
  BY <1>25 DEF TakeBearer
<1>26. ASSUME NEW t \in Tasks, Answer401(t) PROVE SessionProfile'
  BY <1>26 DEF Answer401
<1>27. ASSUME NEW t \in Tasks, Answer(t) PROVE SessionProfile'
  BY <1>27 DEF Answer
<1>28. ASSUME NEW t \in Tasks, Resign(t) PROVE SessionProfile'
  BY <1>28 DEF Resign
<1>29. ASSUME NEW t \in Tasks, ReturnAnswer(t) PROVE SessionProfile'
  BY <1>29 DEF ReturnAnswer
<1>30. CASE UNCHANGED vars
  BY <1>30
<1> QED
  BY <1>1, <1>2, <1>3, <1>4, <1>5, <1>6, <1>7, <1>8, <1>9, <1>10, <1>11,
     <1>12, <1>13, <1>14, <1>15, <1>16, <1>17, <1>18, <1>19, <1>20, <1>21,
     <1>22, <1>23, <1>24, <1>25, <1>26, <1>27, <1>28, <1>29, <1>30
  DEF Next, Application, Time, Progress

\* Tokens carry their account's profile, in the session and in every bearer.
LEMMA ProfilesStep == IInv /\ [Next]_vars => Profiles'
<1> SUFFICES ASSUME IInv, [Next]_vars PROVE Profiles'
  OBVIOUS
<1>1. SessionProfile'
  BY SessionProfileStep
<1>2. ASSUME NEW t \in Tasks PROVE op'[t].bearer.profile = op'[t].bearer.acct
  BY BearerStep DEF BearersKept, IInv, Profiles, NoBearer
<1> QED
  BY <1>1, <1>2 DEF Profiles, SessionProfile

\* A background refresh between the gate and its failure has the lock, so
\* nobody else can shut the gate.
LEMMA CooldownStep == IInv /\ [Next]_vars => OneFailurePerCooldown'
<1> SUFFICES ASSUME IInv, [Next]_vars PROVE OneFailurePerCooldown'
  OBVIOUS
<1> USE DEF IInv, TypeOK, Op, Contexts, Requesting, OneRefreshAtATime, Holds,
            Guarded, OneFailurePerCooldown
<1>1. ASSUME NEW t \in Tasks, NEW a \in Accounts, StartSignIn(t, a)
      PROVE OneFailurePerCooldown'
  BY <1>1 DEF StartSignIn, NoOp
<1>2. ASSUME NEW t \in Tasks, StartForced(t) PROVE OneFailurePerCooldown'
  BY <1>2 DEF StartForced, NoOp
<1>3. ASSUME NEW t \in Tasks, StartRequest(t) PROVE OneFailurePerCooldown'
  BY <1>3 DEF StartRequest, NoOp
<1>4. ASSUME NEW t \in Tasks, Cancel(t) PROVE OneFailurePerCooldown'
  BY <1>4 DEF Cancel, NoOp
<1>5. CASE SignOut
  BY <1>5 DEF SignOut, ClearSession, NewGate
<1>6. ASSUME NEW on \in BOOLEAN, SetActive(on) PROVE OneFailurePerCooldown'
  BY <1>6 DEF SetActive
<1>7. CASE ClearBackoff
  BY <1>7 DEF ClearBackoff
<1>8. CASE Expire
  BY <1>8 DEF Expire
<1>9. CASE CooldownEnds
  BY <1>9 DEF CooldownEnds
<1>10. ASSUME NEW t \in Tasks, Lock(t) PROVE OneFailurePerCooldown'
  BY <1>10 DEF Lock
<1>11. ASSUME NEW t \in Tasks, Authorize(t) PROVE OneFailurePerCooldown'
  BY <1>11 DEF Authorize, NoOp
<1>12. ASSUME NEW t \in Tasks, Recheck(t) PROVE OneFailurePerCooldown'
  BY <1>12 DEF Recheck, GatedDone, NoOp
<1>13. ASSUME NEW t \in Tasks, PassGate(t) PROVE OneFailurePerCooldown'
  BY <1>13 DEF PassGate, GatedDone
<1>14. ASSUME NEW t \in Tasks, TakeCredentials(t) PROVE OneFailurePerCooldown'
  BY <1>14 DEF TakeCredentials
<1>15. ASSUME NEW t \in Tasks, MintSucceeds(t) PROVE OneFailurePerCooldown'
  BY <1>15 DEF MintSucceeds
<1>16. ASSUME NEW t \in Tasks, NEW e \in Errors, MintFails(t, e)
      PROVE OneFailurePerCooldown'
  BY <1>16 DEF MintFails, Fails
<1>17. ASSUME NEW t \in Tasks, Install(t) PROVE OneFailurePerCooldown'
  BY <1>17 DEF Install, Fails
<1>18. ASSUME NEW t \in Tasks, TakeOwedRecovery(t)
      PROVE OneFailurePerCooldown'
  BY <1>18 DEF TakeOwedRecovery, Succeeds, GatedDone, NewGate
<1>19. ASSUME NEW t \in Tasks, SendRecovered(t) PROVE OneFailurePerCooldown'
  BY <1>19 DEF SendRecovered, Succeeds, GatedDone, NoOp
<1>20. ASSUME NEW t \in Tasks, ReturnError(t) PROVE OneFailurePerCooldown'
  BY <1>20 DEF ReturnError, NoOp
<1>21. ASSUME NEW t \in Tasks, RecordFailure(t) PROVE OneFailurePerCooldown'
  BY <1>21 DEF RecordFailure
<1>22. ASSUME NEW t \in Tasks, EmitFailure(t) PROVE OneFailurePerCooldown'
  BY <1>22 DEF EmitFailure, GatedDone, ClearSession, NewGate
<1>23. ASSUME NEW t \in Tasks, MarkReported(t) PROVE OneFailurePerCooldown'
  BY <1>23 DEF MarkReported
<1>24. ASSUME NEW t \in Tasks, SendFailure(t) PROVE OneFailurePerCooldown'
  BY <1>24 DEF SendFailure, GatedDone
<1>25. ASSUME NEW t \in Tasks, TakeBearer(t) PROVE OneFailurePerCooldown'
  BY <1>25 DEF TakeBearer, NoOp
<1>26. ASSUME NEW t \in Tasks, Answer401(t) PROVE OneFailurePerCooldown'
  BY <1>26 DEF Answer401
<1>27. ASSUME NEW t \in Tasks, Answer(t) PROVE OneFailurePerCooldown'
  BY <1>27 DEF Answer
<1>28. ASSUME NEW t \in Tasks, Resign(t) PROVE OneFailurePerCooldown'
  BY <1>28 DEF Resign
<1>29. ASSUME NEW t \in Tasks, ReturnAnswer(t) PROVE OneFailurePerCooldown'
  BY <1>29 DEF ReturnAnswer, NoOp
<1>30. CASE UNCHANGED vars
  BY <1>30
<1> QED
  BY <1>1, <1>2, <1>3, <1>4, <1>5, <1>6, <1>7, <1>8, <1>9, <1>10, <1>11,
     <1>12, <1>13, <1>14, <1>15, <1>16, <1>17, <1>18, <1>19, <1>20, <1>21,
     <1>22, <1>23, <1>24, <1>25, <1>26, <1>27, <1>28, <1>29, <1>30
  DEF Next, Application, Time, Progress
-----------------------------------------------------------------------------
(***************************************************************************)
(* Steps that are not invariants.                                          *)
(***************************************************************************)
\* A refusal is lifted by a session that replaces this one, or by a clear.
RefusalKept ==
  gate.refused /\ ~gate'.refused
    => \/ \E t \in Tasks : pc[t] = "owed" /\ pc'[t] # "owed"
       \/ epoch' = epoch + 1

\* A failure cannot lift the refusal: the task that records it would have
\* passed the gate.
LEMMA RefusalStep == IInv /\ [Next]_vars => RefusalKept
<1> SUFFICES ASSUME IInv, [Next]_vars PROVE RefusalKept
  OBVIOUS
<1> USE DEF IInv, TypeOK, Gate, RefusalKept
<1>1. ASSUME NEW t \in Tasks, NEW a \in Accounts, StartSignIn(t, a)
      PROVE RefusalKept
  BY <1>1 DEF StartSignIn
<1>2. ASSUME NEW t \in Tasks, StartForced(t) PROVE RefusalKept
  BY <1>2 DEF StartForced
<1>3. ASSUME NEW t \in Tasks, StartRequest(t) PROVE RefusalKept
  BY <1>3 DEF StartRequest
<1>4. ASSUME NEW t \in Tasks, Cancel(t) PROVE RefusalKept
  BY <1>4 DEF Cancel
<1>5. CASE SignOut
  BY <1>5 DEF SignOut, ClearSession
<1>6. ASSUME NEW on \in BOOLEAN, SetActive(on) PROVE RefusalKept
  BY <1>6 DEF SetActive
<1>7. CASE ClearBackoff
  BY <1>7 DEF ClearBackoff
<1>8. CASE Expire
  BY <1>8 DEF Expire
<1>9. CASE CooldownEnds
  BY <1>9 DEF CooldownEnds
<1>10. ASSUME NEW t \in Tasks, Lock(t) PROVE RefusalKept
  BY <1>10 DEF Lock
<1>11. ASSUME NEW t \in Tasks, Authorize(t) PROVE RefusalKept
  BY <1>11 DEF Authorize
<1>12. ASSUME NEW t \in Tasks, Recheck(t) PROVE RefusalKept
  BY <1>12 DEF Recheck, GatedDone
<1>13. ASSUME NEW t \in Tasks, PassGate(t) PROVE RefusalKept
  BY <1>13 DEF PassGate, GatedDone
<1>14. ASSUME NEW t \in Tasks, TakeCredentials(t) PROVE RefusalKept
  BY <1>14 DEF TakeCredentials
<1>15. ASSUME NEW t \in Tasks, MintSucceeds(t) PROVE RefusalKept
  BY <1>15 DEF MintSucceeds
<1>16. ASSUME NEW t \in Tasks, NEW e \in Errors, MintFails(t, e)
      PROVE RefusalKept
  BY <1>16 DEF MintFails, Fails
<1>17. ASSUME NEW t \in Tasks, Install(t) PROVE RefusalKept
  BY <1>17 DEF Install, Fails
<1>18. ASSUME NEW t \in Tasks, TakeOwedRecovery(t) PROVE RefusalKept
  BY <1>18 DEF TakeOwedRecovery, Succeeds, GatedDone, Labels, NewGate
<1>19. ASSUME NEW t \in Tasks, SendRecovered(t) PROVE RefusalKept
  BY <1>19 DEF SendRecovered, Succeeds, GatedDone
<1>20. ASSUME NEW t \in Tasks, ReturnError(t) PROVE RefusalKept
  BY <1>20 DEF ReturnError
<1>21. ASSUME NEW t \in Tasks, RecordFailure(t) PROVE RefusalKept
  BY <1>21 DEF RecordFailure, OneFailurePerCooldown, Contexts, Requesting
<1>22. ASSUME NEW t \in Tasks, EmitFailure(t) PROVE RefusalKept
  BY <1>22 DEF EmitFailure, GatedDone, ClearSession, Session
<1>23. ASSUME NEW t \in Tasks, MarkReported(t) PROVE RefusalKept
  BY <1>23 DEF MarkReported
<1>24. ASSUME NEW t \in Tasks, SendFailure(t) PROVE RefusalKept
  BY <1>24 DEF SendFailure, GatedDone
<1>25. ASSUME NEW t \in Tasks, TakeBearer(t) PROVE RefusalKept
  BY <1>25 DEF TakeBearer
<1>26. ASSUME NEW t \in Tasks, Answer401(t) PROVE RefusalKept
  BY <1>26 DEF Answer401
<1>27. ASSUME NEW t \in Tasks, Answer(t) PROVE RefusalKept
  BY <1>27 DEF Answer
<1>28. ASSUME NEW t \in Tasks, Resign(t) PROVE RefusalKept
  BY <1>28 DEF Resign
<1>29. ASSUME NEW t \in Tasks, ReturnAnswer(t) PROVE RefusalKept
  BY <1>29 DEF ReturnAnswer
<1>30. CASE UNCHANGED vars
  BY <1>30
<1> QED
  BY <1>1, <1>2, <1>3, <1>4, <1>5, <1>6, <1>7, <1>8, <1>9, <1>10, <1>11,
     <1>12, <1>13, <1>14, <1>15, <1>16, <1>17, <1>18, <1>19, <1>20, <1>21,
     <1>22, <1>23, <1>24, <1>25, <1>26, <1>27, <1>28, <1>29, <1>30
  DEF Next, Application, Time, Progress

\* A step of Auth asks, holds, clears or leaves the store alone.
StoreKept == [Store!StoreNext]_(Store!storeVars)

\* Sign-in asks, Install holds, a clear clears, and all else is a stutter.
LEMMA StoreStep == IInv /\ [Next]_vars => StoreKept
<1> SUFFICES ASSUME IInv, [Next]_vars PROVE StoreKept
  OBVIOUS
<1> USE DEF IInv, TypeOK, Session, StoreKept, Store!StoreNext, Store!storeVars,
            Store!AskFor, Store!Hold, Store!Clear
<1>1. ASSUME NEW t \in Tasks, NEW a \in Accounts, StartSignIn(t, a)
      PROVE StoreKept
  BY <1>1 DEF StartSignIn
<1>2. ASSUME NEW t \in Tasks, StartForced(t) PROVE StoreKept
  BY <1>2 DEF StartForced
<1>3. ASSUME NEW t \in Tasks, StartRequest(t) PROVE StoreKept
  BY <1>3 DEF StartRequest
<1>4. ASSUME NEW t \in Tasks, Cancel(t) PROVE StoreKept
  BY <1>4 DEF Cancel
<1>5. CASE SignOut
  BY <1>5 DEF SignOut, ClearSession, NoSession
<1>6. ASSUME NEW on \in BOOLEAN, SetActive(on) PROVE StoreKept
  BY <1>6 DEF SetActive
<1>7. CASE ClearBackoff
  BY <1>7 DEF ClearBackoff
<1>8. CASE Expire
  BY <1>8 DEF Expire
<1>9. CASE CooldownEnds
  BY <1>9 DEF CooldownEnds
<1>10. ASSUME NEW t \in Tasks, Lock(t) PROVE StoreKept
  BY <1>10 DEF Lock
<1>11. ASSUME NEW t \in Tasks, Authorize(t) PROVE StoreKept
  BY <1>11 DEF Authorize
<1>12. ASSUME NEW t \in Tasks, Recheck(t) PROVE StoreKept
  BY <1>12 DEF Recheck, GatedDone
<1>13. ASSUME NEW t \in Tasks, PassGate(t) PROVE StoreKept
  BY <1>13 DEF PassGate, GatedDone
<1>14. ASSUME NEW t \in Tasks, TakeCredentials(t) PROVE StoreKept
  BY <1>14 DEF TakeCredentials
<1>15. ASSUME NEW t \in Tasks, MintSucceeds(t) PROVE StoreKept
  BY <1>15 DEF MintSucceeds
<1>16. ASSUME NEW t \in Tasks, NEW e \in Errors, MintFails(t, e)
      PROVE StoreKept
  BY <1>16 DEF MintFails, Fails
<1>17. ASSUME NEW t \in Tasks, Install(t) PROVE StoreKept
  BY <1>17 DEF Install, Fails, Captured
<1>18. ASSUME NEW t \in Tasks, TakeOwedRecovery(t) PROVE StoreKept
  BY <1>18 DEF TakeOwedRecovery, Succeeds, GatedDone
<1>19. ASSUME NEW t \in Tasks, SendRecovered(t) PROVE StoreKept
  BY <1>19 DEF SendRecovered, Succeeds, GatedDone
<1>20. ASSUME NEW t \in Tasks, ReturnError(t) PROVE StoreKept
  BY <1>20 DEF ReturnError
<1>21. ASSUME NEW t \in Tasks, RecordFailure(t) PROVE StoreKept
  BY <1>21 DEF RecordFailure
<1>22. ASSUME NEW t \in Tasks, EmitFailure(t) PROVE StoreKept
  BY <1>22 DEF EmitFailure, GatedDone, ClearSession, NoSession
<1>23. ASSUME NEW t \in Tasks, MarkReported(t) PROVE StoreKept
  BY <1>23 DEF MarkReported
<1>24. ASSUME NEW t \in Tasks, SendFailure(t) PROVE StoreKept
  BY <1>24 DEF SendFailure, GatedDone
<1>25. ASSUME NEW t \in Tasks, TakeBearer(t) PROVE StoreKept
  BY <1>25 DEF TakeBearer
<1>26. ASSUME NEW t \in Tasks, Answer401(t) PROVE StoreKept
  BY <1>26 DEF Answer401
<1>27. ASSUME NEW t \in Tasks, Answer(t) PROVE StoreKept
  BY <1>27 DEF Answer
<1>28. ASSUME NEW t \in Tasks, Resign(t) PROVE StoreKept
  BY <1>28 DEF Resign
<1>29. ASSUME NEW t \in Tasks, ReturnAnswer(t) PROVE StoreKept
  BY <1>29 DEF ReturnAnswer
<1>30. CASE UNCHANGED vars
  BY <1>30
<1> QED
  BY <1>1, <1>2, <1>3, <1>4, <1>5, <1>6, <1>7, <1>8, <1>9, <1>10, <1>11,
     <1>12, <1>13, <1>14, <1>15, <1>16, <1>17, <1>18, <1>19, <1>20, <1>21,
     <1>22, <1>23, <1>24, <1>25, <1>26, <1>27, <1>28, <1>29, <1>30
  DEF Next, Application, Time, Progress

\* A step of Auth fails where the gate is open, reports, lets the cooldown
\* lapse, renews the gate or leaves it alone.
PromiseKept == [Promise!GateNext]_(Promise!gateVars)

\* RecordFailure fails, MarkReported reports, a clear and a recovery renew.
LEMMA GateStep == IInv /\ [Next]_vars => PromiseKept
<1> SUFFICES ASSUME IInv, [Next]_vars PROVE PromiseKept
  OBVIOUS
<1> USE DEF IInv, TypeOK, Gate, NewGate, PromiseKept, Promise!GateNext,
            Promise!gateVars
<1>1. ASSUME NEW t \in Tasks, NEW a \in Accounts, StartSignIn(t, a)
      PROVE PromiseKept
  BY <1>1 DEF StartSignIn
<1>2. ASSUME NEW t \in Tasks, StartForced(t) PROVE PromiseKept
  BY <1>2 DEF StartForced
<1>3. ASSUME NEW t \in Tasks, StartRequest(t) PROVE PromiseKept
  BY <1>3 DEF StartRequest
<1>4. ASSUME NEW t \in Tasks, Cancel(t) PROVE PromiseKept
  BY <1>4 DEF Cancel
<1>5. CASE SignOut
  BY <1>5 DEF SignOut, ClearSession, Promise!Renew
<1>6. ASSUME NEW on \in BOOLEAN, SetActive(on) PROVE PromiseKept
  BY <1>6 DEF SetActive
<1>7. CASE ClearBackoff
  BY <1>7 DEF ClearBackoff, Promise!Lapse
<1>8. CASE Expire
  BY <1>8 DEF Expire
<1>9. CASE CooldownEnds
  BY <1>9 DEF CooldownEnds, Promise!Lapse
<1>10. ASSUME NEW t \in Tasks, Lock(t) PROVE PromiseKept
  BY <1>10 DEF Lock
<1>11. ASSUME NEW t \in Tasks, Authorize(t) PROVE PromiseKept
  BY <1>11 DEF Authorize
<1>12. ASSUME NEW t \in Tasks, Recheck(t) PROVE PromiseKept
  BY <1>12 DEF Recheck
<1>13. ASSUME NEW t \in Tasks, PassGate(t) PROVE PromiseKept
  BY <1>13 DEF PassGate
<1>14. ASSUME NEW t \in Tasks, TakeCredentials(t) PROVE PromiseKept
  BY <1>14 DEF TakeCredentials
<1>15. ASSUME NEW t \in Tasks, MintSucceeds(t) PROVE PromiseKept
  BY <1>15 DEF MintSucceeds
<1>16. ASSUME NEW t \in Tasks, NEW e \in Errors, MintFails(t, e)
      PROVE PromiseKept
  BY <1>16 DEF MintFails, Fails
<1>17. ASSUME NEW t \in Tasks, Install(t) PROVE PromiseKept
  BY <1>17 DEF Install, Fails
<1>18. ASSUME NEW t \in Tasks, TakeOwedRecovery(t) PROVE PromiseKept
  BY <1>18 DEF TakeOwedRecovery, Promise!Renew
<1>19. ASSUME NEW t \in Tasks, SendRecovered(t) PROVE PromiseKept
  BY <1>19 DEF SendRecovered
<1>20. ASSUME NEW t \in Tasks, ReturnError(t) PROVE PromiseKept
  BY <1>20 DEF ReturnError
<1>21. ASSUME NEW t \in Tasks, RecordFailure(t) PROVE PromiseKept
  <2>1. ~Blocked
    BY <1>21 DEF RecordFailure, OneFailurePerCooldown, Contexts, Requesting
  <2>2. PICK version \in BOOLEAN :
          gate' = [gate EXCEPT !.cooling = TRUE, !.refused = version]
    <3> DEFINE v == (op[t].err = "version")
    <3>1. v \in BOOLEAN
      OBVIOUS
    <3>2. gate' = [gate EXCEPT !.cooling = TRUE, !.refused = v]
      BY <1>21 DEF RecordFailure
    <3> QED
      BY <3>1, <3>2
  <2>3. Promise!Fail(version)
    BY <2>1, <2>2 DEF Blocked, Promise!Fail
  <2> QED
    BY <2>3
<1>22. ASSUME NEW t \in Tasks, EmitFailure(t) PROVE PromiseKept
  <2>1. gate' = NewGate \/ UNCHANGED gate
    BY <1>22 DEF EmitFailure, ClearSession
  <2> QED
    BY <2>1 DEF Promise!Renew
<1>23. ASSUME NEW t \in Tasks, MarkReported(t) PROVE PromiseKept
  BY <1>23 DEF MarkReported, Promise!Report
<1>24. ASSUME NEW t \in Tasks, SendFailure(t) PROVE PromiseKept
  BY <1>24 DEF SendFailure
<1>25. ASSUME NEW t \in Tasks, TakeBearer(t) PROVE PromiseKept
  BY <1>25 DEF TakeBearer
<1>26. ASSUME NEW t \in Tasks, Answer401(t) PROVE PromiseKept
  BY <1>26 DEF Answer401
<1>27. ASSUME NEW t \in Tasks, Answer(t) PROVE PromiseKept
  BY <1>27 DEF Answer
<1>28. ASSUME NEW t \in Tasks, Resign(t) PROVE PromiseKept
  BY <1>28 DEF Resign
<1>29. ASSUME NEW t \in Tasks, ReturnAnswer(t) PROVE PromiseKept
  BY <1>29 DEF ReturnAnswer
<1>30. CASE UNCHANGED vars
  BY <1>30
<1> QED
  BY <1>1, <1>2, <1>3, <1>4, <1>5, <1>6, <1>7, <1>8, <1>9, <1>10, <1>11,
     <1>12, <1>13, <1>14, <1>15, <1>16, <1>17, <1>18, <1>19, <1>20, <1>21,
     <1>22, <1>23, <1>24, <1>25, <1>26, <1>27, <1>28, <1>29, <1>30
  DEF Next, Application, Time, Progress

-----------------------------------------------------------------------------
(***************************************************************************)
(* The theorems.                                                           *)
(***************************************************************************)

\* The inductive invariant of Auth.
THEOREM Inductive == Spec => []IInv
<1>1. Init => IInv
  BY InitIInv
<1>2. IInv /\ [Next]_vars => IInv'
  BY TypeStep, ContextsStep, CapturedStep, ProfilesStep, LockStep,
     NoResurrectionStep, CooldownStep DEF IInv
<1> QED
  BY <1>1, <1>2, PTL DEF Spec

\* Every variable keeps its type, and no attempt is sent without a minted
\* token (the checks at the end of authorize).
THEOREM TypeCorrect == Spec => []TypeOK
<1>1. IInv => TypeOK
  BY DEF IInv
<1> QED
  BY <1>1, Inductive, PTL

\* refresh_lock is held exactly while a background refresh is under way, and
\* by the task that makes it.
THEOREM MutualExclusion == Spec => []OneRefreshAtATime
<1>1. IInv => OneRefreshAtATime
  BY DEF IInv
<1> QED
  BY <1>1, Inductive, PTL

\* No sign-in or refresh in flight across a sign-out brings an account back
\* (set_session_if_current).
THEOREM SignOutIsFinal == Spec => []NoResurrection
<1>1. IInv => NoResurrection
  BY DEF IInv
<1> QED
  BY <1>1, Inductive, PTL

\* A background refresh never goes out while the cooldown of another failure
\* runs or the server refuses this client version (refresh_gated).
THEOREM CooldownRespected == Spec => []OneFailurePerCooldown
<1>1. IInv => OneFailurePerCooldown
  BY DEF IInv
<1> QED
  BY <1>1, Inductive, PTL

\* A request that is sent again is sent for the account it was first sent for
\* (reauthorize_same_profile).
THEOREM RetriesKeepAccount == Spec => RetryKeepsAccount
<1> DEFINE Keeps ==
      \A t \in Tasks : op[t].bearer # NoBearer /\ op'[t].bearer # NoBearer
                         => op'[t].bearer.acct = op[t].bearer.acct
<1>1. IInv /\ [Next]_vars => [Keeps]_vars
  <2> SUFFICES ASSUME IInv, [Next]_vars, NEW t \in Tasks,
                      op[t].bearer # NoBearer, op'[t].bearer # NoBearer
               PROVE  op'[t].bearer.acct = op[t].bearer.acct
    OBVIOUS
  <2>1. \/ op'[t].bearer = op[t].bearer
        \/ /\ op'[t].bearer = [acct |-> session.acct,
                               profile |-> session.profile,
                               token |-> session.token]
           /\ SignedIn /\ session.token # 0
           /\ op[t].bearer.profile = session.profile
    BY BearerStep DEF BearersKept
  <2> QED
    BY <2>1 DEF IInv, Profiles
<1> QED
  BY <1>1, Inductive, PTL DEF Spec, RetryKeepsAccount

\* Once this client version is refused, background refreshes stay shut out
\* until the session is replaced or cleared (client_refused).
THEOREM RefusalStands == Spec => RefusedUntilNewSession
<1> DEFINE Stands ==
      gate.refused /\ ~gate'.refused
        => \/ \E t \in Tasks : pc[t] = "owed" /\ pc'[t] # "owed"
           \/ epoch' = epoch + 1
<1>1. IInv /\ [Next]_vars => [Stands]_vars
  BY RefusalStep DEF RefusalKept
<1> QED
  BY <1>1, Inductive, PTL DEF Spec, RefusedUntilNewSession

\* Auth implements SessionStore: whatever is stored was asked for.
THEOREM StoreImplemented == Spec => ImplementsStore
<1>1. Init => Store!StoreInit
  <2> SUFFICES ASSUME Init PROVE Store!StoreInit
    OBVIOUS
  <2>1. PICK a \in MaybeAccount, known \in MaybeAccount :
          /\ session = [NoSession EXCEPT !.acct = a, !.profile = known]
          /\ consent = {a} \ {NoAccount}
    BY DEF Init, MaybeAccount
  <2>2. session.acct = a /\ ~(session.token # 0)
    BY <2>1 DEF NoSession
  <2> QED
    BY <2>1, <2>2 DEF Store!StoreInit, MaybeAccount
<1>2. IInv /\ [Next]_vars => [Store!StoreNext]_(Store!storeVars)
  BY StoreStep DEF StoreKept
<1> QED
  BY <1>1, <1>2, Inductive, PTL DEF Spec, ImplementsStore, Store!StoreSpec

\* Auth implements BackoffGate, whichever calls overlap.
THEOREM GatePromiseKept == Spec => ImplementsGate
<1>1. Init => Promise!GateInit
  BY DEF Init, NewGate, Promise!GateInit
<1>2. IInv /\ [Next]_vars => [Promise!GateNext]_(Promise!gateVars)
  BY GateStep DEF PromiseKept
<1> QED
  BY <1>1, <1>2, Inductive, PTL DEF Spec, ImplementsGate, Promise!GateSpec

-----------------------------------------------------------------------------
(***************************************************************************)
(* What EveryCallReturns rests on: a call's own steps bring it nearer its  *)
(* end, whatever the other tasks, the application and time do.             *)
(***************************************************************************)
RefreshLabels == {"fail", "tell", "report", "emit", "record", "recover",
                  "owed", "install", "mint", "creds", "gate", "recheck",
                  "locking"}

\* The retries a request has left, and the steps a call has after its refresh.
RetriesLeft(t) == (IF "refresh" \in op[t].retries THEN 0 ELSE 1)
                    + (IF "resign" \in op[t].retries THEN 0 ELSE 1)
AfterRefresh(t) == IF op[t].ctx = "reactive" THEN 16 ELSE 3

\* The steps of a refresh, label by label.
LEMMA RefreshStepsAre ==
  /\ RefreshSteps("fail") = 1 /\ RefreshSteps("tell") = 1
  /\ RefreshSteps("report") = 2 /\ RefreshSteps("emit") = 3
  /\ RefreshSteps("record") = 4 /\ RefreshSteps("recover") = 5
  /\ RefreshSteps("owed") = 6 /\ RefreshSteps("install") = 7
  /\ RefreshSteps("mint") = 8 /\ RefreshSteps("creds") = 9
  /\ RefreshSteps("gate") = 10 /\ RefreshSteps("recheck") = 11
  /\ RefreshSteps("locking") = 12
  BY DEF RefreshSteps

LEMMA RefreshStepsBound ==
  \A l \in RefreshLabels : RefreshSteps(l) \in 1 .. 12
  BY RefreshStepsAre DEF RefreshLabels

\* What each label leaves to do, in this state and in the next.
LEMMA StepsLeft ==
  ASSUME NEW t \in Tasks
  PROVE  /\ RetriesLeft(t) \in 0 .. 2 /\ AfterRefresh(t) \in {3, 16}
         /\ pc[t] = "idle" => Steps(t) = 0
         /\ pc[t] = "answer" => Steps(t) = 28 * RetriesLeft(t) + 1
         /\ pc[t] = "call" => Steps(t) = 28 * RetriesLeft(t) + 2
         /\ pc[t] = "bearer" => Steps(t) = 28 * RetriesLeft(t) + 3
         /\ pc[t] = "authorize" => Steps(t) = 28 * RetriesLeft(t) + 16
         /\ pc[t] \in RefreshLabels
              => Steps(t) = 28 * RetriesLeft(t) + RefreshSteps(pc[t])
                              + AfterRefresh(t)
<1>1. RetriesLeft(t) \in 0 .. 2 /\ AfterRefresh(t) \in {3, 16}
  BY DEF RetriesLeft, AfterRefresh
<1> QED
  BY <1>1 DEF Steps, RetriesLeft, AfterRefresh, RefreshLabels

LEMMA StepsLeftNext ==
  ASSUME NEW t \in Tasks
  PROVE  /\ RetriesLeft(t)' \in 0 .. 2 /\ AfterRefresh(t)' \in {3, 16}
         /\ pc'[t] = "idle" => Steps(t)' = 0
         /\ pc'[t] = "answer" => Steps(t)' = 28 * RetriesLeft(t)' + 1
         /\ pc'[t] = "call" => Steps(t)' = 28 * RetriesLeft(t)' + 2
         /\ pc'[t] = "bearer" => Steps(t)' = 28 * RetriesLeft(t)' + 3
         /\ pc'[t] = "authorize" => Steps(t)' = 28 * RetriesLeft(t)' + 16
         /\ pc'[t] \in RefreshLabels
              => Steps(t)' = 28 * RetriesLeft(t)' + RefreshSteps(pc'[t])
                               + AfterRefresh(t)'
<1>1. RetriesLeft(t)' \in 0 .. 2 /\ AfterRefresh(t)' \in {3, 16}
  BY DEF RetriesLeft, AfterRefresh
<1> QED
  BY <1>1 DEF Steps, RetriesLeft, AfterRefresh, RefreshLabels

\* A retry that is used is one that is no longer left.
LEMMA RetriesCount ==
  ASSUME NEW t \in Tasks
  PROVE  /\ op'[t].retries = op[t].retries => RetriesLeft(t)' = RetriesLeft(t)
         /\ \A r \in {"refresh", "resign"} :
              /\ r \notin op[t].retries
              /\ op'[t].retries = op[t].retries \union {r}
              => RetriesLeft(t)' = RetriesLeft(t) - 1
  BY DEF RetriesLeft

\* A step of a task's that it is nearer its end after.
Apart(t) == \A u \in Tasks \ {t} : UNCHANGED <<pc[u], op[u]>>
Nearer(t) == Steps(t)' < Steps(t) /\ Apart(t)

\* Every local variable but the retries may be set and leaves them be.
LEMMA KeepsRetries ==
  ASSUME NEW o \in Op
  PROVE  /\ \A e : /\ [o EXCEPT !.err = e].retries = o.retries
                   /\ [o EXCEPT !.err = e].ctx = o.ctx
         /\ \A a, n : /\ [o EXCEPT !.acct = a, !.epoch = n].retries = o.retries
                      /\ [o EXCEPT !.acct = a, !.epoch = n].ctx = o.ctx
         /\ \A b : [o EXCEPT !.bearer = b].retries = o.retries
         /\ [o EXCEPT !.acct = NoAccount, !.epoch = 0, !.err = "none",
                      !.ctx = "proactive"].retries = o.retries
  BY DEF Op

\* A call that has something to do has a step left for it.
LEMMA SomethingLeft ==
  ASSUME TypeOK, NEW t \in Tasks, pc[t] # "idle"
  PROVE  Steps(t) \in Nat /\ Steps(t) > 0
<1>1. pc[t] \in RefreshLabels \union {"answer", "call", "bearer", "authorize"}
  BY DEF TypeOK, Labels, RefreshLabels
<1>2. pc[t] \in RefreshLabels => RefreshSteps(pc[t]) \in 1 .. 12
  BY RefreshStepsBound
<1> QED
  BY <1>1, <1>2, StepsLeft

\* A call that returns is at its end.
LEMMA FinishIsNearer ==
  ASSUME TypeOK, NEW t \in Tasks, pc[t] # "idle", Finish(t)
  PROVE  Nearer(t)
<1>1. pc'[t] = "idle" /\ Apart(t)
  BY DEF TypeOK, Apart
<1>2. Steps(t)' = 0
  BY <1>1, StepsLeftNext
<1> QED
  BY <1>1, <1>2, SomethingLeft DEF Nearer

\* A refresh that goes on is nearer its end.
LEMMA OnwardIsNearer ==
  ASSUME NEW t \in Tasks, Apart(t),
         pc[t] \in RefreshLabels, pc'[t] \in RefreshLabels,
         RefreshSteps(pc'[t]) < RefreshSteps(pc[t]),
         op'[t].ctx = op[t].ctx, op'[t].retries = op[t].retries
  PROVE  Nearer(t)
<1>1. /\ RetriesLeft(t)' = RetriesLeft(t) /\ RetriesLeft(t) \in 0 .. 2
      /\ AfterRefresh(t)' = AfterRefresh(t) /\ AfterRefresh(t) \in {3, 16}
  BY RetriesCount, StepsLeft DEF AfterRefresh
<1>2. RefreshSteps(pc'[t]) \in 1 .. 12 /\ RefreshSteps(pc[t]) \in 1 .. 12
  BY RefreshStepsBound
<1>3. /\ Steps(t)' = 28 * RetriesLeft(t) + RefreshSteps(pc'[t]) + AfterRefresh(t)
      /\ Steps(t) = 28 * RetriesLeft(t) + RefreshSteps(pc[t]) + AfterRefresh(t)
  BY <1>1, StepsLeft, StepsLeftNext
<1> QED
  BY <1>1, <1>2, <1>3 DEF Nearer

\* A background refresh that is over leaves less to do than it did.
LEMMA GatedDoneIsNearer ==
  ASSUME TypeOK, NEW t \in Tasks, NEW ok \in BOOLEAN, GatedDone(t, ok),
         pc[t] \in RefreshLabels, op[t].ctx \in Gated
  PROVE  Nearer(t)
<1>1. op'[t].retries = op[t].retries /\ Apart(t)
  BY KeepsRetries DEF GatedDone, TypeOK, Apart
<1>2. /\ RetriesLeft(t)' = RetriesLeft(t) /\ RetriesLeft(t) \in 0 .. 2
      /\ RefreshSteps(pc[t]) \in 1 .. 12
      /\ Steps(t) = 28 * RetriesLeft(t) + RefreshSteps(pc[t]) + AfterRefresh(t)
  BY <1>1, RetriesCount, RefreshStepsBound, StepsLeft
<1>3. CASE op[t].ctx = "proactive"
  <2>1. pc'[t] = "bearer" /\ AfterRefresh(t) = 3
    BY <1>3 DEF GatedDone, TypeOK, AfterRefresh
  <2>2. Steps(t)' = 28 * RetriesLeft(t) + 3
    BY <1>2, <2>1, StepsLeftNext
  <2> QED
    BY <1>1, <1>2, <2>1, <2>2 DEF Nearer
<1>4. CASE op[t].ctx = "reactive"
  <2>1. pc'[t] \in {"authorize", "answer"} /\ AfterRefresh(t) = 16
    BY <1>4 DEF GatedDone, TypeOK, AfterRefresh
  <2>2. Steps(t)' \in {28 * RetriesLeft(t) + 16, 28 * RetriesLeft(t) + 1}
    BY <1>2, <2>1, StepsLeftNext
  <2> QED
    BY <1>1, <1>2, <2>1, <2>2 DEF Nearer
<1> QED
  BY <1>3, <1>4

\* The steps of a refresh that are taken under the lock or lead to it.
LEMMA RefreshIsNearer ==
  ASSUME IInv, NEW t \in Tasks,
         \/ Lock(t) \/ Recheck(t) \/ PassGate(t) \/ TakeCredentials(t)
         \/ MintSucceeds(t) \/ \E e \in Errors : MintFails(t, e)
         \/ Install(t)
  PROVE  Nearer(t)
<1>0. TypeOK /\ op[t] \in Op
  BY DEF IInv, TypeOK
<1>1. CASE Lock(t)
  <2>1. pc[t] = "locking" /\ pc'[t] = "recheck" /\ op' = op /\ Apart(t)
    BY <1>0, <1>1 DEF Lock, TypeOK, Apart
  <2> QED
    BY <2>1, OnwardIsNearer, RefreshStepsAre DEF RefreshLabels
<1>2. CASE Recheck(t)
  <2>1. pc[t] = "recheck" /\ op[t].ctx \in Gated
    BY <1>2 DEF Recheck, IInv, Contexts, Requesting
  <2>2. CASE Finish(t)
    BY <1>0, <2>1, <2>2, FinishIsNearer
  <2>3. ASSUME NEW ok \in BOOLEAN, GatedDone(t, ok) PROVE Nearer(t)
    BY <1>0, <2>1, <2>3, GatedDoneIsNearer DEF RefreshLabels
  <2>4. CASE Goto(t, "gate") /\ UNCHANGED op
    <3>1. pc'[t] = "gate" /\ op' = op /\ Apart(t)
      BY <1>0, <2>4 DEF TypeOK, Apart
    <3> QED
      BY <2>1, <3>1, OnwardIsNearer, RefreshStepsAre DEF RefreshLabels
  <2> QED
    BY <1>2, <2>2, <2>3, <2>4 DEF Recheck
<1>3. CASE PassGate(t)
  <2>1. pc[t] = "gate" /\ op[t].ctx \in Gated
    BY <1>3 DEF PassGate, IInv, Contexts, Requesting
  <2>2. CASE GatedDone(t, FALSE)
    BY <1>0, <2>1, <2>2, GatedDoneIsNearer DEF RefreshLabels
  <2>3. CASE Goto(t, "creds") /\ UNCHANGED op
    <3>1. pc'[t] = "creds" /\ op' = op /\ Apart(t)
      BY <1>0, <2>3 DEF TypeOK, Apart
    <3> QED
      BY <2>1, <3>1, OnwardIsNearer, RefreshStepsAre DEF RefreshLabels
  <2> QED
    BY <1>3, <2>2, <2>3 DEF PassGate
<1>4. CASE TakeCredentials(t)
  <2>1. /\ pc[t] = "creds" /\ pc'[t] \in {"record", "mint"} /\ Apart(t)
        /\ op'[t].ctx = op[t].ctx
    BY <1>0, <1>4, TakeCredentialsTask DEF TakeCredentials, Apart
  <2>2. op'[t].retries = op[t].retries
    <3>1. \/ op'[t] = [op[t] EXCEPT !.err = "auth"]
          \/ op'[t] = [op[t] EXCEPT !.acct = session.acct, !.epoch = epoch]
      BY <1>0, <1>4 DEF TakeCredentials, TypeOK
    <3>2. /\ [op[t] EXCEPT !.err = "auth"].retries = op[t].retries
          /\ [op[t] EXCEPT !.acct = session.acct,
                           !.epoch = epoch].retries = op[t].retries
      BY <1>0, KeepsRetries
    <3> QED
      BY <3>1, <3>2
  <2> QED
    BY <2>1, <2>2, OnwardIsNearer, RefreshStepsAre DEF RefreshLabels
<1>5. CASE MintSucceeds(t)
  <2>1. pc[t] = "mint" /\ pc'[t] = "install" /\ op' = op /\ Apart(t)
    BY <1>0, <1>5 DEF MintSucceeds, TypeOK, Apart
  <2> QED
    BY <2>1, OnwardIsNearer, RefreshStepsAre DEF RefreshLabels
<1>6. ASSUME NEW e, Fails(t, e), pc[t] \in {"mint", "install"} PROVE Nearer(t)
  <2>1. /\ pc'[t] \in {"fail", "record"} /\ Apart(t)
        /\ op'[t] = [op[t] EXCEPT !.err = e]
    BY <1>0, <1>6 DEF Fails, TypeOK, Apart
  <2>2. op'[t].ctx = op[t].ctx /\ op'[t].retries = op[t].retries
    BY <1>0, <2>1, KeepsRetries
  <2>3. /\ pc[t] \in RefreshLabels /\ pc'[t] \in RefreshLabels
        /\ RefreshSteps(pc'[t]) < RefreshSteps(pc[t])
    BY <1>6, <2>1, RefreshStepsAre DEF RefreshLabels
  <2> QED
    BY <2>1, <2>2, <2>3, OnwardIsNearer
<1>7. CASE \E e \in Errors : MintFails(t, e)
  BY <1>6, <1>7 DEF MintFails
<1>8. CASE Install(t)
  <2>1. CASE Goto(t, "owed") /\ UNCHANGED op
    <3>1. pc[t] = "install" /\ pc'[t] = "owed" /\ op' = op /\ Apart(t)
      BY <1>0, <1>8, <2>1 DEF Install, TypeOK, Apart
    <3> QED
      BY <3>1, OnwardIsNearer, RefreshStepsAre DEF RefreshLabels
  <2> QED
    BY <1>6, <1>8, <2>1 DEF Install
<1> QED
  BY <1>1, <1>2, <1>3, <1>4, <1>5, <1>7, <1>8

\* How a refresh ends, in a session or in an error.
LEMMA EndIsNearer ==
  ASSUME IInv, NEW t \in Tasks,
         \/ TakeOwedRecovery(t) \/ SendRecovered(t) \/ ReturnError(t)
         \/ RecordFailure(t) \/ EmitFailure(t) \/ MarkReported(t)
         \/ SendFailure(t)
  PROVE  Nearer(t)
<1>0. TypeOK /\ op[t] \in Op
  BY DEF IInv, TypeOK
<1>1. ASSUME pc[t] \in {"owed", "recover"}, Succeeds(t) PROVE Nearer(t)
  <2>1. op[t].ctx \in Direct \union Gated
    BY <1>0, <1>1 DEF IInv, Contexts, Op
  <2>2. CASE op[t].ctx \in Direct
    BY <1>0, <1>1, <2>2, FinishIsNearer DEF Succeeds
  <2>3. CASE op[t].ctx \in Gated
    BY <1>0, <1>1, <2>3, GatedDoneIsNearer DEF Succeeds, RefreshLabels
  <2> QED
    BY <2>1, <2>2, <2>3
<1>2. CASE TakeOwedRecovery(t)
  <2>1. CASE Goto(t, "recover") /\ UNCHANGED op
    <3>1. pc[t] = "owed" /\ pc'[t] = "recover" /\ op' = op /\ Apart(t)
      BY <1>0, <1>2, <2>1 DEF TakeOwedRecovery, TypeOK, Apart
    <3> QED
      BY <3>1, OnwardIsNearer, RefreshStepsAre DEF RefreshLabels
  <2> QED
    BY <1>1, <1>2, <2>1 DEF TakeOwedRecovery
<1>3. CASE SendRecovered(t)
  BY <1>1, <1>3 DEF SendRecovered
<1>4. CASE ReturnError(t)
  BY <1>0, <1>4, FinishIsNearer DEF ReturnError
<1>5. CASE RecordFailure(t)
  <2>1. pc[t] = "record" /\ pc'[t] = "emit" /\ op' = op /\ Apart(t)
    BY <1>0, <1>5 DEF RecordFailure, TypeOK, Apart
  <2> QED
    BY <2>1, OnwardIsNearer, RefreshStepsAre DEF RefreshLabels
<1>6. CASE EmitFailure(t)
  <2>1. pc[t] = "emit" /\ op[t].ctx \in Gated
    BY <1>6 DEF EmitFailure, IInv, Contexts, Requesting
  <2>2. CASE GatedDone(t, FALSE)
    BY <1>0, <2>1, <2>2, GatedDoneIsNearer DEF RefreshLabels
  <2>3. CASE (Goto(t, "tell") \/ Goto(t, "report")) /\ UNCHANGED op
    <3>1. pc'[t] \in {"tell", "report"} /\ op' = op /\ Apart(t)
      BY <1>0, <2>3 DEF TypeOK, Apart
    <3> QED
      BY <2>1, <3>1, OnwardIsNearer, RefreshStepsAre DEF RefreshLabels
  <2> QED
    BY <1>6, <2>2, <2>3 DEF EmitFailure
<1>7. CASE MarkReported(t)
  <2>1. pc[t] = "report" /\ pc'[t] = "tell" /\ op' = op /\ Apart(t)
    BY <1>0, <1>7 DEF MarkReported, TypeOK, Apart
  <2> QED
    BY <2>1, OnwardIsNearer, RefreshStepsAre DEF RefreshLabels
<1>8. CASE SendFailure(t)
  <2>1. pc[t] = "tell" /\ op[t].ctx \in Gated
    BY <1>8 DEF SendFailure, IInv, Contexts, Requesting
  <2> QED
    BY <1>0, <1>8, <2>1, GatedDoneIsNearer DEF SendFailure, RefreshLabels
<1> QED
  BY <1>2, <1>3, <1>4, <1>5, <1>6, <1>7, <1>8

\* A request between its refreshes: where it is authorized and where it is
\* sent, and sent again.
LEMMA RequestIsNearer ==
  ASSUME IInv, NEW t \in Tasks,
         \/ Authorize(t) \/ TakeBearer(t) \/ Answer401(t) \/ Answer(t)
         \/ Resign(t) \/ ReturnAnswer(t)
  PROVE  Nearer(t)
<1>0. TypeOK /\ op[t] \in Op
  BY DEF IInv, TypeOK
<1>1. CASE Authorize(t)
  <2>1. CASE Finish(t)
    BY <1>0, <1>1, <2>1, FinishIsNearer DEF Authorize
  <2>2. CASE (Goto(t, "locking") \/ Goto(t, "bearer")) /\ UNCHANGED op
    <3>1. /\ pc[t] = "authorize" /\ pc'[t] \in {"locking", "bearer"}
          /\ op' = op /\ Apart(t) /\ op[t].ctx = "proactive"
      BY <1>0, <1>1, <2>2
      DEF Authorize, TypeOK, Apart, IInv, Contexts
    <3>2. /\ RetriesLeft(t)' = RetriesLeft(t) /\ RetriesLeft(t) \in 0 .. 2
          /\ Steps(t) = 28 * RetriesLeft(t) + 16
      BY <3>1, RetriesCount, StepsLeft
    <3>3. AfterRefresh(t)' = 3
      BY <3>1 DEF AfterRefresh
    <3>4. Steps(t)' \in {28 * RetriesLeft(t) + 15, 28 * RetriesLeft(t) + 3}
      BY <3>1, <3>2, <3>3, StepsLeftNext, RefreshStepsAre DEF RefreshLabels
    <3> QED
      BY <3>1, <3>2, <3>4 DEF Nearer
  <2> QED
    BY <1>1, <2>1, <2>2 DEF Authorize
<1>2. CASE TakeBearer(t)
  <2>1. CASE Finish(t)
    BY <1>0, <1>2, <2>1, FinishIsNearer DEF TakeBearer
  <2>2. CASE /\ Goto(t, "call")
             /\ Become(t, [op[t] EXCEPT !.bearer =
                             [acct |-> session.acct,
                              profile |-> session.profile,
                              token |-> session.token]])
    <3>1. /\ pc[t] = "bearer" /\ pc'[t] = "call" /\ Apart(t)
          /\ op'[t].retries = op[t].retries
      BY <1>0, <1>2, <2>2, KeepsRetries DEF TakeBearer, TypeOK, Apart
    <3>2. /\ RetriesLeft(t)' = RetriesLeft(t) /\ RetriesLeft(t) \in 0 .. 2
          /\ Steps(t) = 28 * RetriesLeft(t) + 3
      BY <3>1, RetriesCount, StepsLeft
    <3>3. Steps(t)' = 28 * RetriesLeft(t) + 2
      BY <3>1, <3>2, StepsLeftNext
    <3> QED
      BY <3>1, <3>2, <3>3 DEF Nearer
  <2> QED
    BY <1>2, <2>1, <2>2 DEF TakeBearer
<1>3. CASE Answer401(t)
  <2>1. /\ pc[t] = "call" /\ pc'[t] = "locking" /\ Apart(t)
        /\ "refresh" \notin op[t].retries
        /\ op'[t] = [op[t] EXCEPT !.retries = @ \union {"refresh"},
                                  !.ctx = "reactive"]
    BY <1>0, <1>3 DEF Answer401, TypeOK, Apart
  <2>2. op'[t].retries = op[t].retries \union {"refresh"}
    BY <1>0, <2>1 DEF Op
  <2>3. op'[t].ctx = "reactive"
    BY <1>0, <2>1 DEF Op
  <2>4. /\ RetriesLeft(t)' = RetriesLeft(t) - 1
        /\ RetriesLeft(t) \in 0 .. 2 /\ RetriesLeft(t)' \in 0 .. 2
        /\ Steps(t) = 28 * RetriesLeft(t) + 2
    BY <2>1, <2>2, RetriesCount, StepsLeft, StepsLeftNext
  <2>5. AfterRefresh(t)' = 16
    BY <2>3 DEF AfterRefresh
  <2>6. Steps(t)' = 28 * RetriesLeft(t)' + 12 + 16
    BY <2>1, <2>5, StepsLeftNext, RefreshStepsAre DEF RefreshLabels
  <2> QED
    BY <2>1, <2>4, <2>6 DEF Nearer
<1>4. CASE Answer(t)
  <2>1. pc[t] = "call" /\ pc'[t] = "answer" /\ op' = op /\ Apart(t)
    BY <1>0, <1>4 DEF Answer, TypeOK, Apart
  <2>2. /\ RetriesLeft(t)' = RetriesLeft(t) /\ RetriesLeft(t) \in 0 .. 2
        /\ Steps(t) = 28 * RetriesLeft(t) + 2
    BY <2>1, RetriesCount, StepsLeft
  <2>3. Steps(t)' = 28 * RetriesLeft(t) + 1
    BY <2>1, <2>2, StepsLeftNext
  <2> QED
    BY <2>1, <2>2, <2>3 DEF Nearer
<1>5. CASE Resign(t)
  <2>1. /\ pc[t] = "answer" /\ pc'[t] = "authorize" /\ Apart(t)
        /\ "resign" \notin op[t].retries
        /\ op'[t] = [op[t] EXCEPT !.retries = @ \union {"resign"}]
    BY <1>0, <1>5 DEF Resign, TypeOK, Apart
  <2>2. op'[t].retries = op[t].retries \union {"resign"}
    BY <1>0, <2>1 DEF Op
  <2>3. /\ RetriesLeft(t)' = RetriesLeft(t) - 1
        /\ RetriesLeft(t) \in 0 .. 2 /\ RetriesLeft(t)' \in 0 .. 2
        /\ Steps(t) = 28 * RetriesLeft(t) + 1
    BY <2>1, <2>2, RetriesCount, StepsLeft, StepsLeftNext
  <2>4. Steps(t)' = 28 * RetriesLeft(t)' + 16
    BY <2>1, StepsLeftNext
  <2> QED
    BY <2>1, <2>3, <2>4 DEF Nearer
<1>6. CASE ReturnAnswer(t)
  BY <1>0, <1>6, FinishIsNearer DEF ReturnAnswer
<1> QED
  BY <1>1, <1>2, <1>3, <1>4, <1>5, <1>6

\* A call is started by a task that is in none and dropped by one that is in
\* one; nothing else the application or time does touches a call.
LEMMA OutsideIsNearer ==
  ASSUME IInv, Application \/ Time
  PROVE  \A u \in Tasks :
           pc[u] # "idle" => \/ UNCHANGED <<pc[u], op[u]>>
                             \/ Steps(u)' < Steps(u)
<1>0. TypeOK
  BY DEF IInv
<1>1. ASSUME NEW t \in Tasks, pc[t] = "idle", Apart(t)
      PROVE  \A u \in Tasks : pc[u] # "idle" => UNCHANGED <<pc[u], op[u]>>
  BY <1>1 DEF Apart
<1>2. ASSUME NEW t \in Tasks,
             \/ \E a \in Accounts : StartSignIn(t, a)
             \/ StartForced(t) \/ StartRequest(t)
      PROVE  \A u \in Tasks : pc[u] # "idle" => UNCHANGED <<pc[u], op[u]>>
  <2>1. pc[t] = "idle" /\ Apart(t)
    BY <1>0, <1>2 DEF StartSignIn, StartForced, StartRequest, TypeOK, Apart
  <2> QED
    BY <1>1, <2>1
<1>3. ASSUME NEW t \in Tasks, Cancel(t) PROVE Nearer(t)
  BY <1>0, <1>3, FinishIsNearer DEF Cancel, Awaiting
<1>4. CASE \/ SignOut \/ \E on \in BOOLEAN : SetActive(on)
           \/ ClearBackoff \/ Time
  BY <1>4 DEF SignOut, SetActive, ClearBackoff, Time, Expire, CooldownEnds
<1> QED
  BY <1>2, <1>3, <1>4 DEF Application, Nearer, Apart

\* No call comes back to where it was: it is sent three times at most, with a
\* refresh before each and one between, for any tasks and whatever the server
\* answers them (exchange's `refreshed' and `resigned', refresh_gated).
THEOREM CallsEnd == Spec => CallsRunOut
<1>1. IInv /\ [Next]_vars
        => [\A t \in Tasks :
              pc[t] # "idle" => \/ UNCHANGED <<pc[t], op[t]>>
                                \/ Steps(t)' < Steps(t)]_vars
  <2> SUFFICES ASSUME IInv, Next, NEW t \in Tasks, pc[t] # "idle"
               PROVE  UNCHANGED <<pc[t], op[t]>> \/ Steps(t)' < Steps(t)
    OBVIOUS
  <2>1. CASE Application \/ Time
    BY <2>1, OutsideIsNearer
  <2>2. ASSUME NEW u \in Tasks, Lock(u) \/ Progress(u)
        PROVE  UNCHANGED <<pc[t], op[t]>> \/ Steps(t)' < Steps(t)
    <3>1. Nearer(u)
      BY <2>2, RefreshIsNearer, EndIsNearer, RequestIsNearer DEF Progress
    <3> QED
      BY <3>1 DEF Nearer, Apart
  <2> QED
    BY <2>1, <2>2 DEF Next
<1> QED
  BY <1>1, Inductive, PTL DEF Spec, CallsRunOut
=============================================================================
