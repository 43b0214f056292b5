-------------------------------- MODULE Auth --------------------------------
(***************************************************************************)
(* The session of a client and everything that replaces it: sign-in, the   *)
(* refreshes an application forces, the refreshes a request makes before   *)
(* its token expires or after the API answered 401, and sign-out           *)
(* (src/src/auth.rs, with the retry loop `exchange' of src/src/request.rs).*)
(*                                                                         *)
(* A task is one call into the library that is under way.  Its label pc[t] *)
(* is the point it has reached; the steps between two labels are what the  *)
(* code does without giving another task or thread a chance to see it, so  *)
(* a label stands at every await and at every release of a lock.           *)
(*                                                                         *)
(* The server is the nondeterminism: it mints or refuses a token, and      *)
(* answers a call with a 401, with a signature it wants made again, or     *)
(* with anything else.                                                     *)
(***************************************************************************)
EXTENDS Naturals

CONSTANTS Tasks,        (* calls into the library that can be under way     *)
          Accounts,     (* accounts the application signs in to             *)
          NoTask,       (* refresh_lock is free                             *)
          NoAccount,    (* no session; a profile id that is not known       *)
          MaxOps,       (* bound: calls the application makes in all        *)
          MaxMints      (* bound: tokens the server mints in all            *)

ASSUME TasksAssumption == NoTask \notin Tasks
ASSUME AccountsAssumption == NoAccount \notin Accounts
ASSUME BoundsAssumption == MaxOps \in Nat /\ MaxMints \in Nat

VARIABLES
  session,     \* AuthState.session, what session_tx last published
  epoch,       \* AuthState.sign_out_epoch
  gate,        \* AuthState.refresh_gate
  active,      \* AuthState.active_tx
  resuming,    \* set_active(true) has yet to reset the back-off
  lock,        \* the task that holds refresh_lock
  pc, op,      \* the point a task has reached, and its local variables
  minted,      \* tokens stored so far: they name tokens apart
  notice,      \* the last RefreshFailed or RefreshRecovered of this session
  consent,     \* history: accounts asked for since the session was cleared
  opsLeft      \* calls the application may still make

store == <<session, epoch, minted, consent>>
guards == <<gate, active, resuming>>
vars == <<session, epoch, gate, active, resuming, lock, pc, op, minted,
          notice, consent, opsLeft>>

MaybeAccount == Accounts \union {NoAccount}

(***************************************************************************)
(* A session: the account its credentials belong to, the profile id they   *)
(* carry (blank until a token is minted when they come from storage), the  *)
(* token (0: none) and whether it outlives the next REFRESH_BUFFER_SECS.   *)
(***************************************************************************)
Session == [acct: MaybeAccount, profile: MaybeAccount,
            token: Nat, fresh: BOOLEAN]

NoSession == [acct |-> NoAccount, profile |-> NoAccount,
              token |-> 0, fresh |-> FALSE]

SignedIn == session.acct # NoAccount

(***************************************************************************)
(* The gate of background refreshes.  cooling: `retry_at' lies ahead.  How *)
(* long a cooldown lasts, which `failures' decides, is left out: it ends   *)
(* at any time.                                                            *)
(***************************************************************************)
Gate == [cooling: BOOLEAN, reported: BOOLEAN, refused: BOOLEAN]

NewGate == [cooling |-> FALSE, reported |-> FALSE, refused |-> FALSE]

Blocked == gate.cooling \/ gate.refused

(***************************************************************************)
(* The local variables of a task: what kind of refresh it is in, the       *)
(* account and epoch captured with the credentials, the error it carries,  *)
(* the Authorization its last attempt was sent with, the retries it used.  *)
(***************************************************************************)
Direct == {"signin", "forced"}
Gated == {"proactive", "reactive"}

\* What a refused refresh says of the session: see RefreshFailureKind.
Errors == {"unauthorized", "banned", "version", "transient", "auth"}
Terminal == {"unauthorized", "banned"}

Bearer == [acct: Accounts, profile: Accounts, token: Nat \ {0}]

NoBearer == [acct |-> NoAccount, profile |-> NoAccount, token |-> 0]

Op == [ctx: Direct \union Gated \union {"none"},
       acct: MaybeAccount, epoch: Nat,
       err: Errors \union {"cleared", "none"},
       bearer: Bearer \union {NoBearer}, retries: SUBSET {"refresh", "resign"}]

NoOp == [ctx |-> "none", acct |-> NoAccount, epoch |-> 0, err |-> "none",
         bearer |-> NoBearer, retries |-> {}]

Labels == {"idle", "authorize", "locking", "recheck", "gate", "creds", "mint",
           "install", "owed", "recover", "fail", "record", "emit", "report",
           "tell", "bearer", "call", "answer"}

\* Between taking refresh_lock and giving it back.
Guarded == {"recheck", "gate", "creds", "mint", "install", "owed", "recover",
            "record", "emit", "report", "tell"}

Holds(t) == pc[t] \in Guarded /\ op[t].ctx \in Gated

-----------------------------------------------------------------------------

At(t, label) == pc[t] = label

Goto(t, label) == pc' = [pc EXCEPT ![t] = label]

Become(t, record) == op' = [op EXCEPT ![t] = record]

\* The call returns to the application, with a result or with an error.
Finish(t) == Goto(t, "idle") /\ Become(t, NoOp)

Unlock == lock' = NoTask

\* clear_session, under the write lock of the session.
ClearSession ==
  /\ session' = NoSession
  /\ epoch' = epoch + 1
  /\ gate' = NewGate
  /\ notice' = "none"
  /\ consent' = {}

\* Variant: the lock outlives a reactive refresh that replaced the token.
GatedDoneKeepingLock(t, ok) ==
  /\ lock' = IF ok /\ op[t].ctx = "reactive" THEN lock ELSE NoTask
  /\ Become(t, [op[t] EXCEPT !.acct = NoAccount, !.epoch = 0, !.err = "none",
                             !.ctx = "proactive"])
  /\ Goto(t, IF op[t].ctx = "proactive" THEN "bearer"
             ELSE IF ok THEN "authorize" ELSE "answer")

\* A background refresh is over, refresh_lock given back.  A proactive one
\* goes on with the session as it is; a reactive one retries the request if
\* the session changed, and otherwise judges the answer it has.
GatedDone(t, ok) ==
  /\ Unlock
  /\ Become(t, [op[t] EXCEPT !.acct = NoAccount, !.epoch = 0, !.err = "none",
                             !.ctx = "proactive"])
  /\ Goto(t, IF op[t].ctx = "proactive" THEN "bearer"
             ELSE IF ok THEN "authorize" ELSE "answer")

-----------------------------------------------------------------------------
(***************************************************************************)
(* Calls the application makes.                                            *)
(***************************************************************************)
Begin(t) ==
  /\ At(t, "idle")
  /\ opsLeft > 0
  /\ opsLeft' = opsLeft - 1

\* Sign-in by email or third party: the epoch is read first of all.
StartSignIn(t, a) ==
  /\ Begin(t)
  /\ consent' = consent \union {a}
  /\ Become(t, [NoOp EXCEPT !.ctx = "signin", !.acct = a, !.epoch = epoch])
  /\ Goto(t, "mint")
  /\ UNCHANGED <<session, epoch, minted, guards, lock, notice>>

\* GrindrClient::refresh_session: neither refresh_lock nor the gate.
StartForced(t) ==
  /\ Begin(t)
  /\ SignedIn
  /\ Become(t, [NoOp EXCEPT !.ctx = "forced", !.acct = session.acct,
                            !.epoch = epoch])
  /\ Goto(t, "mint")
  /\ UNCHANGED <<store, guards, lock, notice>>

\* A request that needs the session.
StartRequest(t) ==
  /\ Begin(t)
  /\ Become(t, [NoOp EXCEPT !.ctx = "proactive"])
  /\ Goto(t, "authorize")
  /\ UNCHANGED <<store, guards, lock, notice>>

SignOut ==
  /\ opsLeft > 0
  /\ opsLeft' = opsLeft - 1
  /\ ClearSession
  /\ UNCHANGED <<active, resuming, lock, pc, op, minted>>

\* set_active publishes the new value first and resets the back-off after:
\* a failure recorded in between is forgotten too.
SetActive(on) ==
  /\ opsLeft > 0
  /\ opsLeft' = opsLeft - 1
  /\ ~resuming
  /\ active' = on
  /\ resuming' = (on /\ ~active)
  /\ UNCHANGED <<store, gate, lock, pc, op, notice>>

\* Variant: resuming forgets that the server refuses this client version.
ClearBackoffAndRefusal ==
  /\ resuming
  /\ resuming' = FALSE
  /\ gate' = NewGate
  /\ UNCHANGED <<store, active, lock, pc, op, notice, opsLeft>>

ClearBackoff ==
  /\ resuming
  /\ resuming' = FALSE
  /\ gate' = [gate EXCEPT !.cooling = FALSE]
  /\ UNCHANGED <<store, active, lock, pc, op, notice, opsLeft>>

\* The application drops the future: what it holds is released, and what it
\* has done is not undone.  Only a point where the future awaits qualifies.
Awaiting == {"authorize", "locking", "recheck", "creds", "mint", "install",
             "emit", "bearer", "call"}

Cancel(t) ==
  /\ pc[t] \in Awaiting
  /\ lock' = IF lock = t THEN NoTask ELSE lock
  /\ Finish(t)
  /\ UNCHANGED <<store, guards, notice, opsLeft>>

(***************************************************************************)
(* Time.                                                                   *)
(***************************************************************************)
Expire ==
  /\ session.fresh
  /\ session' = [session EXCEPT !.fresh = FALSE]
  /\ UNCHANGED <<epoch, minted, consent, guards, lock, pc, op, notice, opsLeft>>

CooldownEnds ==
  /\ gate.cooling
  /\ gate' = [gate EXCEPT !.cooling = FALSE]
  /\ UNCHANGED <<store, active, resuming, lock, pc, op, notice, opsLeft>>

-----------------------------------------------------------------------------
(***************************************************************************)
(* authorize: the bearer token of a request, renewed when it is about to   *)
(* expire.                                                                 *)
(***************************************************************************)
Expiring == session.token = 0 \/ ~session.fresh

Authorize(t) ==
  /\ At(t, "authorize")
  /\ \/ ~SignedIn /\ Finish(t)
     \/ SignedIn /\ Expiring /\ Goto(t, "locking") /\ UNCHANGED op
     \/ SignedIn /\ ~Expiring /\ Goto(t, "bearer") /\ UNCHANGED op
  /\ UNCHANGED <<store, guards, lock, notice, opsLeft>>

\* Variant: the refresh goes ahead while another one holds the lock.
LockShared(t) ==
  /\ At(t, "locking")
  /\ lock' = t
  /\ Goto(t, "recheck")
  /\ UNCHANGED <<store, guards, op, notice, opsLeft>>

Lock(t) ==
  /\ At(t, "locking")
  /\ lock = NoTask
  /\ lock' = t
  /\ Goto(t, "recheck")
  /\ UNCHANGED <<store, guards, op, notice, opsLeft>>

\* Whether the reason to refresh still stands, under refresh_lock.
StillNeeded(t) ==
  IF op[t].ctx = "proactive" THEN Expiring
                             ELSE session.token = op[t].bearer.token

Recheck(t) ==
  /\ At(t, "recheck")
  /\ \/ ~SignedIn /\ op[t].ctx = "proactive" /\ Unlock /\ Finish(t)
     \/ ~SignedIn /\ op[t].ctx = "reactive" /\ GatedDone(t, FALSE)
     \/ SignedIn /\ ~StillNeeded(t) /\ GatedDone(t, TRUE)
     \/ SignedIn /\ StillNeeded(t) /\ Goto(t, "gate") /\ UNCHANGED <<op, lock>>
  /\ UNCHANGED <<store, guards, notice, opsLeft>>

\* Variant: only the cooldown is looked at, not the refused version.
PassGateCooled(t) ==
  /\ At(t, "gate")
  /\ \/ gate.cooling /\ GatedDone(t, FALSE)
     \/ ~gate.cooling /\ Goto(t, "creds") /\ UNCHANGED <<op, lock>>
  /\ UNCHANGED <<store, guards, notice, opsLeft>>

\* refresh_gated: nothing is sent while the gate is shut.
PassGate(t) ==
  /\ At(t, "gate")
  /\ \/ Blocked /\ GatedDone(t, FALSE)
     \/ ~Blocked /\ Goto(t, "creds") /\ UNCHANGED <<op, lock>>
  /\ UNCHANGED <<store, guards, notice, opsLeft>>

\* refresh_session captures the credentials together with the epoch.
TakeCredentials(t) ==
  /\ At(t, "creds")
  /\ \/ /\ ~SignedIn
        /\ Become(t, [op[t] EXCEPT !.err = "auth"])
        /\ Goto(t, "record")
     \/ /\ SignedIn
        /\ Become(t, [op[t] EXCEPT !.acct = session.acct, !.epoch = epoch])
        /\ Goto(t, "mint")
  /\ UNCHANGED <<store, guards, lock, notice, opsLeft>>

\* Variant: the epoch is read when the answer arrives.
MintSucceedsLateEpoch(t) ==
  /\ At(t, "mint")
  /\ minted < MaxMints
  /\ Become(t, [op[t] EXCEPT !.epoch = epoch])
  /\ Goto(t, "install")
  /\ UNCHANGED <<store, guards, lock, notice, opsLeft>>

MintSucceeds(t) ==
  /\ At(t, "mint")
  /\ minted < MaxMints
  /\ Goto(t, "install")
  /\ UNCHANGED <<store, guards, lock, op, notice, opsLeft>>

\* Where an error goes: back to the caller, or to the gate.
Fails(t, e) ==
  /\ Become(t, [op[t] EXCEPT !.err = e])
  /\ Goto(t, IF op[t].ctx \in Direct THEN "fail" ELSE "record")

MintFails(t, e) ==
  /\ At(t, "mint")
  /\ Fails(t, e)
  /\ UNCHANGED <<store, guards, lock, notice, opsLeft>>

\* Variant: the session is stored whatever happened since.
InstallAnyEpoch(t) ==
  /\ At(t, "install")
  /\ minted' = minted + 1
  /\ session' = [acct |-> op[t].acct, profile |-> op[t].acct,
                 token |-> minted', fresh |-> TRUE]
  /\ Goto(t, "owed")
  /\ UNCHANGED <<op, epoch, consent, guards, lock, notice, opsLeft>>

\* set_session_if_current, first half: the epoch is compared under the write
\* lock of the session.
Install(t) ==
  /\ At(t, "install")
  /\ \/ /\ op[t].epoch = epoch
        /\ minted' = minted + 1
        /\ session' = [acct |-> op[t].acct, profile |-> op[t].acct,
                       token |-> minted', fresh |-> TRUE]
        /\ Goto(t, "owed")
        /\ UNCHANGED op
     \/ /\ op[t].epoch # epoch
        /\ Fails(t, "cleared")
        /\ UNCHANGED <<minted, session>>
  /\ UNCHANGED <<epoch, consent, guards, lock, notice, opsLeft>>

Succeeds(t) ==
  IF op[t].ctx \in Direct
  THEN Finish(t) /\ UNCHANGED lock
  ELSE GatedDone(t, TRUE)

\* Second half, the session released: the gate starts afresh.
TakeOwedRecovery(t) ==
  /\ At(t, "owed")
  /\ gate' = NewGate
  /\ \/ gate.reported /\ Goto(t, "recover") /\ UNCHANGED <<op, lock>>
     \/ ~gate.reported /\ Succeeds(t)
  /\ UNCHANGED <<store, active, resuming, notice, opsLeft>>

SendRecovered(t) ==
  /\ At(t, "recover")
  /\ notice' = "recovered"
  /\ Succeeds(t)
  /\ UNCHANGED <<store, guards, opsLeft>>

ReturnError(t) ==
  /\ At(t, "fail")
  /\ Finish(t)
  /\ UNCHANGED <<store, guards, lock, notice, opsLeft>>

(***************************************************************************)
(* A background refresh failed: record_failure_of, emit_refresh_failure.   *)
(***************************************************************************)
RecordFailure(t) ==
  /\ At(t, "record")
  /\ gate' = [gate EXCEPT !.cooling = TRUE,
                          !.refused = (op[t].err = "version")]
  /\ Goto(t, "emit")
  /\ UNCHANGED <<store, active, resuming, lock, op, notice, opsLeft>>

\* A terminal error clears the session; any other is reported unless nobody
\* is there to care.
EmitFailure(t) ==
  /\ At(t, "emit")
  /\ \/ /\ op[t].err \in Terminal
        /\ ClearSession
        /\ Goto(t, "tell")
        /\ UNCHANGED <<op, lock>>
     \/ /\ op[t].err \notin Terminal
        /\ IF SignedIn /\ active
           THEN Goto(t, "report") /\ UNCHANGED <<op, lock>>
           ELSE GatedDone(t, FALSE)
        /\ UNCHANGED <<session, epoch, gate, notice, consent>>
  /\ UNCHANGED <<active, resuming, minted, opsLeft>>

MarkReported(t) ==
  /\ At(t, "report")
  /\ gate' = [gate EXCEPT !.reported = TRUE]
  /\ Goto(t, "tell")
  /\ UNCHANGED <<store, active, resuming, lock, op, notice, opsLeft>>

SendFailure(t) ==
  /\ At(t, "tell")
  /\ notice' = IF op[t].err \in Terminal THEN notice ELSE "failed"
  /\ GatedDone(t, FALSE)
  /\ UNCHANGED <<store, guards, opsLeft>>

\* Variant: the retry takes the session as it is, whoever it belongs to.
TakeAnyBearer(t) ==
  /\ At(t, "bearer")
  /\ \/ (~SignedIn \/ session.token = 0) /\ Finish(t)
     \/ /\ SignedIn /\ session.token # 0
        /\ Become(t, [op[t] EXCEPT !.bearer = [acct |-> session.acct,
                                               profile |-> session.profile,
                                               token |-> session.token]])
        /\ Goto(t, "call")
  /\ UNCHANGED <<store, guards, lock, notice, opsLeft>>

\* Variant: a session whose token was never minted is sent all the same.
TakeBearerUnminted(t) ==
  /\ At(t, "bearer")
  /\ \/ ~SignedIn /\ Finish(t)
     \/ /\ SignedIn
        /\ Become(t, [op[t] EXCEPT !.bearer = [acct |-> session.acct,
                                               profile |-> session.profile,
                                               token |-> session.token]])
        /\ Goto(t, "call")
  /\ UNCHANGED <<store, guards, lock, notice, opsLeft>>

(***************************************************************************)
(* exchange: the attempts of a request.                                    *)
(***************************************************************************)
\* The end of authorize, and of reauthorize_same_profile when the request
\* was already sent once.
TakeBearer(t) ==
  LET previous == op[t].bearer IN
  /\ At(t, "bearer")
  /\ \/ (~SignedIn \/ session.token = 0) /\ Finish(t)
     \/ /\ SignedIn /\ session.token # 0
        /\ previous # NoBearer /\ previous.profile # session.profile
        /\ Finish(t)
     \/ /\ SignedIn /\ session.token # 0
        /\ previous = NoBearer \/ previous.profile = session.profile
        /\ Become(t, [op[t] EXCEPT !.bearer = [acct |-> session.acct,
                                               profile |-> session.profile,
                                               token |-> session.token]])
        /\ Goto(t, "call")
  /\ UNCHANGED <<store, guards, lock, notice, opsLeft>>

\* The API answered 401, for the first time in this request.
Answer401(t) ==
  /\ At(t, "call")
  /\ "refresh" \notin op[t].retries
  /\ Become(t, [op[t] EXCEPT !.retries = @ \union {"refresh"},
                             !.ctx = "reactive"])
  /\ Goto(t, "locking")
  /\ UNCHANGED <<store, guards, lock, notice, opsLeft>>

\* Any other answer, and a 401 that was already followed by a refresh.
Answer(t) ==
  /\ At(t, "call")
  /\ Goto(t, "answer")
  /\ UNCHANGED <<store, guards, lock, op, notice, opsLeft>>

\* A signed request whose signature the server wants made again, once.
Resign(t) ==
  /\ At(t, "answer")
  /\ "resign" \notin op[t].retries
  /\ Become(t, [op[t] EXCEPT !.retries = @ \union {"resign"}])
  /\ Goto(t, "authorize")
  /\ UNCHANGED <<store, guards, lock, notice, opsLeft>>

ReturnAnswer(t) ==
  /\ At(t, "answer")
  /\ Finish(t)
  /\ UNCHANGED <<store, guards, lock, notice, opsLeft>>

-----------------------------------------------------------------------------

Init ==
  /\ \E a \in MaybeAccount : \E known \in {a, NoAccount} :
       /\ session = [NoSession EXCEPT !.acct = a, !.profile = known]
       /\ consent = {a} \ {NoAccount}
  /\ epoch = 0
  /\ gate = NewGate
  /\ active = TRUE
  /\ resuming = FALSE
  /\ lock = NoTask
  /\ pc = [t \in Tasks |-> "idle"]
  /\ op = [t \in Tasks |-> NoOp]
  /\ minted = 0
  /\ notice = "none"
  /\ opsLeft = MaxOps

Application ==
  \/ \E t \in Tasks :
       \/ \E a \in Accounts : StartSignIn(t, a)
       \/ StartForced(t)
       \/ StartRequest(t)
       \/ Cancel(t)
  \/ SignOut
  \/ \E on \in BOOLEAN : SetActive(on)
  \/ ClearBackoff

Time == Expire \/ CooldownEnds

\* Everything a call does on its own but waiting for refresh_lock.
Progress(t) ==
  \/ Authorize(t) \/ Recheck(t) \/ PassGate(t) \/ TakeCredentials(t)
  \/ MintSucceeds(t) \/ \E e \in Errors : MintFails(t, e)
  \/ Install(t) \/ TakeOwedRecovery(t) \/ SendRecovered(t) \/ ReturnError(t)
  \/ RecordFailure(t) \/ EmitFailure(t) \/ MarkReported(t) \/ SendFailure(t)
  \/ TakeBearer(t) \/ Answer401(t) \/ Answer(t) \/ Resign(t) \/ ReturnAnswer(t)

Next ==
  \/ Application
  \/ Time
  \/ \E t \in Tasks : Lock(t) \/ Progress(t)

Spec == Init /\ [][Next]_vars

(***************************************************************************)
(* Fairness: the runtime polls a task that can go on, every call over the  *)
(* network ends (CALL_TIMEOUT and the upload ceiling cut it off), and      *)
(* tokio's Mutex is handed over in the order it was asked for, so nobody   *)
(* is passed over for ever.  Neither the application nor time is fair.     *)
(***************************************************************************)
FairSpec ==
  /\ Spec
  /\ \A t \in Tasks : WF_vars(Progress(t)) /\ SF_vars(Lock(t))

-----------------------------------------------------------------------------
(***************************************************************************)
(* What is checked.                                                        *)
(***************************************************************************)

\* Every variable has its type; in particular no attempt of a request is sent
\* with a session whose token was never minted (authorize's last checks).
TypeOK ==
  /\ session \in Session
  /\ epoch \in Nat
  /\ gate \in Gate
  /\ active \in BOOLEAN
  /\ resuming \in BOOLEAN
  /\ lock \in Tasks \union {NoTask}
  /\ pc \in [Tasks -> Labels]
  /\ op \in [Tasks -> Op]
  /\ minted \in Nat
  /\ notice \in {"none", "failed", "recovered"}
  /\ consent \in SUBSET Accounts
  /\ opsLeft \in 0 .. MaxOps

\* Background refreshes exclude each other from taking refresh_lock to the
\* event that reports their end, whichever way they end, dropped included:
\* the lock is held exactly while one of them is under way, by that one.
OneRefreshAtATime == \A t \in Tasks : Holds(t) <=> lock = t

\* The session held belongs to an account asked for since the last sign-out:
\* no refresh or sign-in that was in flight across it brings an account back
\* (set_session_if_current).
NoResurrection == SignedIn => session.acct \in consent

\* From the gate to the failure, a background refresh never runs into a
\* cooldown or a refused client version another one left behind: at most one
\* failing background refresh for each cooldown (refresh_gated).
OneFailurePerCooldown ==
  \A t \in Tasks : /\ op[t].ctx \in Gated
                   /\ pc[t] \in {"creds", "mint", "install", "record"}
                   => ~Blocked

\* However often a request is sent again, after a refresh or for its
\* signature, it is never sent again in the name of another account than the
\* one it was first sent for (reauthorize_same_profile).
RetryKeepsAccount ==
  [][\A t \in Tasks : op[t].bearer # NoBearer /\ op'[t].bearer # NoBearer
                      => op'[t].bearer.acct = op[t].bearer.acct]_vars

\* Once the server has refused this client version, background refreshes stay
\* shut out until the session is replaced or cleared: neither a later
\* failure, nor time, nor the application becoming active again lets one
\* through (client_refused against clear_backoff and record_failure_of).
RefusedUntilNewSession ==
  [][gate.refused /\ ~gate'.refused
       => \/ \E t \in Tasks : pc[t] = "owed" /\ pc'[t] # "owed"
          \/ epoch' = epoch + 1]_vars

\* Every call into the library returns, however refreshes, sign-ins and
\* sign-outs interleave (the refresh_lock guard is dropped on every path).
EveryCallReturns == \A t \in Tasks : pc[t] # "idle" ~> pc[t] = "idle"

\* The session is a store that holds accounts asked for (SessionStore).
Store == INSTANCE SessionStore WITH held <- session.acct,
                                    usable <- session.token # 0

ImplementsStore == Store!StoreSpec

\* Whoever asks and in whichever order the steps of failures, recoveries and
\* sign-outs fall, the gate is one BackoffGate allows (RefreshGate).
Promise == INSTANCE BackoffGate WITH cooling <- gate.cooling,
                                     refused <- gate.refused,
                                     reported <- gate.reported

ImplementsGate == Promise!GateSpec

(***************************************************************************)
(* Why it holds: what AuthProofs adds to make the invariants inductive.    *)
(***************************************************************************)

\* A label says what a task is: only a request waits for the lock or sends,
\* and where it is authorized and sent it is over its last refresh.
Requesting == {"authorize", "locking", "recheck", "gate", "creds", "record",
               "emit", "report", "tell", "bearer", "call", "answer"}

Contexts ==
  \A t \in Tasks :
    /\ pc[t] \in Requesting => op[t].ctx \in Gated
    /\ pc[t] \in {"authorize", "bearer", "call", "answer"}
         => op[t].ctx = "proactive"
    /\ pc[t] \in {"mint", "install", "owed", "recover"} => op[t].ctx # "none"

\* A session on its way was captured in this epoch or in an earlier one, and
\* if in this one its account is still one that was asked for.
Captured ==
  \A t \in Tasks :
    pc[t] \in {"mint", "install"}
      => /\ op[t].acct \in Accounts
         /\ op[t].epoch <= epoch
         /\ op[t].epoch = epoch => op[t].acct \in consent

\* A minted token comes with the profile of the account it is for.
Profiles ==
  /\ session.token # 0 => SignedIn /\ session.profile = session.acct
  /\ \A t \in Tasks : op[t].bearer.profile = op[t].bearer.acct

IInv ==
  /\ TypeOK /\ Contexts /\ Captured /\ Profiles
  /\ OneRefreshAtATime /\ NoResurrection /\ OneFailurePerCooldown

(***************************************************************************)
(* Why calls return: each of a call's own steps brings it nearer its end.  *)
(***************************************************************************)
\* Steps to the end of a refresh.
RefreshSteps(label) ==
  CASE label \in {"fail", "tell"} -> 1
    [] label = "report" -> 2
    [] label = "emit" -> 3
    [] label = "record" -> 4
    [] label = "recover" -> 5
    [] label = "owed" -> 6
    [] label = "install" -> 7
    [] label = "mint" -> 8
    [] label = "creds" -> 9
    [] label = "gate" -> 10
    [] label = "recheck" -> 11
    [] label = "locking" -> 12

\* How many steps a call has before it at most: after a refresh it goes on to
\* its attempt, or, when that is what made it refresh, to the next; and what
\* comes after a retry comes again for each it has left.
Steps(t) ==
  LET retriesLeft == (IF "refresh" \in op[t].retries THEN 0 ELSE 1)
                       + (IF "resign" \in op[t].retries THEN 0 ELSE 1)
  IN  CASE pc[t] = "idle" -> 0
        [] pc[t] = "answer" -> 28 * retriesLeft + 1
        [] pc[t] = "call" -> 28 * retriesLeft + 2
        [] pc[t] = "bearer" -> 28 * retriesLeft + 3
        [] pc[t] = "authorize" -> 28 * retriesLeft + 16
        [] OTHER -> 28 * retriesLeft + RefreshSteps(pc[t])
                      + (IF op[t].ctx = "reactive" THEN 16 ELSE 3)

\* A call never comes back to where it was, whatever the server answers, the
\* application does and other refreshes come to: it is sent three times at
\* most, with a refresh before each and one between.
CallsRunOut ==
  [][\A t \in Tasks :
       pc[t] # "idle" => \/ UNCHANGED <<pc[t], op[t]>>
                         \/ Steps(t)' < Steps(t)]_vars

(***************************************************************************)
(* What the documentation says and the code does not do.                   *)
(***************************************************************************)

\* "Signs in with email and password and stores the session"
\* (GrindrClient::sign_in_with_email): the account changes with a sign-in,
\* never because a refresh of the account before it came back late.
OnlySignInSwitches ==
  [][session'.acct \notin {session.acct, NoAccount}
       => \E t \in Tasks : pc[t] = "install" /\ pc'[t] # "install"
                           /\ op[t].ctx = "signin"]_vars

\* "A refresh succeeded after a RefreshFailed" (AuthEvent::RefreshRecovered):
\* while RefreshFailed is the last the application heard of a session, the
\* gate knows that a recovery is owed, or one is on its way.
FailureIsRetracted ==
  notice = "failed" /\ SignedIn
    => gate.reported \/ \E t \in Tasks : pc[t] = "recover"
=============================================================================
