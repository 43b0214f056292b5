----------------------------- MODULE DeviceKey -----------------------------
(***************************************************************************)
(* The device signing key and the device it belongs to: registration on    *)
(* the first signed request, the signing and sending of that request, and  *)
(* everything that drops the key or the device (src/src/rest.rs, with      *)
(* signed_bytes and exchange of src/src/request.rs and the calls of        *)
(* src/src/client.rs that reach them).                                     *)
(*                                                                         *)
(* The session is a SessionStore, which module Auth implements: what a     *)
(* sign-in, a refresh or a refusal does to it is a step of the store.      *)
(* A label stands at every await and at every release of the lock.         *)
(***************************************************************************)
EXTENDS SessionStore, Naturals

CONSTANTS Tasks,        (* calls into the library that can be under way     *)
          NoTask,       (* the mutex of `signing' is free                   *)
          MaxCalls      (* bound: calls and store steps in all              *)

ASSUME KeyStoreAssumption == NoAccount \notin Accounts
ASSUME KeyTasksAssumption == NoTask \notin Tasks
ASSUME CallsAssumption == MaxCalls \in Nat

VARIABLES
  slot,        \* the key in InnerClient.signing
  signing,     \* the task that holds the mutex of `signing' across an await
  watched,     \* what signing_key_tx last published
  device,      \* the device of InnerClient.fingerprint, by its number
  rotations,   \* calls of rotate_device so far: they number the devices
  signOuts,    \* history: calls of sign_out so far
  forgotten,   \* history: the last sign_out that has emptied the slot
  shed,        \* history: the last rotate_device that has emptied the slot
  at, call,    \* the point a task has reached, and its local variables
  callsLeft    \* calls and store steps that may still come

identity == <<device, rotations>>
history == <<signOuts, forgotten, shed>>
keyVars == <<held, usable, consent, slot, signing, watched, device, rotations,
             signOuts, forgotten, shed, at, call, callsLeft>>

(***************************************************************************)
(* A key: the profile id it signs for and, when it was registered here and *)
(* not restored, how many sign-outs and rotations lay behind the session   *)
(* that registered it and the device it was registered for.                *)
(***************************************************************************)
Key == [user: Accounts \union {NoAccount}, restored: BOOLEAN,
        signOuts: Nat, rotations: Nat]

NoKey == [user |-> NoAccount, restored |-> FALSE,
          signOuts |-> 0, rotations |-> 0]

(***************************************************************************)
(* The local variables of a task: which call it is, the profile id of the  *)
(* key it generated or was given, how many sign-outs and rotations lie     *)
(* behind it, the account its last attempt was authorized for, the device  *)
(* reset_transport read, the retries it used.                              *)
(***************************************************************************)
Kinds == {"none", "register", "upload", "sign_out", "rotate", "reset",
          "restore"}

Call == [kind: Kinds, user: Accounts \union {NoAccount},
         signOuts: Nat, rotations: Nat,
         by: Accounts \union {NoAccount}, device: Nat, retries: 0 .. 2]

NoCall == [kind |-> "none", user |-> NoAccount, signOuts |-> 0,
           rotations |-> 0, by |-> NoAccount, device |-> 0, retries |-> 0]

\* The key a task puts in the slot.
KeyOf(t) == [user |-> call[t].user, restored |-> call[t].kind = "restore",
             signOuts |-> call[t].signOuts, rotations |-> call[t].rotations]

KeyLabels == {"idle", "user", "locking", "challenge", "register",
              "registering", "authorize", "sign", "answer", "drop",
              "unpublish", "put", "publish", "swap"}

Registering == {"challenge", "register", "registering"}

\* clear_signing, restore_signing_key and signed_bytes hold the mutex within a
\* step; ensure_device_key is the one that takes it from one step to another.
Free == signing = NoTask

Move(t, label) == at' = [at EXCEPT ![t] = label]

Local(t, record) == call' = [call EXCEPT ![t] = record]

Return(t) == Move(t, "idle") /\ Local(t, NoCall)

Spend == callsLeft > 0 /\ callsLeft' = callsLeft - 1

-----------------------------------------------------------------------------
(***************************************************************************)
(* The session, and the calls the application makes.                       *)
(***************************************************************************)
SessionStep ==
  /\ Spend
  /\ \/ \E a \in Accounts : AskFor(a) \/ Hold(a)
     \/ Clear
  /\ UNCHANGED <<slot, signing, watched, identity, history, at, call>>

Start(t, kind) ==
  /\ at[t] = "idle"
  /\ Spend
  /\ Local(t, [NoCall EXCEPT !.kind = kind])

\* register_device_key, or a request with a signed body.
StartSigned(t) ==
  /\ \E kind \in {"register", "upload"} : Start(t, kind)
  /\ Move(t, "user")
  /\ UNCHANGED <<storeVars, slot, signing, watched, identity, history>>

\* sign_out clears the session first and the key after.
StartSignOut(t) ==
  /\ at[t] = "idle"
  /\ Spend
  /\ Clear
  /\ signOuts' = signOuts + 1
  /\ Local(t, [NoCall EXCEPT !.kind = "sign_out", !.signOuts = signOuts'])
  /\ Move(t, "drop")
  /\ UNCHANGED <<slot, signing, watched, identity, forgotten, shed>>

\* rotate_device swaps the fingerprint first and clears the key after.
StartRotate(t) ==
  /\ at[t] = "idle"
  /\ Spend
  /\ rotations' = rotations + 1
  /\ device' = rotations'
  /\ Local(t, [NoCall EXCEPT !.kind = "rotate", !.rotations = rotations'])
  /\ Move(t, "drop")
  /\ UNCHANGED <<storeVars, slot, signing, watched, history>>

\* reset_transport reads the device ...
StartReset(t) ==
  /\ at[t] = "idle"
  /\ Spend
  /\ Local(t, [NoCall EXCEPT !.kind = "reset", !.device = device])
  /\ Move(t, "swap")
  /\ UNCHANGED <<storeVars, slot, signing, watched, identity, history>>

\* ... and later replaces the fingerprint by a new one for that device.
Swap(t) ==
  /\ at[t] = "swap"
  /\ device' = call[t].device
  /\ Return(t)
  /\ UNCHANGED <<storeVars, slot, signing, watched, rotations, history,
                 callsLeft>>

\* The profile id of the session: blank in a saved session that has no token
\* yet and was saved without one.
ProfileIds == IF usable THEN {held} ELSE {held, NoAccount}

\* restore_signing_key, when it does not refuse: the session's profile is the
\* key's, or is not known.
StartRestore(t, a) ==
  /\ at[t] = "idle"
  /\ Spend
  /\ ProfileIds \intersect {a, NoAccount} # {}
  /\ Local(t, [NoCall EXCEPT !.kind = "restore", !.user = a])
  /\ Move(t, "put")
  /\ UNCHANGED <<storeVars, slot, signing, watched, identity, history>>

Put(t) ==
  /\ at[t] = "put"
  /\ Free
  /\ slot' = KeyOf(t)
  /\ Move(t, "publish")
  /\ UNCHANGED <<storeVars, signing, watched, identity, history, call,
                 callsLeft>>

Publish(t) ==
  /\ at[t] = "publish"
  /\ watched' = KeyOf(t)
  /\ Return(t)
  /\ UNCHANGED <<storeVars, slot, signing, identity, history, callsLeft>>

(***************************************************************************)
(* clear_signing: the slot is emptied under the mutex, the watch told once *)
(* it is free again.                                                       *)
(***************************************************************************)
\* History: the slot was emptied for this sign-out, or for this rotation.
Settle(t) ==
  /\ forgotten' = IF call[t].kind = "sign_out" /\ call[t].signOuts > forgotten
                  THEN call[t].signOuts ELSE forgotten
  /\ shed' = IF call[t].kind = "rotate" /\ call[t].rotations > shed
             THEN call[t].rotations ELSE shed

\* Variant: the slot is emptied without waiting for the mutex.
DropAtOnce(t) ==
  /\ at[t] = "drop"
  /\ slot' = NoKey
  /\ Settle(t)
  /\ Move(t, "unpublish")
  /\ UNCHANGED <<storeVars, signing, watched, identity, signOuts, call,
                 callsLeft>>

Drop(t) ==
  /\ at[t] = "drop"
  /\ Free
  /\ slot' = NoKey
  /\ Settle(t)
  /\ Move(t, "unpublish")
  /\ UNCHANGED <<storeVars, signing, watched, identity, signOuts, call,
                 callsLeft>>

Unpublish(t) ==
  /\ at[t] = "unpublish"
  /\ watched' = NoKey
  /\ Return(t)
  /\ UNCHANGED <<storeVars, slot, signing, identity, history, callsLeft>>

-----------------------------------------------------------------------------
(***************************************************************************)
(* ensure_device_key.  The mutex is held from LockSlot to the end, across  *)
(* two exchanges with the server and the captcha.                          *)
(***************************************************************************)
\* The key is there, or was put there: a signed request goes on to be sent.
Ensured(t) ==
  /\ signing' = NoTask
  /\ \/ call[t].kind = "register" /\ Return(t)
     \/ /\ call[t].kind = "upload"
        /\ Local(t, [NoCall EXCEPT !.kind = "upload"])
        /\ Move(t, "authorize")

\* The call returns an error, and the mutex with it.
NotEnsured(t) == signing' = NoTask /\ Return(t)

\* signing_user_id: authorize, then the profile id of what is there now.
ReadUser(t) ==
  /\ at[t] = "user"
  /\ \/ ~usable /\ Return(t)
     \/ /\ usable
        /\ Local(t, [call[t] EXCEPT !.user = held])
        /\ Move(t, "locking")
  /\ UNCHANGED <<storeVars, slot, signing, watched, identity, history,
                 callsLeft>>

\* Variant: nobody looks whether the key is there by now.
LockSlotUnchecked(t) ==
  /\ at[t] = "locking"
  /\ Free
  /\ signing' = t
  /\ Local(t, [call[t] EXCEPT !.rotations = rotations])
  /\ Move(t, "challenge")
  /\ UNCHANGED <<storeVars, slot, watched, identity, history, callsLeft>>

LockSlot(t) ==
  /\ at[t] = "locking"
  /\ Free
  /\ \/ slot.user = call[t].user /\ Ensured(t)
     \/ /\ slot.user # call[t].user
        /\ signing' = t
        /\ Local(t, [call[t] EXCEPT !.rotations = rotations])
        /\ Move(t, "challenge")
  /\ UNCHANGED <<storeVars, slot, watched, identity, history, callsLeft>>

\* Variant: a refused challenge drops the key as a refused signature does.
ChallengeRefused(t) ==
  /\ at[t] = "challenge"
  /\ \/ usable /\ Move(t, "register") /\ UNCHANGED <<signing, call>>
     \/ Move(t, "drop") /\ UNCHANGED <<signing, call>>
     \/ NotEnsured(t)
  /\ UNCHANGED <<storeVars, slot, watched, identity, history, callsLeft>>

Challenge(t) ==
  /\ at[t] = "challenge"
  /\ \/ usable /\ Move(t, "register") /\ UNCHANGED <<signing, call>>
     \/ NotEnsured(t)
  /\ UNCHANGED <<storeVars, slot, watched, identity, history, callsLeft>>

\* The registration is authorized in the name of whoever is signed in.
Register(t) ==
  /\ at[t] = "register"
  /\ \/ ~usable /\ NotEnsured(t)
     \/ /\ usable
        /\ Local(t, [call[t] EXCEPT !.by = held, !.signOuts = signOuts])
        /\ Move(t, "registering")
        /\ UNCHANGED signing
  /\ UNCHANGED <<storeVars, slot, watched, identity, history, callsLeft>>

\* A 401: sent again once, if a refresh replaced the token and the profile is
\* still the same.
RegisterAgain(t) ==
  /\ at[t] = "registering"
  /\ call[t].retries = 0
  /\ \/ /\ ~usable \/ held # call[t].by
        /\ NotEnsured(t)
     \/ /\ usable /\ held = call[t].by
        /\ Local(t, [call[t] EXCEPT !.retries = 1, !.signOuts = signOuts])
        /\ UNCHANGED <<signing, at>>
  /\ UNCHANGED <<storeVars, slot, watched, identity, history, callsLeft>>

Registered(t) ==
  /\ at[t] = "registering"
  /\ slot' = KeyOf(t)
  /\ watched' = KeyOf(t)
  /\ Ensured(t)
  /\ UNCHANGED <<storeVars, identity, history, callsLeft>>

RegistrationFails(t) ==
  /\ at[t] = "registering"
  /\ NotEnsured(t)
  /\ UNCHANGED <<storeVars, slot, watched, identity, history, callsLeft>>

(***************************************************************************)
(* exchange, for a body that is signed.                                    *)
(***************************************************************************)
AuthorizeUpload(t) ==
  /\ at[t] = "authorize"
  /\ \/ ~usable /\ Return(t)
     \/ /\ usable
        /\ Local(t, [call[t] EXCEPT !.by = held])
        /\ Move(t, "sign")
  /\ UNCHANGED <<storeVars, slot, signing, watched, identity, history,
                 callsLeft>>

\* signed_bytes: the slot may have been emptied since the key was ensured.
Sign(t) ==
  /\ at[t] = "sign"
  /\ Free
  /\ \/ slot = NoKey /\ Return(t)
     \/ slot # NoKey /\ Move(t, "answer") /\ UNCHANGED call
  /\ UNCHANGED <<storeVars, slot, signing, watched, identity, history,
                 callsLeft>>

\* Variant: sent again as long as the server asks for it.
SendAgainAndAgain(t) ==
  /\ at[t] = "answer"
  /\ \/ /\ ~usable \/ held # call[t].by
        /\ Return(t)
     \/ /\ usable /\ held = call[t].by
        /\ Local(t, [call[t] EXCEPT !.retries = @ + 1])
        /\ Move(t, "sign")
  /\ UNCHANGED <<storeVars, slot, signing, watched, identity, history,
                 callsLeft>>

\* A 401 and a drifted timestamp or replayed nonce each earn one more attempt,
\* signed anew, for the same profile.
SendAgain(t) ==
  /\ at[t] = "answer"
  /\ call[t].retries < 2
  /\ \/ /\ ~usable \/ held # call[t].by
        /\ Return(t)
     \/ /\ usable /\ held = call[t].by
        /\ Local(t, [call[t] EXCEPT !.retries = @ + 1])
        /\ Move(t, "sign")
  /\ UNCHANGED <<storeVars, slot, signing, watched, identity, history,
                 callsLeft>>

\* Any other refusal of the signature: the key is of no use any more.
Refused(t) ==
  /\ at[t] = "answer"
  /\ Move(t, "drop")
  /\ UNCHANGED <<storeVars, slot, signing, watched, identity, history, call,
                 callsLeft>>

Answered(t) ==
  /\ at[t] = "answer"
  /\ Return(t)
  /\ UNCHANGED <<storeVars, slot, signing, watched, identity, history,
                 callsLeft>>

\* The application drops the future where it awaits.
Abandon(t) ==
  /\ at[t] \notin {"idle", "publish", "unpublish"}
  /\ signing' = IF signing = t THEN NoTask ELSE signing
  /\ Return(t)
  /\ UNCHANGED <<storeVars, slot, watched, identity, history, callsLeft>>

-----------------------------------------------------------------------------

\* A client is built without a key.
Init ==
  /\ StoreInit
  /\ slot = NoKey /\ watched = NoKey
  /\ signing = NoTask
  /\ device = 0 /\ rotations = 0
  /\ signOuts = 0 /\ forgotten = 0 /\ shed = 0
  /\ at = [t \in Tasks |-> "idle"]
  /\ call = [t \in Tasks |-> NoCall]
  /\ callsLeft = MaxCalls

Application(t) ==
  \/ StartSigned(t) \/ StartSignOut(t) \/ StartRotate(t) \/ StartReset(t)
  \/ \E a \in Accounts : StartRestore(t, a)
  \/ Abandon(t)

\* What waits for the mutex, and what does not.
Waiting(t) == LockSlot(t) \/ Put(t) \/ Drop(t) \/ Sign(t)

Going(t) ==
  \/ Swap(t) \/ Publish(t) \/ Unpublish(t)
  \/ ReadUser(t) \/ Challenge(t)
  \/ Register(t) \/ RegisterAgain(t) \/ Registered(t) \/ RegistrationFails(t)
  \/ AuthorizeUpload(t) \/ SendAgain(t) \/ Refused(t) \/ Answered(t)

Next ==
  \/ SessionStep
  \/ \E t \in Tasks : Application(t) \/ Waiting(t) \/ Going(t)

Spec == Init /\ [][Next]_keyVars

(***************************************************************************)
(* Fairness: the runtime polls a call that can go on, every exchange ends  *)
(* (it has a time-out), a captcha provider answers, and tokio's Mutex      *)
(* passes nobody over for ever.                                            *)
(***************************************************************************)
FairSpec ==
  /\ Spec
  /\ \A t \in Tasks : WF_keyVars(Going(t)) /\ SF_keyVars(Waiting(t))

-----------------------------------------------------------------------------
(***************************************************************************)
(* What is checked.                                                        *)
(***************************************************************************)

\* Every variable has its type; in particular no signed request is sent more
\* than twice again (exchange's `refreshed' and `resigned').
KeyTypeOK ==
  /\ held \in Accounts \union {NoAccount}
  /\ usable \in BOOLEAN /\ (usable => held # NoAccount)
  /\ consent \in SUBSET Accounts
  /\ slot \in Key /\ watched \in Key
  /\ signing \in Tasks \union {NoTask}
  /\ device \in Nat /\ rotations \in Nat
  /\ signOuts \in Nat /\ forgotten \in Nat /\ shed \in Nat
  /\ at \in [Tasks -> KeyLabels]
  /\ call \in [Tasks -> Call]
  /\ callsLeft \in 0 .. MaxCalls

\* Once sign_out has returned, no key that was registered under the session it
\* ended is in the slot or gets there, and once rotate_device has, none that
\* was registered for the device it replaced: the registration in flight
\* holds the mutex, and clear_signing waits for it.
KeysDieWithSessionAndDevice ==
  slot # NoKey /\ ~slot.restored
    => slot.signOuts >= forgotten /\ slot.rotations >= shed

\* However many signed requests need a key at once, one is registered: while
\* a registration is under way no key of that profile is in the slot
\* (ensure_device_key compares under the mutex).
RegistersOnlyWhenMissing ==
  \A t \in Tasks : at[t] \in Registering => slot.user # call[t].user

\* Every call returns: ensure_device_key holds the mutex of `signing' while it
\* makes exchanges of its own, and none of them waits for it.
KeyCallsReturn == \A t \in Tasks : at[t] # "idle" ~> at[t] = "idle"

(***************************************************************************)
(* Why it holds: what DeviceKeyProofs adds to make the invariants          *)
(* inductive.                                                              *)
(***************************************************************************)

\* The mutex is held from one step to another by registrations alone.
HeldByRegistration == \A t \in Tasks : signing = t <=> at[t] \in Registering

\* A registration binds its key to a profile, and counts what lay behind it
\* no sooner than the last clear_signing to empty the slot.
Binds(t) ==
  /\ at[t] \in Registering \union {"locking"} => call[t].user \in Accounts
  /\ at[t] \in Registering => call[t].rotations >= shed
  /\ at[t] = "registering" => call[t].signOuts >= forgotten

\* What a restore puts in the slot says so, and no call counts more sign-outs
\* or rotations than there were.
Marked(t) ==
  /\ at[t] \in {"put", "publish"} => call[t].kind = "restore"
  /\ call[t].signOuts <= signOuts /\ call[t].rotations <= rotations

\* What is ensured is ensured for a registration or an upload.
Ensuring(t) ==
  at[t] \in Registering \union {"user", "locking"}
    => call[t].kind \in {"register", "upload"}

KInv ==
  /\ KeyTypeOK /\ HeldByRegistration
  /\ forgotten <= signOuts /\ shed <= rotations
  /\ \A t \in Tasks : Binds(t) /\ Marked(t) /\ Ensuring(t)
  /\ KeysDieWithSessionAndDevice /\ RegistersOnlyWhenMissing

(***************************************************************************)
(* Why calls return: each of a call's own steps brings it nearer its end.  *)
(***************************************************************************)
\* How many steps a call has before it at most, by the retries it has left.
Steps(t) ==
  CASE at[t] = "idle" -> 0
    [] at[t] \in {"swap", "publish", "unpublish"} -> 1
    [] at[t] \in {"put", "drop"} -> 2
    [] at[t] = "answer" -> 7 - 2 * call[t].retries
    [] at[t] = "sign" -> 8 - 2 * call[t].retries
    [] at[t] = "authorize" -> 9
    [] at[t] = "registering" -> 12 - call[t].retries
    [] at[t] = "register" -> 13
    [] at[t] = "challenge" -> 14
    [] at[t] = "locking" -> 15
    [] at[t] = "user" -> 16

\* A call never comes back to where it was, whatever the server answers and
\* whoever empties the slot meanwhile: a registration and three attempts are
\* the most there is to it.
CallsRunOut ==
  [][\A t \in Tasks :
       at[t] # "idle" => \/ UNCHANGED <<at[t], call[t]>>
                         \/ Steps(t)' < Steps(t)]_keyVars

(***************************************************************************)
(* What the documentation says and the code does not do.                   *)
(***************************************************************************)

\* "Replaces the device identity ... so nothing from the old device carries
\* over to later requests" (GrindrClient::rotate_device): a device that was
\* replaced never comes back.
RotationLasts == [][device' >= device]_keyVars
=============================================================================
