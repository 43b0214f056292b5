---------------------------- MODULE SessionStore ----------------------------
(***************************************************************************)
(* What the session of a client promises to the program that uses it: the  *)
(* account it holds is one the program asked for, since it last signed out *)
(* (or since the session was last cleared because the server refused it).  *)
(*                                                                         *)
(* `held' is the account of AuthState.session, or NoAccount, and `usable'  *)
(* says whether a token was minted for it: a session that was saved comes  *)
(* without one, a session that is stored never does.  `consent' is the set *)
(* of accounts the program has asked to be signed in to and has not signed *)
(* out of.  Nothing says how a session is minted, refreshed, retried or    *)
(* refused: module Auth does, and implements this one.                     *)
(***************************************************************************)
CONSTANTS Accounts,     (* the accounts the program can sign in to          *)
          NoAccount     (* what is held while no session is                 *)

VARIABLES held, usable, consent

storeVars == <<held, usable, consent>>

\* A client is built without a session or with one the program saved.
StoreInit ==
  /\ held \in Accounts \union {NoAccount}
  /\ usable = FALSE
  /\ consent = {held} \ {NoAccount}

\* The program asks to be signed in to account a.
AskFor(a) ==
  /\ consent' = consent \union {a}
  /\ UNCHANGED <<held, usable>>

\* A session of an account the program asked for is stored.
Hold(a) ==
  /\ a \in consent
  /\ held' = a
  /\ usable' = TRUE
  /\ UNCHANGED consent

\* The session is cleared, and with it everything that was asked for.
Clear ==
  /\ held' = NoAccount
  /\ usable' = FALSE
  /\ consent' = {}

StoreNext == (\E a \in Accounts : AskFor(a) \/ Hold(a)) \/ Clear

StoreSpec == StoreInit /\ [][StoreNext]_storeVars
=============================================================================
