----------------------------- MODULE MediaFetch -----------------------------
(***************************************************************************)
(* Fetching media, and giving up a connection that no longer answers       *)
(* (src/src/media.rs, src/src/media/stream.rs, src/src/media/liveness.rs). *)
(*                                                                         *)
(* Media has an HTTP client of its own, shared by all fetches, that keeps  *)
(* connections alive in a pool.  When a fetch gets no answer in time, what *)
(* it can see of the others decides whether its pooled connection is       *)
(* stuck; if so the client is replaced, and the fetch is sent once more.   *)
(*                                                                         *)
(* Below the HTTP client nothing is visible but two calls: one for every   *)
(* connection that is opened, one for every name that is resolved.  Behind *)
(* a proxy no name of a media host is.                                     *)
(***************************************************************************)
EXTENDS Naturals, FiniteSets

CONSTANTS Fetches,      (* fetches that can be under way                    *)
          Hosts,        (* the hosts media may come from                    *)
          Devices,      (* device identities                                *)
          None,         (* what a fetch that is not under way has of both   *)
          Deadline,     (* Timeouts::media                                  *)
          RearmAfter,   (* REARM_AFTER                                      *)
          MaxNow,       (* bound: the clock                                 *)
          MaxStarts,    (* bound: fetches that are started                  *)
          MaxReplaced,  (* bound: resets and rotations                      *)
          MaxOpened     (* bound: connections opened                        *)

ASSUME FetchesAssumption == IsFiniteSet(Fetches)
ASSUME MediaPeriods == Deadline \in Nat \ {0} /\ RearmAfter \in Nat
ASSUME MediaBounds == MaxNow \in Nat \ {0} /\ MaxStarts \in Nat
                      /\ MaxReplaced \in Nat /\ MaxOpened \in Nat

VARIABLES
  now,           \* Instant::now()
  proxied,       \* the media client reaches the hosts through a proxy
  client, device,  \* InnerClient.fingerprint: its media client, its device
  built,         \* media clients built so far: they number the clients
  lastProgress,  \* Host.last_progress (0: None)
  dials,         \* Host.dials
  connections, named,            \* State, of the same names
  armed, retiredAt, generation,  \* (0: None)
  pc, fetch,     \* the point a fetch has reached, and its Attempt
  since,         \* history: fetches begun since the last retirement
  proven,        \* history: one of those has progressed
  startsLeft, replacedLeft  \* what the application may still do

identity == <<client, device, built>>
counts == <<dials, connections, named>>
arming == <<armed, retiredAt, generation>>
seen == <<since, proven>>
budget == <<startsLeft, replacedLeft>>
mediaVars == <<now, proxied, client, device, built, lastProgress, dials,
               connections, named, armed, retiredAt, generation, pc, fetch,
               since, proven, startsLeft, replacedLeft>>

(***************************************************************************)
(* An Attempt: the client and device it was made with, its Stamp, the host *)
(* it has been redirected to.  first is the client of the attempt before.  *)
(* opened and moved are history: it opened a connection, its host has      *)
(* progressed since.                                                       *)
(***************************************************************************)
Attempt == [client: Nat, device: Devices \union {None}, first: Nat,
            host: Hosts \union {None}, started: Nat, dials: Nat, unnamed: Nat,
            generation: Nat, at: Hosts \union {None}, redirected: BOOLEAN,
            opened: BOOLEAN, moved: BOOLEAN]

NoAttempt == [client |-> 0, device |-> None, first |-> 0, host |-> None,
              started |-> 0, dials |-> 0, unnamed |-> 0, generation |-> 0,
              at |-> None, redirected |-> FALSE, opened |-> FALSE,
              moved |-> FALSE]

FetchLabels == {"idle", "begun", "sent", "dialing", "stalled", "again", "body"}

\* An attempt that is on the wire and has no answer.
Waiting == {"sent", "dialing", "stalled"}

Monus(a, b) == IF a > b THEN a - b ELSE 0

unnamed == Monus(connections, named)

MoveTo(f, label) == pc' = [pc EXCEPT ![f] = label]

Become(f, attempt) == fetch' = [fetch EXCEPT ![f] = attempt]

-----------------------------------------------------------------------------
(***************************************************************************)
(* media_request: the transport is read first, the stamp taken after.      *)
(***************************************************************************)
Start(f, h) ==
  /\ pc[f] = "idle"
  /\ startsLeft > 0
  /\ startsLeft' = startsLeft - 1
  /\ Become(f, [NoAttempt EXCEPT !.host = h, !.client = client,
                                 !.device = device])
  /\ MoveTo(f, "begun")
  /\ UNCHANGED <<now, proxied, identity, lastProgress, counts, arming, seen,
                 replacedLeft>>

StartAgain(f) ==
  /\ pc[f] = "again"
  /\ Become(f, [NoAttempt EXCEPT !.host = fetch[f].host, !.client = client,
                                 !.device = device, !.first = fetch[f].client])
  /\ MoveTo(f, "begun")
  /\ UNCHANGED <<now, proxied, identity, lastProgress, counts, arming, seen,
                 budget>>

Begin(f) ==
  LET host == fetch[f].host IN
  /\ pc[f] = "begun"
  /\ Become(f, [fetch[f] EXCEPT
                  !.started = now, !.dials = dials[host], !.unnamed = unnamed,
                  !.generation = generation, !.at = host, !.redirected = FALSE,
                  !.opened = FALSE, !.moved = FALSE])
  /\ since' = since \union {f}
  /\ MoveTo(f, "sent")
  /\ UNCHANGED <<now, proxied, identity, lastProgress, counts, arming, proven,
                 budget>>

(***************************************************************************)
(* Below the HTTP client.                                                  *)
(***************************************************************************)
\* Variant: the connector of a new client is not counted.
ConnectUncounted(f) ==
  /\ pc[f] = "sent"
  /\ connections < MaxOpened
  /\ Become(f, [fetch[f] EXCEPT !.opened = TRUE])
  /\ MoveTo(f, "dialing")
  /\ UNCHANGED <<now, proxied, identity, lastProgress, counts, arming, seen,
                 budget>>

\* Counted::call, when no pooled connection serves the request.
Connect(f) ==
  /\ pc[f] = "sent"
  /\ connections < MaxOpened
  /\ connections' = connections + 1
  /\ Become(f, [fetch[f] EXCEPT !.opened = TRUE])
  /\ MoveTo(f, "dialing")
  /\ UNCHANGED <<now, proxied, identity, lastProgress, dials, named, arming,
                 seen, budget>>

\* Variant: the resolver is not listened to.
ResolveUnheard(f) ==
  /\ pc[f] = "dialing"
  /\ named' = IF proxied THEN named ELSE named + 1
  /\ MoveTo(f, "sent")
  /\ UNCHANGED <<now, proxied, identity, lastProgress, dials, connections,
                 arming, fetch, seen, budget>>

\* MediaLiveness::resolve, for the host or for a proxy that is none.
Resolve(f) ==
  LET host == fetch[f].at IN
  /\ pc[f] = "dialing"
  /\ IF proxied
     THEN UNCHANGED <<dials, named>>
     ELSE dials' = [dials EXCEPT ![host] = @ + 1] /\ named' = named + 1
  /\ MoveTo(f, "sent")
  /\ UNCHANGED <<now, proxied, identity, lastProgress, connections, arming,
                 fetch, seen, budget>>

\* The redirect policy follows a hop to a host that is allowed.
Redirect(f, h) ==
  /\ pc[f] = "sent"
  /\ Become(f, [fetch[f] EXCEPT !.redirected = TRUE, !.at = h])
  /\ UNCHANGED <<now, proxied, identity, lastProgress, counts, arming, pc,
                 seen, budget>>

(***************************************************************************)
(* Progress: the headers of an answer, and every chunk of its body.        *)
(***************************************************************************)
\* All that is left of an attempt that was answered.
Progress(f) == [NoAttempt EXCEPT !.at = fetch[f].at,
                                 !.generation = fetch[f].generation]

\* History: what others that wait for this host have seen of it.
Witnessed(f) ==
  fetch' = [g \in Fetches |->
              IF g = f THEN Progress(f)
              ELSE IF pc[g] \in Waiting /\ fetch[g].host = fetch[f].at
              THEN [fetch[g] EXCEPT !.moved = TRUE] ELSE fetch[g]]

\* Variant: whatever client it came through.
RecordAny(f) ==
  /\ lastProgress' = [lastProgress EXCEPT ![fetch[f].at] = now]
  /\ armed' = TRUE
  /\ proven' = (proven \/ f \in since)
  /\ Witnessed(f)

Record(f) ==
  /\ lastProgress' = [lastProgress EXCEPT ![fetch[f].at] = now]
  /\ armed' = (armed \/ fetch[f].generation = generation)
  /\ proven' = (proven \/ f \in since)
  /\ Witnessed(f)

\* The host of an answer is the one the last hop led to.
Answered(f) ==
  /\ pc[f] = "sent"
  /\ Record(f)
  /\ MoveTo(f, "body")
  /\ UNCHANGED <<now, proxied, identity, counts, retiredAt, generation, since,
                 budget>>

Chunk(f) ==
  /\ pc[f] = "body"
  /\ Record(f)
  /\ UNCHANGED <<now, proxied, identity, counts, retiredAt, generation, pc,
                 since, budget>>

Finish(f) == MoveTo(f, "idle") /\ Become(f, NoAttempt)

\* The body ends, is too large or too slow; or the request fails before its
\* deadline; or the application drops the future where it awaits.
Return(f) ==
  /\ pc[f] \in Waiting \union {"again", "body"}
  /\ Finish(f)
  /\ since' = since \ {f}
  /\ UNCHANGED <<now, proxied, identity, lastProgress, counts, arming, proven,
                 budget>>

-----------------------------------------------------------------------------
(***************************************************************************)
(* send_media, when there is no answer.                                    *)
(***************************************************************************)
TimeOut(f) ==
  /\ pc[f] = "sent"
  /\ now >= fetch[f].started + Deadline
  /\ MoveTo(f, "stalled")
  /\ UNCHANGED <<now, proxied, identity, lastProgress, counts, arming, fetch,
                 seen, budget>>

\* Variant: what came in the instant the attempt started does not count.
QuietOrEqual(f) == lastProgress[fetch[f].host] <= fetch[f].started

\* State::retire: nothing came from the host since the attempt started ...
Quiet(f) == lastProgress[fetch[f].host] < fetch[f].started

\* ... it opened no connection, as far as can be told ...
Pooled(f) ==
  /\ dials[fetch[f].host] = fetch[f].dials
  /\ unnamed <= fetch[f].unnamed
  /\ ~fetch[f].redirected

\* ... and the last retirement has proved worth it, or is long ago.
Armed == armed \/ (retiredAt # 0 /\ now >= retiredAt + RearmAfter)

Stuck(f) == Quiet(f) /\ Pooled(f) /\ fetch[f].client = client /\ Armed

\* Variant: a fetch is sent again on the same client too.
ResendAnywhere(f, current) == device = fetch[f].device

\* resendable_on the client there is now, and only once.
Resendable(f, current) == current # fetch[f].client /\ device = fetch[f].device

GiveUpOrResend(f, current) ==
  IF fetch[f].first = 0 /\ Resendable(f, current)
  THEN MoveTo(f, "again") /\ UNCHANGED fetch
  ELSE Finish(f)

\* retire_if_stuck, under the write lock of the fingerprint.
Retire(f) ==
  /\ pc[f] = "stalled"
  /\ Stuck(f)
  /\ generation' = generation + 1
  /\ armed' = FALSE
  /\ retiredAt' = now
  /\ since' = {} /\ proven' = FALSE
  /\ \/ built' = built + 1 /\ client' = built'
     \/ UNCHANGED <<built, client>>
  /\ GiveUpOrResend(f, client')
  /\ UNCHANGED <<now, proxied, device, lastProgress, counts, budget>>

Keep(f) ==
  /\ pc[f] = "stalled"
  /\ ~Stuck(f)
  /\ GiveUpOrResend(f, client)
  /\ since' = since \ {f}
  /\ UNCHANGED <<now, proxied, identity, lastProgress, counts, arming, proven,
                 budget>>

\* reset_transport and rotate_device.
ReplaceTransport(d) ==
  /\ replacedLeft > 0
  /\ replacedLeft' = replacedLeft - 1
  /\ built' = built + 1
  /\ client' = built'
  /\ device' = d
  /\ UNCHANGED <<now, proxied, lastProgress, counts, arming, pc, fetch, seen,
                 startsLeft>>

Tick ==
  /\ now < MaxNow
  /\ now' = now + 1
  /\ UNCHANGED <<proxied, identity, lastProgress, counts, arming, pc, fetch,
                 seen, budget>>

-----------------------------------------------------------------------------

Init ==
  /\ now = 1
  /\ proxied \in BOOLEAN
  /\ client = 1 /\ built = 1
  /\ device \in Devices
  /\ lastProgress = [h \in Hosts |-> 0]
  /\ dials = [h \in Hosts |-> 0]
  /\ connections = 0 /\ named = 0
  /\ armed = TRUE /\ retiredAt = 0 /\ generation = 0
  /\ pc = [f \in Fetches |-> "idle"]
  /\ fetch = [f \in Fetches |-> NoAttempt]
  /\ since = {} /\ proven = FALSE
  /\ startsLeft = MaxStarts /\ replacedLeft = MaxReplaced

Step(f) ==
  \/ \E h \in Hosts : Start(f, h) \/ Redirect(f, h)
  \/ StartAgain(f) \/ Begin(f) \/ Connect(f) \/ Resolve(f)
  \/ Answered(f) \/ Chunk(f) \/ Return(f)
  \/ TimeOut(f) \/ Retire(f) \/ Keep(f)

Next ==
  \/ \E f \in Fetches : Step(f)
  \/ \E d \in Devices : ReplaceTransport(d)
  \/ Tick

Spec == Init /\ [][Next]_mediaVars

-----------------------------------------------------------------------------
(***************************************************************************)
(* What is checked.                                                        *)
(***************************************************************************)

\* Every variable has its type, and no count runs ahead of what it counts.
MediaTypeOK ==
  /\ now \in 1 .. MaxNow
  /\ proxied \in BOOLEAN
  /\ client \in 1 .. built /\ built \in Nat \ {0}
  /\ device \in Devices
  /\ lastProgress \in [Hosts -> 0 .. now]
  /\ dials \in [Hosts -> Nat]
  /\ connections \in 0 .. MaxOpened /\ named \in 0 .. connections
  /\ armed \in BOOLEAN
  /\ retiredAt \in 0 .. now
  /\ generation \in Nat
  /\ pc \in [Fetches -> FetchLabels]
  /\ fetch \in [Fetches -> Attempt]
  /\ since \in SUBSET Fetches
  /\ proven \in BOOLEAN
  /\ startsLeft \in 0 .. MaxStarts /\ replacedLeft \in 0 .. MaxReplaced

\* A connection is given up only on account of an attempt that was sent on a
\* pooled one: never of one that opened a connection itself, which the network
\* may just be slow to answer, or was led away from its host
\* (State::retire's `pooled').
RetiresOnlyPooled ==
  [][\A f \in Fetches :
       generation' # generation /\ pc[f] = "stalled" /\ pc'[f] # "stalled"
         => ~fetch[f].opened /\ ~fetch[f].redirected]_mediaVars

\* A connection is not given up while its host answers somebody: nothing came
\* from it from the start of the attempt to its end (State::retire's `quiet').
KeepsMovingConnection ==
  [][\A f \in Fetches :
       generation' # generation /\ pc[f] = "stalled" /\ pc'[f] # "stalled"
         => ~fetch[f].moved]_mediaVars

\* On a network where nothing answers the client is not replaced over and
\* over: between two retirements an attempt that began after the first has
\* progressed, or REARM_AFTER has passed.  What still trickles in through the
\* client that was given up does not count (State::progressed).
RetirementsAreRare ==
  [][generation' # generation /\ generation > 0
       => proven \/ now - retiredAt >= RearmAfter]_mediaVars

\* A fetch that is sent again goes out on another client than the one it was
\* stuck on, whatever replaced it in the meantime (Attempt::resendable_on).
ResendLeavesStuckClient ==
  \A f \in Fetches : pc[f] \in Waiting /\ fetch[f].first # 0
                     => fetch[f].client # fetch[f].first

(***************************************************************************)
(* Why it holds: what MediaFetchProofs adds to make the properties         *)
(* inductive.                                                              *)
(***************************************************************************)

\* A name is counted only for a connection that has been: what is still to be
\* named leaves room for it.
NamesLag ==
  ~proxied => named + Cardinality({f \in Fetches : pc[f] = "dialing"})
                <= connections

\* An attempt that opened a connection shows in the counts: by the name of
\* its host, or, behind a proxy, by one more that nobody named.
OpeningsShow ==
  /\ proxied => named = 0
  /\ \A f \in Fetches :
       pc[f] \in Waiting =>
         /\ fetch[f].dials <= dials[fetch[f].host]
         /\ ~fetch[f].redirected => fetch[f].at = fetch[f].host
         /\ fetch[f].opened /\ ~fetch[f].redirected /\ ~proxied
              => pc[f] = "dialing" \/ fetch[f].dials < dials[fetch[f].host]
         /\ proxied => /\ fetch[f].unnamed <= connections
                       /\ fetch[f].opened => fetch[f].unnamed < connections

\* What has come from the host since an attempt started shows in the time.
MovesShow ==
  \A f \in Fetches :
    pc[f] \in Waiting => /\ fetch[f].started \in 1 .. now
                         /\ fetch[f].moved => ~Quiet(f)

\* Nothing but an attempt that began since the last retirement arms.
ArmedByProof ==
  /\ \A f \in Fetches :
       pc[f] \in Waiting \union {"body"}
         => /\ fetch[f].generation <= generation
            /\ fetch[f].generation = generation => f \in since
  /\ armed /\ generation > 0 => proven

\* Clients only ever give way to younger ones.
ClientsAge ==
  \A f \in Fetches :
    /\ pc[f] \notin {"idle", "body"} => /\ fetch[f].client \in 1 .. client
                                        /\ fetch[f].host \in Hosts
    /\ pc[f] \in Waiting \union {"body"} => fetch[f].at \in Hosts
    /\ pc[f] = "again" => fetch[f].client < client
    /\ pc[f] \in {"begun"} \union Waiting
         => fetch[f].first = 0 \/ fetch[f].first < fetch[f].client

MInv ==
  /\ MediaTypeOK /\ NamesLag /\ OpeningsShow /\ MovesShow
  /\ ArmedByProof /\ ClientsAge
=============================================================================
