----------------------------- MODULE WireProofs -----------------------------
(***************************************************************************)
(* Proofs about what goes over the wire: that the headers of an attempt    *)
(* leave in order and each once, and that all of an attempt is of the      *)
(* device its connection was made for.                                     *)
(***************************************************************************)
EXTENDS ExchangeProofs, FiniteSetTheorems

(***************************************************************************)
(* A part of a list, in the order of the list.                             *)
(***************************************************************************)
\* The k-th of some places is the place with k of them up to it.
LEMMA Ranks ==
  ASSUME NEW n \in Nat, NEW places \in SUBSET (1 .. n)
  PROVE  /\ Cardinality(places) \in Nat
         /\ \E e \in [1 .. Cardinality(places) -> places] :
              /\ \A i \in places : \E k \in 1 .. Cardinality(places) : e[k] = i
              /\ \A k, l \in 1 .. Cardinality(places) : k < l => e[k] < e[l]
              /\ \A s : Kept(s, places)
                          = [k \in 1 .. Cardinality(places) |-> s[e[k]]]
<1> DEFINE upTo(i) == places \cap (1 .. i)
           size == Cardinality(places)
           rank == [i \in places |-> Cardinality(upTo(i))]
           e == [k \in 1 .. size |->
                   CHOOSE i \in places : Cardinality(upTo(i)) = k]
<1>0. \A i \in places : i \in Nat
  OBVIOUS
<1>1. IsFiniteSet(places) /\ size \in Nat
  <2>1. IsFiniteSet(1 .. n)
    BY FS_Interval
  <2> QED
    BY <2>1, FS_Subset, FS_CardinalityType
<1>2. \A i \in places : /\ IsFiniteSet(upTo(i)) /\ Cardinality(upTo(i)) \in Nat
                        /\ Cardinality(upTo(i)) <= size
  <2> SUFFICES ASSUME NEW i \in places
               PROVE  /\ IsFiniteSet(upTo(i)) /\ Cardinality(upTo(i)) \in Nat
                      /\ Cardinality(upTo(i)) <= size
    OBVIOUS
  <2>1. upTo(i) \in SUBSET places
    OBVIOUS
  <2> QED
    BY <1>1, <2>1, FS_Subset, FS_CardinalityType
<1>3. \A i, j \in places : i < j => rank[i] < rank[j]
  <2> SUFFICES ASSUME NEW i \in places, NEW j \in places, i < j
               PROVE  Cardinality(upTo(i)) < Cardinality(upTo(j))
    OBVIOUS
  <2>1. upTo(i) \in SUBSET upTo(j) /\ j \in upTo(j) /\ j \notin upTo(i)
    OBVIOUS
  <2>2. upTo(i) # upTo(j)
    BY <2>1
  <2>3. /\ Cardinality(upTo(i)) <= Cardinality(upTo(j))
        /\ Cardinality(upTo(i)) # Cardinality(upTo(j))
    BY <1>2, <2>1, <2>2, FS_Subset
  <2> QED
    BY <1>2, <2>3
<1>4. rank \in [places -> 1 .. size]
  <2> SUFFICES ASSUME NEW i \in places PROVE Cardinality(upTo(i)) \in 1 .. size
    OBVIOUS
  <2>1. i \in upTo(i)
    OBVIOUS
  <2>2. Cardinality(upTo(i)) # 0
    BY <1>2, <2>1, FS_EmptySet
  <2> QED
    BY <1>1, <1>2, <2>2
<1>5. \A i, j \in places : rank[i] = rank[j] => i = j
  <2> SUFFICES ASSUME NEW i \in places, NEW j \in places, rank[i] = rank[j]
               PROVE  i = j
    OBVIOUS
  <2>1. rank[i] \in Nat /\ rank[j] \in Nat /\ i \in Nat /\ j \in Nat
    BY <1>4
  <2> HIDE DEF rank
  <2>2. ~(i < j) /\ ~(j < i)
    BY <1>3, <2>1
  <2> QED
    BY <2>1, <2>2
<1>6. \A k \in 1 .. size : \E i \in places : rank[i] = k
  <2> HIDE DEF rank
  <2>1. rank \in Injection(places, 1 .. size)
    BY <1>4, <1>5 DEF Injection, IsInjective
  <2>2. IsFiniteSet(1 .. size) /\ Cardinality(1 .. size) = size
    BY <1>1, FS_Interval
  <2>3. rank \in Surjection(places, 1 .. size)
    BY <2>1, <2>2, FS_Injection
  <2> QED
    BY <2>3 DEF Surjection
<1>7. \A k \in 1 .. size : e[k] \in places /\ rank[e[k]] = k
  BY <1>6
<1> HIDE DEF rank, e
<1>8. e \in [1 .. size -> places]
  BY <1>7 DEF e
<1>9. \A i \in places : rank[i] \in 1 .. size /\ e[rank[i]] = i
  BY <1>4, <1>5, <1>7
<1>10. \A k, l \in 1 .. size : k < l => e[k] < e[l]
  <2> SUFFICES ASSUME NEW k \in 1 .. size, NEW l \in 1 .. size, k < l
               PROVE  e[k] < e[l]
    OBVIOUS
  <2>1. /\ e[k] \in places /\ rank[e[k]] = k
        /\ e[l] \in places /\ rank[e[l]] = l
    BY <1>7
  <2>2. e[k] \in Nat /\ e[l] \in Nat
    BY <1>0, <2>1
  <2>3. e[k] # e[l] /\ ~(e[l] < e[k])
    BY <1>3, <2>1, <2>2
  <2> QED
    BY <2>2, <2>3
<1>11. \A s : Kept(s, places) = [k \in 1 .. size |-> s[e[k]]]
  BY DEF Kept, e
<1> QED
  BY <1>1, <1>8, <1>9, <1>10, <1>11

\* What was at these places of s, and nothing else, in the order of s.
PartOf(part, s, places) ==
  \E e \in [1 .. Len(part) -> places] :
    /\ \A i \in places : \E k \in 1 .. Len(part) : e[k] = i
    /\ \A k, l \in 1 .. Len(part) : k < l => e[k] < e[l]
    /\ \A k \in 1 .. Len(part) : part[k] = s[e[k]]

LEMMA KeptOf ==
  ASSUME NEW H, NEW s \in Seq(H), NEW places \in SUBSET (1 .. Len(s))
  PROVE  Kept(s, places) \in Seq(H) /\ PartOf(Kept(s, places), s, places)
<1> DEFINE size == Cardinality(places)
<1>0. Len(s) \in Nat /\ s \in [1 .. Len(s) -> H]
  OBVIOUS
<1>1. PICK e \in [1 .. size -> places] :
        /\ \A i \in places : \E k \in 1 .. size : e[k] = i
        /\ \A k, l \in 1 .. size : k < l => e[k] < e[l]
        /\ \A q : Kept(q, places) = [k \in 1 .. size |-> q[e[k]]]
  BY <1>0, Ranks
<1>2. size \in Nat
  BY <1>0, Ranks
<1>3. Kept(s, places) = [k \in 1 .. size |-> s[e[k]]]
  BY <1>1
<1>4. Kept(s, places) \in Seq(H) /\ Len(Kept(s, places)) = size
  <2>1. \A k \in 1 .. size : s[e[k]] \in H
    BY <1>0
  <2>2. Kept(s, places) \in [1 .. size -> H]
    BY <1>3, <2>1
  <2> QED
    BY <1>2, <2>2
<1>5. PICK kept : kept = Kept(s, places)
  OBVIOUS
<1>6. /\ Len(kept) = size
      /\ \A k \in 1 .. size : kept[k] = s[e[k]]
  BY <1>3, <1>4, <1>5
<1>7. PartOf(kept, s, places)
  BY <1>1, <1>6 DEF PartOf
<1> QED
  BY <1>4, <1>5, <1>7

-----------------------------------------------------------------------------
(***************************************************************************)
(* Order: of a list that is put together, and of a part of it.             *)
(***************************************************************************)
Ordered(headers) == NoneTwice(headers) /\ InCorrectOrder(headers)

\* What has these names may go before what has those.
OfTwoNames(before, after) ==
  \A a \in before, b \in after :
    a # b /\ \A p \in Place(a), q \in Place(b) : p < q

LEMMA NamesJoined ==
  ASSUME NEW H, NEW s \in Seq(H), NEW t \in Seq(H)
  PROVE  /\ s \o t \in Seq(H)
         /\ Names(s \o t) = Names(s) \union Names(t)
<1>1. /\ s \o t \in Seq(H) /\ Len(s \o t) = Len(s) + Len(t)
      /\ \A i \in 1 .. Len(s \o t) :
           (s \o t)[i] = IF i <= Len(s) THEN s[i] ELSE t[i - Len(s)]
  OBVIOUS
<1>2. ASSUME NEW i \in 1 .. Len(s \o t)
      PROVE  (s \o t)[i].name \in Names(s) \union Names(t)
  <2>1. i <= Len(s) => i \in 1 .. Len(s) /\ (s \o t)[i] = s[i]
    BY <1>1
  <2>2. i > Len(s) => i - Len(s) \in 1 .. Len(t) /\ (s \o t)[i] = t[i - Len(s)]
    BY <1>1
  <2> QED
    BY <2>1, <2>2 DEF Names
<1>3. ASSUME NEW i \in 1 .. Len(s) PROVE s[i].name \in Names(s \o t)
  <2>1. i \in 1 .. Len(s \o t) /\ (s \o t)[i] = s[i]
    BY <1>1
  <2> QED
    BY <2>1 DEF Names
<1>4. ASSUME NEW i \in 1 .. Len(t) PROVE t[i].name \in Names(s \o t)
  <2>1. Len(s) + i \in 1 .. Len(s \o t) /\ (s \o t)[Len(s) + i] = t[i]
    BY <1>1
  <2> QED
    BY <2>1 DEF Names
<1> QED
  BY <1>1, <1>2, <1>3, <1>4 DEF Names

LEMMA Joined ==
  ASSUME NEW H, NEW s \in Seq(H), NEW t \in Seq(H), Ordered(s), Ordered(t),
         OfTwoNames(Names(s), Names(t))
  PROVE  /\ s \o t \in Seq(H) /\ Ordered(s \o t)
         /\ Names(s \o t) = Names(s) \union Names(t)
<1>1. /\ Len(s \o t) = Len(s) + Len(t)
      /\ \A i \in 1 .. Len(s \o t) :
           (s \o t)[i] = IF i <= Len(s) THEN s[i] ELSE t[i - Len(s)]
  OBVIOUS
<1>2. ASSUME NEW i \in 1 .. Len(s \o t), NEW j \in 1 .. Len(s \o t), i < j
      PROVE  /\ (s \o t)[i].name # (s \o t)[j].name
             /\ \A p \in Place((s \o t)[i].name), q \in Place((s \o t)[j].name) :
                  p < q
  <2>1. CASE j <= Len(s)
    <3>1. /\ i \in 1 .. Len(s) /\ j \in 1 .. Len(s) /\ i # j
          /\ (s \o t)[i] = s[i] /\ (s \o t)[j] = s[j]
      BY <1>1, <1>2, <2>1
    <3> QED
      BY <1>2, <3>1 DEF Ordered, NoneTwice, InCorrectOrder
  <2>2. CASE i <= Len(s) /\ j > Len(s)
    <3>1. /\ i \in 1 .. Len(s) /\ j - Len(s) \in 1 .. Len(t)
          /\ (s \o t)[i] = s[i] /\ (s \o t)[j] = t[j - Len(s)]
      BY <1>1, <1>2, <2>2
    <3>2. s[i].name \in Names(s) /\ t[j - Len(s)].name \in Names(t)
      BY <3>1 DEF Names
    <3> QED
      BY <3>1, <3>2 DEF OfTwoNames
  <2>3. CASE i > Len(s)
    <3>1. /\ i - Len(s) \in 1 .. Len(t) /\ j - Len(s) \in 1 .. Len(t)
          /\ i - Len(s) < j - Len(s) /\ i - Len(s) # j - Len(s)
          /\ (s \o t)[i] = t[i - Len(s)] /\ (s \o t)[j] = t[j - Len(s)]
      BY <1>1, <1>2, <2>3
    <3> QED
      BY <3>1 DEF Ordered, NoneTwice, InCorrectOrder
  <2>4. j <= Len(s) \/ (i <= Len(s) /\ j > Len(s)) \/ i > Len(s)
    BY <1>1
  <2> QED
    BY <2>1, <2>2, <2>3, <2>4
<1>3. \A i, j \in 1 .. Len(s \o t) : i # j => i < j \/ j < i
  BY <1>1
<1>4. Ordered(s \o t)
  BY <1>2, <1>3 DEF Ordered, NoneTwice, InCorrectOrder
<1> QED
  BY <1>4, NamesJoined

LEMMA PartOrdered ==
  ASSUME NEW H, NEW s \in Seq(H), NEW places \in SUBSET (1 .. Len(s)),
         NEW part \in Seq(H), PartOf(part, s, places), Ordered(s)
  PROVE  Ordered(part) /\ Names(part) = {s[i].name : i \in places}
<1> DEFINE size == Len(part)
<1>1. PICK e \in [1 .. size -> places] :
        /\ \A i \in places : \E k \in 1 .. size : e[k] = i
        /\ \A k, l \in 1 .. size : k < l => e[k] < e[l]
        /\ \A k \in 1 .. size : part[k] = s[e[k]]
  BY DEF PartOf
<1>2. size \in Nat /\ Len(s) \in Nat
  OBVIOUS
<1> HIDE DEF size
<1>3. \A k \in 1 .. size : e[k] \in 1 .. Len(s)
  OBVIOUS
<1>4. InCorrectOrder(part)
  <2> SUFFICES ASSUME NEW k \in 1 .. size, NEW l \in 1 .. size, k < l,
                      NEW p \in Place(part[k].name),
                      NEW q \in Place(part[l].name)
               PROVE  p < q
    BY DEF InCorrectOrder, size
  <2>1. e[k] < e[l] /\ e[k] \in 1 .. Len(s) /\ e[l] \in 1 .. Len(s)
    BY <1>1, <1>3
  <2>2. p \in Place(s[e[k]].name) /\ q \in Place(s[e[l]].name)
    BY <1>1
  <2> QED
    BY <2>1, <2>2 DEF Ordered, InCorrectOrder
<1>5. NoneTwice(part)
  <2> SUFFICES ASSUME NEW k \in 1 .. size, NEW l \in 1 .. size,
                      part[k].name = part[l].name
               PROVE  k = l
    BY DEF NoneTwice, size
  <2>1. e[k] = e[l]
    BY <1>1, <1>3 DEF Ordered, NoneTwice
  <2>2. e[k] \in Nat /\ k \in Nat /\ l \in Nat
    BY <1>2, <1>3
  <2>3. ~(k < l) /\ ~(l < k)
    BY <1>1, <2>1, <2>2
  <2> QED
    BY <2>2, <2>3
<1>6. Names(part) = {s[i].name : i \in places}
  <2>1. ASSUME NEW k \in 1 .. size
        PROVE  part[k].name \in {s[i].name : i \in places}
    BY <1>1
  <2>2. ASSUME NEW i \in places
        PROVE  \E k \in 1 .. size : part[k].name = s[i].name
    BY <1>1
  <2> QED
    BY <2>1, <2>2 DEF Names, size
<1> QED
  BY <1>4, <1>5, <1>6 DEF Ordered

\* A header to every place from one on.
LEMMA InRow ==
  ASSUME NEW H, NEW s \in Seq(H), NEW c \in Nat,
         \A i \in 1 .. Len(s) : Place(s[i].name) = {c + i}
  PROVE  Ordered(s)
<1>1. InCorrectOrder(s)
  <2> SUFFICES ASSUME NEW i \in 1 .. Len(s), NEW j \in 1 .. Len(s), i < j,
                      NEW p \in Place(s[i].name), NEW q \in Place(s[j].name)
               PROVE  p < q
    BY DEF InCorrectOrder
  <2>1. p = c + i /\ q = c + j
    OBVIOUS
  <2> QED
    BY <2>1
<1>2. NoneTwice(s)
  <2> SUFFICES ASSUME NEW i \in 1 .. Len(s), NEW j \in 1 .. Len(s),
                      s[i].name = s[j].name
               PROVE  i = j
    BY DEF NoneTwice
  <2>1. {c + i} = {c + j}
    OBVIOUS
  <2> QED
    BY <2>1
<1> QED
  BY <1>1, <1>2 DEF Ordered

-----------------------------------------------------------------------------
(***************************************************************************)
(* The headers of one device.                                              *)
(***************************************************************************)
OfAnyDevice ==
  {"authorization", "l-grindr-roles", "accept", "user-agent", "l-locale",
   "accept-language", "accept-encoding", "range", "requirerealdeviceinfo",
   "requireanondeviceinfo", "content-type", "content-length",
   "x-grindr-captcha-token", "x-key-id", "x-timestamp", "x-nonce", "upgrade",
   "connection", "sec-websocket-key", "sec-websocket-version",
   "sec-websocket-extensions"}

HeadersOf(d, signature) ==
  {Plain(name) : name \in OfAnyDevice}
    \union {Header("l-time-zone", [timezone |-> d.timezone]),
            Header("l-device-info", build_device_info_header(d)),
            Header("user-agent", build_user_agent(d)),
            Header("user-agent", build_platform_user_agent(d)),
            Header("x-sig", signature)}

LEMMA PlainOf ==
  ASSUME NEW d, NEW signature, NEW name \in OfAnyDevice
  PROVE  Plain(name) \in HeadersOf(d, signature)
BY DEF HeadersOf

LEMMA OneHeader ==
  ASSUME NEW H, NEW h \in H
  PROVE  /\ <<h>> \in Seq(H) /\ Ordered(<<h>>) /\ Names(<<h>>) = {h.name}
<1>1. <<h>> \in Seq(H) /\ Len(<<h>>) = 1 /\ <<h>>[1] = h
  OBVIOUS
<1> QED
  BY <1>1 DEF Ordered, NoneTwice, InCorrectOrder, Names

LEMMA NoHeader ==
  ASSUME NEW H
  PROVE  <<>> \in Seq(H) /\ Ordered(<<>>) /\ Names(<<>>) = {}
BY DEF Ordered, NoneTwice, InCorrectOrder, Names

LEMMA HeaderOrNone ==
  ASSUME NEW H, NEW h \in H, NEW condition \in BOOLEAN
  PROVE  /\ OnlyIf(condition, h) \in Seq(H) /\ Ordered(OnlyIf(condition, h))
         /\ Names(OnlyIf(condition, h)) = IF condition THEN {h.name} ELSE {}
BY OneHeader, NoHeader DEF OnlyIf

LEMMA Places ==
  /\ Place("authorization") = {1} /\ Place("l-time-zone") = {2}
  /\ Place("l-grindr-roles") = {3} /\ Place("l-device-info") = {4}
  /\ Place("accept") = {5} /\ Place("user-agent") = {6}
  /\ Place("l-locale") = {7} /\ Place("accept-language") = {8}
  /\ Place("accept-encoding") = {9}
  /\ \A name \in {"requirerealdeviceinfo", "requireanondeviceinfo",
                  "content-type", "content-length", "x-grindr-captcha-token",
                  "x-key-id", "x-sig", "x-timestamp", "x-nonce", "upgrade",
                  "connection", "sec-websocket-key", "sec-websocket-version",
                  "sec-websocket-extensions", "range"} : Place(name) = {}
BY DEF Place, CorrectOrder

\* Of a device and user agent: GrindrHeaders.
LEMMA BuildOf ==
  ASSUME NEW d, NEW signature, NEW authorized \in BOOLEAN
  PROVE  LET s == build(d, build_user_agent(d), authorized) IN
         /\ s \in Seq(HeadersOf(d, signature)) /\ Ordered(s)
         /\ Names(s) = (IF authorized THEN {"authorization", "l-grindr-roles"} ELSE {})
              \union {"l-time-zone", "l-device-info", "accept", "user-agent",
                      "l-locale", "accept-language", "accept-encoding"}
<1> DEFINE H == HeadersOf(d, signature)
           first == OnlyIf(authorized, Plain("authorization"))
           zone == <<Header("l-time-zone", [timezone |-> d.timezone])>>
           roles == OnlyIf(authorized, Plain("l-grindr-roles"))
           others == <<Header("l-device-info", build_device_info_header(d)),
                       Plain("accept"),
                       Header("user-agent", build_user_agent(d)),
                       Plain("l-locale"), Plain("accept-language"),
                       Plain("accept-encoding")>>
<1>0. /\ Plain("accept") \in H /\ Plain("l-locale") \in H
      /\ Plain("accept-language") \in H /\ Plain("accept-encoding") \in H
      /\ Plain("authorization") \in H /\ Plain("l-grindr-roles") \in H
  <2>1. {"accept", "l-locale", "accept-language", "accept-encoding",
         "authorization", "l-grindr-roles"} \subseteq OfAnyDevice
    BY DEF OfAnyDevice
  <2> QED
    BY <2>1, PlainOf
<1>1. /\ Plain("authorization") \in H /\ Plain("authorization").name = "authorization"
      /\ Plain("l-grindr-roles") \in H /\ Plain("l-grindr-roles").name = "l-grindr-roles"
      /\ Header("l-time-zone", [timezone |-> d.timezone]) \in H
      /\ Header("l-time-zone", [timezone |-> d.timezone]).name = "l-time-zone"
  BY <1>0 DEF HeadersOf, Header, Plain
<1>2. /\ first \in Seq(H) /\ Ordered(first)
      /\ Names(first) = IF authorized THEN {"authorization"} ELSE {}
  BY <1>1, HeaderOrNone
<1>3. zone \in Seq(H) /\ Ordered(zone) /\ Names(zone) = {"l-time-zone"}
  BY <1>1, OneHeader
<1>4. /\ roles \in Seq(H) /\ Ordered(roles)
      /\ Names(roles) = IF authorized THEN {"l-grindr-roles"} ELSE {}
  BY <1>1, HeaderOrNone
<1>5. /\ others \in Seq(H) /\ Ordered(others)
      /\ Names(others) = {"l-device-info", "accept", "user-agent", "l-locale",
                          "accept-language", "accept-encoding"}
  <2>1. others \in Seq(H)
    <3>1. /\ Header("l-device-info", build_device_info_header(d)) \in H
          /\ Header("user-agent", build_user_agent(d)) \in H
      BY DEF HeadersOf
    <3> QED
      BY <1>0, <3>1
  <2>2. Len(others) = 6
    OBVIOUS
  <2>3. /\ others[1].name = "l-device-info" /\ others[2].name = "accept"
        /\ others[3].name = "user-agent" /\ others[4].name = "l-locale"
        /\ others[5].name = "accept-language" /\ others[6].name = "accept-encoding"
    BY DEF Header, Plain
  <2> HIDE DEF others
  <2>4. \A i \in 1 .. Len(others) : Place(others[i].name) = {3 + i}
    BY <2>2, <2>3, Places
  <2>5. Ordered(others)
    BY <2>1, <2>4, InRow
  <2> QED
    BY <2>1, <2>2, <2>3, <2>5 DEF Names
<1> HIDE DEF H, first, zone, roles, others
<1>6. PICK a : a = first \o zone
  OBVIOUS
<1>7. PICK b : b = a \o roles
  OBVIOUS
<1>8. /\ OfTwoNames(Names(first), Names(zone))
      /\ OfTwoNames(Names(first) \union Names(zone), Names(roles))
      /\ OfTwoNames(Names(first) \union Names(zone) \union Names(roles), Names(others))
  BY <1>2, <1>3, <1>4, <1>5, Places DEF OfTwoNames
<1>9. /\ a \in Seq(H) /\ Ordered(a)
      /\ Names(a) = Names(first) \union Names(zone)
  <2>1. /\ first \in Seq(H) /\ Ordered(first)
        /\ zone \in Seq(H) /\ Ordered(zone)
    BY <1>2, <1>3
  <2>2. OfTwoNames(Names(first), Names(zone))
    BY <1>8
  <2> QED
    BY <1>6, <2>1, <2>2, Joined
<1>10. /\ b \in Seq(H) /\ Ordered(b)
       /\ Names(b) = Names(first) \union Names(zone) \union Names(roles)
  <2>1. a \in Seq(H) /\ Ordered(a) /\ OfTwoNames(Names(a), Names(roles))
    BY <1>8, <1>9
  <2>2. roles \in Seq(H) /\ Ordered(roles)
    BY <1>4
  <2>3. /\ b \in Seq(H) /\ Ordered(b)
        /\ Names(b) = Names(a) \union Names(roles)
    BY <1>7, <2>1, <2>2, Joined
  <2> QED
    BY <1>9, <2>3
<1>11. /\ b \o others \in Seq(H) /\ Ordered(b \o others)
       /\ Names(b \o others) = Names(first) \union Names(zone)
                                  \union Names(roles) \union Names(others)
  <2>1. b \in Seq(H) /\ Ordered(b) /\ OfTwoNames(Names(b), Names(others))
    BY <1>8, <1>10
  <2>2. others \in Seq(H) /\ Ordered(others)
    BY <1>5
  <2>3. /\ b \o others \in Seq(H) /\ Ordered(b \o others)
        /\ Names(b \o others) = Names(b) \union Names(others)
    BY <2>1, <2>2, Joined
  <2> QED
    BY <1>10, <2>3
<1>12. Names(b \o others)
        = (IF authorized THEN {"authorization", "l-grindr-roles"} ELSE {})
            \union {"l-time-zone", "l-device-info", "accept", "user-agent",
                    "l-locale", "accept-language", "accept-encoding"}
  BY <1>2, <1>3, <1>4, <1>5, <1>11
<1>13. build(d, build_user_agent(d), authorized) = b \o others
  BY <1>6, <1>7 DEF build, first, zone, roles, others
<1> QED
  BY <1>11, <1>12, <1>13 DEF H

LEMMA PlaceIsOfOne ==
  \A name : \A p \in Place(name) : p \in 1 .. 9 /\ CorrectOrder[p] = name
BY DEF Place, CorrectOrder

\* The content coding goes last of all, whatever goes before.
LEMMA CodingLast ==
  ASSUME NEW before
  PROVE  "accept-encoding" \notin before => OfTwoNames(before, {"accept-encoding"})
<1> SUFFICES ASSUME "accept-encoding" \notin before, NEW a \in before,
                    NEW p \in Place(a)
             PROVE  p < 9
  BY Places DEF OfTwoNames
<1>1. p \in 1 .. 9 /\ CorrectOrder[p] = a
  BY PlaceIsOfOne
<1>2. CorrectOrder[9] = "accept-encoding"
  BY DEF CorrectOrder
<1> QED
  BY <1>1, <1>2

\* What has no place may go anywhere.
LEMMA OfNoPlace ==
  ASSUME NEW before, NEW after, before \cap after = {},
         \/ \A name \in after : Place(name) = {}
         \/ \A name \in before : Place(name) = {}
  PROVE  OfTwoNames(before, after)
BY DEF OfTwoNames

LEMMA ApplyOf ==
  ASSUME NEW H, NEW s \in Seq(H), NEW body \in Seq(H), Ordered(s),
         Ordered(body), Names(s) \cap Names(body) = {},
         "accept-encoding" \in Names(s),
         \A name \in Names(body) : Place(name) = {}
  PROVE  LET r == apply_headers_then_body(s, body) IN
         /\ r \in Seq(H) /\ Ordered(r)
         /\ Names(r) = Names(s) \union Names(body)
         /\ r # <<>> /\ IsEncoding(r[Len(r)])
<1>1. PICK a, z : a = Kept(s, Others(s)) /\ z = Kept(s, Encodings(s))
  OBVIOUS
<1>2. /\ Others(s) \in SUBSET (1 .. Len(s)) /\ Encodings(s) \in SUBSET (1 .. Len(s))
      /\ 1 .. Len(s) = Others(s) \union Encodings(s)
  BY DEF Others, Encodings
<1>3. /\ a \in Seq(H) /\ Ordered(a)
      /\ Names(a) = {s[i].name : i \in Others(s)}
  <2>1. a \in Seq(H) /\ PartOf(a, s, Others(s))
    BY <1>1, <1>2, KeptOf
  <2> QED
    BY <1>2, <2>1, PartOrdered
<1>4. /\ z \in Seq(H) /\ Ordered(z)
      /\ Names(z) = {s[i].name : i \in Encodings(s)}
  <2>1. z \in Seq(H) /\ PartOf(z, s, Encodings(s))
    BY <1>1, <1>2, KeptOf
  <2> QED
    BY <1>2, <2>1, PartOrdered
<1>5. Names(z) = {"accept-encoding"}
  BY <1>4 DEF Names, Encodings, IsEncoding
<1>6. "accept-encoding" \notin Names(a)
  BY <1>3 DEF Others, IsEncoding
<1>7. Names(s) = Names(a) \union Names(z)
  BY <1>2, <1>3, <1>4 DEF Names
<1>8. PICK b : b = a \o body
  OBVIOUS
<1>9. b \in Seq(H) /\ Ordered(b) /\ Names(b) = Names(a) \union Names(body)
  <2>1. OfTwoNames(Names(a), Names(body))
    BY <1>7, OfNoPlace
  <2>2. a \in Seq(H) /\ Ordered(a)
    BY <1>3
  <2> QED
    BY <1>8, <2>1, <2>2, Joined
<1>10. /\ b \o z \in Seq(H) /\ Ordered(b \o z)
       /\ Names(b \o z) = Names(b) \union Names(z)
  <2>1. OfTwoNames(Names(b), Names(z))
    BY <1>5, <1>6, <1>9, CodingLast
  <2>2. b \in Seq(H) /\ Ordered(b) /\ z \in Seq(H) /\ Ordered(z)
    BY <1>4, <1>9
  <2> QED
    BY <2>1, <2>2, Joined
<1>11. Len(z) \in 1 .. Len(z) /\ z[Len(z)].name = "accept-encoding"
  <2>1. Len(z) \in Nat
    BY <1>4
  <2>2. \A i \in 1 .. Len(z) : z[i].name = "accept-encoding"
    BY <1>5 DEF Names
  <2>3. 1 .. Len(z) # {}
    BY <1>5 DEF Names
  <2>4. Len(z) \in 1 .. Len(z)
    BY <2>1, <2>3
  <2> QED
    BY <2>2, <2>4
<1>12. b \o z # <<>> /\ (b \o z)[Len(b \o z)] = z[Len(z)]
  BY <1>4, <1>9, <1>11
<1>13. apply_headers_then_body(s, body) = b \o z
  BY <1>1, <1>8 DEF apply_headers_then_body
<1>14. Names(b \o z) = Names(s) \union Names(body)
  BY <1>7, <1>9, <1>10
<1> QED
  BY <1>10, <1>11, <1>12, <1>13, <1>14 DEF IsEncoding

OwnNames ==
  {"authorization", "l-grindr-roles", "l-time-zone", "l-device-info", "accept",
   "user-agent", "l-locale", "accept-language", "accept-encoding",
   "x-grindr-captcha-token"}

\* What the headers of the body and the signature are put to.
LEMMA OwnOf ==
  ASSUME NEW d, NEW signature, NEW authorized \in BOOLEAN, NEW captchaToo
  PROVE  LET s == build(d, build_user_agent(d), authorized)
                    \o OnlyIf(captchaToo, CaptchaHeader) IN
         /\ s \in Seq(HeadersOf(d, signature)) /\ Ordered(s)
         /\ Names(s) \subseteq OwnNames /\ "accept-encoding" \in Names(s)
<1> DEFINE built == build(d, build_user_agent(d), authorized)
           more == OnlyIf(captchaToo, CaptchaHeader)
<1>1. PICK H : H = HeadersOf(d, signature)
  OBVIOUS
<1>2. /\ built \in Seq(H) /\ Ordered(built)
      /\ Names(built) \subseteq OwnNames \ {"x-grindr-captcha-token"}
      /\ "accept-encoding" \in Names(built)
  BY <1>1, BuildOf DEF OwnNames
<1>3. /\ more \in Seq(H) /\ Ordered(more)
      /\ Names(more) \subseteq {"x-grindr-captcha-token"}
  <2>1. /\ CaptchaHeader \in H
        /\ CaptchaHeader.name = "x-grindr-captcha-token"
    <3>1. "x-grindr-captcha-token" \in OfAnyDevice
      BY DEF OfAnyDevice
    <3> QED
      BY <1>1, <3>1, PlainOf DEF CaptchaHeader, Plain, Header
  <2>2. CASE captchaToo
    BY <2>1, <2>2, OneHeader DEF OnlyIf
  <2>3. CASE ~captchaToo
    BY <2>3, NoHeader DEF OnlyIf
  <2> QED
    BY <2>2, <2>3
<1> HIDE DEF built, more
<1>4. OfTwoNames(Names(built), Names(more))
  <2>1. \A name \in Names(more) : Place(name) = {}
    BY <1>3, Places
  <2>2. Names(built) \cap Names(more) = {}
    BY <1>2, <1>3
  <2> QED
    BY <2>1, <2>2, OfNoPlace
<1>5. /\ built \o more \in Seq(H) /\ Ordered(built \o more)
      /\ Names(built \o more) = Names(built) \union Names(more)
  <2>1. built \in Seq(H) /\ Ordered(built) /\ more \in Seq(H) /\ Ordered(more)
    BY <1>2, <1>3
  <2> QED
    BY <1>4, <2>1, Joined
<1>6. /\ Names(built \o more) \subseteq OwnNames
      /\ "accept-encoding" \in Names(built \o more)
  BY <1>2, <1>3, <1>5 DEF OwnNames
<1> QED
  BY <1>1, <1>5, <1>6 DEF built, more

\* Two headers, or more, that have no place.
LEMMA BodyHeadersOf ==
  ASSUME NEW d, NEW signature
  PROVE  /\ BodyHeaders \in Seq(HeadersOf(d, signature)) /\ Ordered(BodyHeaders)
         /\ Names(BodyHeaders) = {"content-type", "content-length"}
<1>1. /\ Plain("content-type") \in HeadersOf(d, signature)
      /\ Plain("content-length") \in HeadersOf(d, signature)
  <2>1. {"content-type", "content-length"} \subseteq OfAnyDevice
    BY DEF OfAnyDevice
  <2> QED
    BY <2>1, PlainOf
<1>2. /\ Len(BodyHeaders) = 2 /\ BodyHeaders[1].name = "content-type"
      /\ BodyHeaders[2].name = "content-length"
  BY DEF BodyHeaders, Plain, Header
<1>3. Names(BodyHeaders) = {"content-type", "content-length"}
  BY <1>2 DEF Names
<1>4. Ordered(BodyHeaders)
  BY <1>2, Places DEF Ordered, NoneTwice, InCorrectOrder
<1> QED
  BY <1>1, <1>3, <1>4 DEF BodyHeaders

SignatureNames == {"x-key-id", "x-sig", "x-timestamp", "x-nonce", "content-type"}

LEMMA SignatureHeadersOf ==
  ASSUME NEW d, NEW signature
  PROVE  LET s == SignatureHeaders(signature) IN
         /\ s \in Seq(HeadersOf(d, signature)) /\ Ordered(s)
         /\ Names(s) = SignatureNames
<1> DEFINE s == SignatureHeaders(signature)
<1>1. /\ Plain("x-key-id") \in HeadersOf(d, signature)
      /\ Plain("x-timestamp") \in HeadersOf(d, signature)
      /\ Plain("x-nonce") \in HeadersOf(d, signature)
      /\ Plain("content-type") \in HeadersOf(d, signature)
      /\ Header("x-sig", signature) \in HeadersOf(d, signature)
  <2>1. {"x-key-id", "x-timestamp", "x-nonce", "content-type"} \subseteq OfAnyDevice
    BY DEF OfAnyDevice
  <2>2. Header("x-sig", signature) \in HeadersOf(d, signature)
    BY DEF HeadersOf
  <2> QED
    BY <2>1, <2>2, PlainOf
<1>2. s \in Seq(HeadersOf(d, signature))
  BY <1>1 DEF SignatureHeaders
<1>3. /\ Len(s) = 5 /\ s[1].name = "x-key-id" /\ s[2].name = "x-sig"
      /\ s[3].name = "x-timestamp" /\ s[4].name = "x-nonce"
      /\ s[5].name = "content-type"
  BY DEF SignatureHeaders, Plain, Header
<1> HIDE DEF s
<1>4. Names(s) = SignatureNames
  BY <1>3 DEF Names, SignatureNames
<1>5. NoneTwice(s)
  BY <1>3 DEF NoneTwice
<1>6. \A i \in 1 .. Len(s) : Place(s[i].name) = {}
  <2>1. \A name \in SignatureNames : Place(name) = {}
    BY Places DEF SignatureNames
  <2>2. \A i \in 1 .. Len(s) : s[i].name \in SignatureNames
    BY <1>4 DEF Names
  <2> QED
    BY <2>1, <2>2
<1>7. InCorrectOrder(s)
  BY <1>6 DEF InCorrectOrder
<1> QED
  BY <1>2, <1>4, <1>5, <1>7 DEF Ordered, s

LEMMA RequiredOf ==
  ASSUME NEW d, NEW signature, NEW required
  PROVE  LET s == RequiredDeviceInfo(required) IN
         /\ s \in Seq(HeadersOf(d, signature)) /\ Ordered(s)
         /\ Names(s) \subseteq {"requirerealdeviceinfo", "requireanondeviceinfo"}
<1>1. /\ Plain("requirerealdeviceinfo") \in HeadersOf(d, signature)
      /\ Plain("requireanondeviceinfo") \in HeadersOf(d, signature)
  <2>1. {"requirerealdeviceinfo", "requireanondeviceinfo"} \subseteq OfAnyDevice
    BY DEF OfAnyDevice
  <2> QED
    BY <2>1, PlainOf
<1>2. /\ Plain("requirerealdeviceinfo").name = "requirerealdeviceinfo"
      /\ Plain("requireanondeviceinfo").name = "requireanondeviceinfo"
  BY DEF Plain, Header
<1>3. CASE required = "real"
  BY <1>1, <1>2, <1>3, OneHeader DEF RequiredDeviceInfo
<1>4. CASE required = "anonymous"
  BY <1>1, <1>2, <1>4, OneHeader DEF RequiredDeviceInfo
<1>5. CASE required \notin {"real", "anonymous"}
  BY <1>5, NoHeader DEF RequiredDeviceInfo
<1> QED
  BY <1>3, <1>4, <1>5

\* Of an attempt of the API, before it is signed.
LEMMA ComposedOf ==
  ASSUME NEW c, NEW d, NEW signature, c.request.session \in BOOLEAN
  PROVE  LET s == Composed(c, build_fingerprint(d)) IN
         /\ s \in Seq(HeadersOf(d, signature)) /\ Ordered(s)
         /\ Body(c) = "signed" => Names(s) \cap SignatureNames = {}
         /\ Body(c) # "signed" => s # <<>> /\ IsEncoding(s[Len(s)])
<1>1. PICK H : H = HeadersOf(d, signature)
  OBVIOUS
<1>2. PICK own : own = build(d, build_user_agent(d), c.request.session)
                         \o OnlyIf(c.stage = "register" /\ c.token, CaptchaHeader)
  OBVIOUS
<1>3. /\ own \in Seq(H) /\ Ordered(own)
      /\ Names(own) \subseteq OwnNames /\ "accept-encoding" \in Names(own)
  BY <1>1, <1>2, OwnOf
<1>4. PICK rest : rest = CASE Body(c) = "signed" -> own
                           [] Body(c) = "empty" -> apply_headers_then_body(own, <<>>)
                           [] OTHER -> apply_headers_then_body(own, BodyHeaders)
  OBVIOUS
<1>5. /\ rest \in Seq(H) /\ Ordered(rest)
      /\ Names(rest) \subseteq OwnNames \union {"content-type", "content-length"}
      /\ Body(c) = "signed" => Names(rest) \subseteq OwnNames
      /\ Body(c) # "signed" => rest # <<>> /\ IsEncoding(rest[Len(rest)])
  <2>1. CASE Body(c) = "signed"
    BY <1>3, <1>4, <2>1
  <2>2. ASSUME NEW body \in Seq(H), Ordered(body), Body(c) # "signed",
               Names(body) \subseteq {"content-type", "content-length"},
               rest = apply_headers_then_body(own, body)
        PROVE  /\ rest \in Seq(H) /\ Ordered(rest)
               /\ Names(rest) \subseteq OwnNames \union {"content-type", "content-length"}
               /\ rest # <<>> /\ IsEncoding(rest[Len(rest)])
    <3>1. /\ \A name \in Names(body) : Place(name) = {}
          /\ Names(own) \cap Names(body) = {}
      BY <1>3, <2>2, Places DEF OwnNames
    <3>2. /\ rest \in Seq(H) /\ Ordered(rest)
          /\ Names(rest) = Names(own) \union Names(body)
          /\ rest # <<>> /\ IsEncoding(rest[Len(rest)])
      BY <1>3, <2>2, <3>1, ApplyOf
    <3> QED
      BY <1>3, <2>2, <3>2
  <2>3. CASE Body(c) = "empty"
    <3>1. rest = apply_headers_then_body(own, <<>>)
      BY <1>4, <2>3
    <3>2. /\ <<>> \in Seq(H) /\ Ordered(<<>>)
          /\ Names(<<>>) \subseteq {"content-type", "content-length"}
      BY NoHeader
    <3> QED
      BY <2>2, <2>3, <3>1, <3>2
  <2>4. CASE Body(c) \notin {"signed", "empty"}
    <3>1. rest = apply_headers_then_body(own, BodyHeaders)
      BY <1>4, <2>4
    <3>2. /\ BodyHeaders \in Seq(H) /\ Ordered(BodyHeaders)
          /\ Names(BodyHeaders) \subseteq {"content-type", "content-length"}
      BY <1>1, BodyHeadersOf
    <3> QED
      BY <2>2, <2>4, <3>1, <3>2
  <2> QED
    BY <2>1, <2>3, <2>4
<1>6. PICK required : required = RequiredDeviceInfo(c.request.required)
  OBVIOUS
<1>7. /\ required \in Seq(H) /\ Ordered(required)
      /\ Names(required) \subseteq {"requirerealdeviceinfo", "requireanondeviceinfo"}
  BY <1>1, <1>6, RequiredOf
<1>8. OfTwoNames(Names(required), Names(rest))
  <2>1. \A name \in Names(required) : Place(name) = {}
    BY <1>7, Places
  <2>2. Names(required) \cap Names(rest) = {}
    BY <1>5, <1>7 DEF OwnNames
  <2> QED
    BY <2>1, <2>2, OfNoPlace
<1>9. /\ required \o rest \in Seq(H) /\ Ordered(required \o rest)
      /\ Names(required \o rest) = Names(required) \union Names(rest)
  BY <1>5, <1>7, <1>8, Joined
<1>10. Composed(c, build_fingerprint(d)) = required \o rest
  BY <1>2, <1>4, <1>6 DEF Composed, build_fingerprint
<1>11. Body(c) = "signed" => Names(required \o rest) \cap SignatureNames = {}
  BY <1>5, <1>7, <1>9 DEF OwnNames, SignatureNames
<1>12. ASSUME Body(c) # "signed"
       PROVE  /\ required \o rest # <<>>
              /\ IsEncoding((required \o rest)[Len(required \o rest)])
  <2>1. rest # <<>> /\ IsEncoding(rest[Len(rest)])
    BY <1>5, <1>12
  <2>2. /\ required \o rest # <<>>
        /\ (required \o rest)[Len(required \o rest)] = rest[Len(rest)]
    BY <1>5, <1>7, <2>1
  <2> QED
    BY <2>1, <2>2
<1> QED
  BY <1>1, <1>9, <1>10, <1>11, <1>12

\* And after.
LEMMA SignedOf ==
  ASSUME NEW c, NEW d, NEW signature, c.request.session \in BOOLEAN,
         Body(c) = "signed"
  PROVE  LET s == Composed(c, build_fingerprint(d)) \o SignatureHeaders(signature)
         IN  s \in Seq(HeadersOf(d, signature)) /\ Ordered(s)
<1>1. PICK H : H = HeadersOf(d, signature)
  OBVIOUS
<1>2. PICK s : s = Composed(c, build_fingerprint(d))
  OBVIOUS
<1>3. PICK t : t = SignatureHeaders(signature)
  OBVIOUS
<1>4. s \in Seq(H) /\ Ordered(s) /\ Names(s) \cap SignatureNames = {}
  BY <1>1, <1>2, ComposedOf
<1>5. t \in Seq(H) /\ Ordered(t) /\ Names(t) = SignatureNames
  BY <1>1, <1>3, SignatureHeadersOf
<1>6. OfTwoNames(Names(s), Names(t))
  <2>1. \A name \in Names(t) : Place(name) = {}
    BY <1>5, Places DEF SignatureNames
  <2> QED
    BY <1>4, <1>5, <2>1, OfNoPlace
<1>7. s \o t \in Seq(H) /\ Ordered(s \o t)
  BY <1>4, <1>5, <1>6, Joined
<1> QED
  BY <1>1, <1>2, <1>3, <1>7

-----------------------------------------------------------------------------
(***************************************************************************)
(* The handshake of the websocket, and the fetches of media.               *)
(***************************************************************************)
HandshakeNames ==
  OfAnyDevice \union {"l-time-zone", "l-device-info"}

\* The order of a handshake is the documented one wherever both have a say.
LEMMA HandshakeOrder ==
  /\ OKHTTP_WS_HEADER_ORDER \in Seq(HandshakeNames)
  /\ Len(OKHTTP_WS_HEADER_ORDER) = 14
  /\ OKHTTP_WS_HEADER_ORDER[14] = "accept-encoding"
  /\ \A i, j \in 1 .. 14 :
       OKHTTP_WS_HEADER_ORDER[i] = OKHTTP_WS_HEADER_ORDER[j] => i = j
  /\ \A i \in 1 .. 14 : \A p \in Place(OKHTTP_WS_HEADER_ORDER[i]) :
       (i <= 8 /\ p = i) \/ (i = 14 /\ p = 9)
<1>1. OKHTTP_WS_HEADER_ORDER \in Seq(HandshakeNames)
  BY DEF OKHTTP_WS_HEADER_ORDER, HandshakeNames, OfAnyDevice
<1>2. /\ Len(OKHTTP_WS_HEADER_ORDER) = 14
      /\ OKHTTP_WS_HEADER_ORDER[14] = "accept-encoding"
      /\ \A i, j \in 1 .. 14 :
           OKHTTP_WS_HEADER_ORDER[i] = OKHTTP_WS_HEADER_ORDER[j] => i = j
  BY DEF OKHTTP_WS_HEADER_ORDER
<1>3. \A i \in 1 .. 14 : \A p \in Place(OKHTTP_WS_HEADER_ORDER[i]) :
        (i <= 8 /\ p = i) \/ (i = 14 /\ p = 9)
  BY DEF OKHTTP_WS_HEADER_ORDER, Place, CorrectOrder
<1> QED
  BY <1>1, <1>2, <1>3

LEMMA WrittenOf ==
  ASSUME NEW H, NEW s \in Seq(H), NEW name,
         name \in Names(s) \/ Plain(name) \in H
  PROVE  Written(s, name) \in H /\ Written(s, name).name = name
<1>1. CASE name \in Names(s)
  <2>1. \E i \in 1 .. Len(s) : s[i].name = name
    BY <1>1 DEF Names
  <2> DEFINE i == CHOOSE i \in 1 .. Len(s) : s[i].name = name
  <2>2. i \in 1 .. Len(s) /\ s[i].name = name
    BY <2>1
  <2>3. Written(s, name) = s[i]
    BY <1>1 DEF Written
  <2> HIDE DEF i
  <2> QED
    BY <2>2, <2>3
<1>2. CASE name \notin Names(s)
  BY <1>2 DEF Written, Plain, Header
<1> QED
  BY <1>1, <1>2

LEMMA HandshakeOf ==
  ASSUME NEW d, NEW signature, NEW offer_deflate \in BOOLEAN
  PROVE  LET s == ws_headers(d, build_user_agent(d), offer_deflate) IN
         /\ s \in Seq(HeadersOf(d, signature)) /\ Ordered(s)
         /\ s # <<>> /\ IsEncoding(s[Len(s)])
<1>1. PICK H : H = HeadersOf(d, signature)
  OBVIOUS
<1>2. PICK built : built = build(d, build_user_agent(d), TRUE)
  OBVIOUS
<1>3. PICK more : more = OnlyIf(offer_deflate, Plain("sec-websocket-extensions"))
  OBVIOUS
<1>4. built \in Seq(H) /\ "accept-encoding" \in Names(built)
  BY <1>1, <1>2, BuildOf
<1>5. more \in Seq(H)
  <2>1. "sec-websocket-extensions" \in OfAnyDevice
    BY DEF OfAnyDevice
  <2>2. Plain("sec-websocket-extensions") \in H
    BY <1>1, <2>1, PlainOf
  <2> QED
    BY <1>3, <2>2, HeaderOrNone
<1>6. PICK sent : sent = built \o more
  OBVIOUS
<1>7. sent \in Seq(H) /\ "accept-encoding" \in Names(sent)
  BY <1>4, <1>5, <1>6, NamesJoined
<1> DEFINE all == OKHTTP_WS_HEADER_ORDER
           places == {i \in 1 .. Len(all) :
                        all[i] \in Handshake \union Names(sent)}
           s == ws_headers(d, build_user_agent(d), offer_deflate)
<1>8. /\ places \in SUBSET (1 .. Len(all)) /\ all \in Seq(HandshakeNames)
      /\ places \in SUBSET (1 .. 14) /\ 14 \in places
  BY <1>7, HandshakeOrder
<1>9. PICK order : order = Kept(all, places)
  OBVIOUS
<1>10. s = [i \in 1 .. Len(order) |-> Written(sent, order[i])]
  BY <1>2, <1>3, <1>6, <1>9 DEF ws_headers, WsOrder
<1> DEFINE size == Len(order)
<1> HIDE DEF s, places, all
<1>11. order \in Seq(HandshakeNames) /\ PartOf(order, all, places)
  BY <1>8, <1>9, KeptOf
<1>p. size \in Nat
  BY <1>11
<1>12. PICK e \in [1 .. size -> places] :
         /\ \A i \in places : \E k \in 1 .. size : e[k] = i
         /\ \A k, l \in 1 .. size : k < l => e[k] < e[l]
         /\ \A k \in 1 .. size : order[k] = all[e[k]]
  BY <1>11 DEF PartOf
<1> HIDE DEF size
<1>13. \A k \in 1 .. size : e[k] \in 1 .. 14 /\ order[k] \in Handshake \union Names(sent)
  BY <1>8, <1>12 DEF places
<1>14. ASSUME NEW k \in 1 .. size
       PROVE  s[k] \in H /\ s[k].name = all[e[k]]
  <2>1. order[k] \in Names(sent) \/ Plain(order[k]) \in H
    <3>1. Handshake \subseteq OfAnyDevice
      BY DEF Handshake, OfAnyDevice
    <3> QED
      BY <1>1, <1>13, <3>1, PlainOf
  <2>2. Written(sent, order[k]) \in H /\ Written(sent, order[k]).name = order[k]
    BY <1>7, <2>1, WrittenOf
  <2> QED
    BY <1>10, <1>12, <2>2 DEF size
<1>15. s \in Seq(H) /\ Len(s) = size
  <2>1. s \in [1 .. size -> H]
    BY <1>10, <1>14 DEF size
  <2> QED
    BY <1>p, <2>1
<1>16. NoneTwice(s)
  <2> SUFFICES ASSUME NEW k \in 1 .. size, NEW l \in 1 .. size,
                      s[k].name = s[l].name
               PROVE  k = l
    BY <1>15 DEF NoneTwice
  <2>1. e[k] = e[l]
    BY <1>13, <1>14, HandshakeOrder DEF all
  <2>2. e[k] \in Nat /\ k \in Nat /\ l \in Nat
    BY <1>p, <1>13
  <2>3. ~(k < l) /\ ~(l < k)
    BY <1>12, <2>1, <2>2
  <2> QED
    BY <2>2, <2>3
<1>17. InCorrectOrder(s)
  <2> SUFFICES ASSUME NEW k \in 1 .. size, NEW l \in 1 .. size, k < l,
                      NEW p \in Place(s[k].name), NEW q \in Place(s[l].name)
               PROVE  p < q
    BY <1>15 DEF InCorrectOrder
  <2>1. /\ (e[k] <= 8 /\ p = e[k]) \/ (e[k] = 14 /\ p = 9)
        /\ (e[l] <= 8 /\ q = e[l]) \/ (e[l] = 14 /\ q = 9)
    BY <1>13, <1>14, HandshakeOrder DEF all
  <2>2. e[k] < e[l] /\ e[k] \in 1 .. 14 /\ e[l] \in 1 .. 14
    BY <1>12, <1>13
  <2> QED
    BY <2>1, <2>2
<1>18. s # <<>> /\ IsEncoding(s[Len(s)])
  <2>1. PICK k \in 1 .. size : e[k] = 14
    BY <1>8, <1>12
  <2>2. size \in 1 .. size
    BY <1>p, <2>1
  <2>3. ~(k < size)
    BY <1>12, <1>13, <2>1, <2>2
  <2>4. k = size
    BY <1>p, <2>3
  <2>5. s[size].name = "accept-encoding"
    BY <1>14, <2>1, <2>2, <2>4, HandshakeOrder DEF all
  <2>6. s # <<>>
    BY <1>15, <2>2
  <2> QED
    BY <1>15, <2>5, <2>6 DEF IsEncoding
<1> QED
  BY <1>1, <1>15, <1>16, <1>17, <1>18 DEF Ordered, s

LEMMA FetchOf ==
  ASSUME NEW d, NEW signature, NEW ranged \in BOOLEAN,
         NEW s \in {build_media(build_user_agent(d), ranged),
                    build_platform_media(d, ranged), build_plain(ranged)}
  PROVE  s \in Seq(HeadersOf(d, signature)) /\ NoneTwice(s)
<1>1. PICK H : H = HeadersOf(d, signature)
  OBVIOUS
<1>2. /\ Plain("accept") \in H /\ Plain("user-agent") \in H
      /\ range_or_gzip(ranged) \in H
      /\ Header("user-agent", build_user_agent(d)) \in H
      /\ Header("user-agent", build_platform_user_agent(d)) \in H
  <2>1. {"accept", "user-agent", "range", "accept-encoding"} \subseteq OfAnyDevice
    BY DEF OfAnyDevice
  <2>2. /\ Header("user-agent", build_user_agent(d)) \in H
        /\ Header("user-agent", build_platform_user_agent(d)) \in H
    BY <1>1 DEF HeadersOf
  <2> QED
    BY <1>1, <2>1, <2>2, PlainOf DEF range_or_gzip
<1>3. /\ Plain("accept").name = "accept" /\ Plain("user-agent").name = "user-agent"
      /\ range_or_gzip(ranged).name \in {"range", "accept-encoding"}
      /\ \A value : Header("user-agent", value).name = "user-agent"
  BY DEF range_or_gzip, Plain, Header
<1>4. CASE s = build_media(build_user_agent(d), ranged)
  <2>1. s = <<Plain("accept"), Header("user-agent", build_user_agent(d)),
              range_or_gzip(ranged)>>
    BY <1>4 DEF build_media
  <2>2. s \in Seq(H) /\ Len(s) = 3
    BY <1>2, <2>1
  <2>3. /\ s[1].name = "accept" /\ s[2].name = "user-agent"
        /\ s[3].name \in {"range", "accept-encoding"}
    BY <1>3, <2>1
  <2> QED
    BY <1>1, <2>2, <2>3 DEF NoneTwice
<1>5. CASE s = build_platform_media(d, ranged)
  <2>1. s = <<Header("user-agent", build_platform_user_agent(d)),
              range_or_gzip(ranged)>>
    BY <1>5 DEF build_platform_media
  <2>2. s \in Seq(H) /\ Len(s) = 2
    BY <1>2, <2>1
  <2>3. s[1].name = "user-agent" /\ s[2].name \in {"range", "accept-encoding"}
    BY <1>3, <2>1
  <2> QED
    BY <1>1, <2>2, <2>3 DEF NoneTwice
<1>6. CASE s = build_plain(ranged)
  <2>1. s = <<range_or_gzip(ranged), Plain("user-agent")>>
    BY <1>6 DEF build_plain
  <2>2. s \in Seq(H) /\ Len(s) = 2
    BY <1>2, <2>1
  <2>3. s[1].name \in {"range", "accept-encoding"} /\ s[2].name = "user-agent"
    BY <1>3, <2>1
  <2> QED
    BY <1>1, <2>2, <2>3 DEF NoneTwice
<1> QED
  BY <1>4, <1>5, <1>6

-----------------------------------------------------------------------------
(***************************************************************************)
(* WireInv is inductive.                                                   *)
(***************************************************************************)
LEMMA WireMoved ==
  ASSUME Calls, WireInv, NEW t \in Tasks, NEW label, NEW c,
         OnTheWire(label, c), Goto(t, label), Become(t, c)
  PROVE  WireInv'
<1> SUFFICES ASSUME NEW u \in Tasks PROVE OnTheWire(at'[u], call'[u])
  BY DEF WireInv
<1>1. CASE u = t
  <2>1. at'[u] = label /\ call'[u] = c
    BY <1>1 DEF Calls, Goto, Become
  <2> QED
    BY <2>1
<1>2. CASE u # t
  <2>1. at'[u] = at[u] /\ call'[u] = call[u]
    BY <1>2 DEF Calls, Goto, Become
  <2> QED
    BY <2>1 DEF WireInv
<1> QED
  BY <1>1, <1>2

LEMMA WireRelabelled ==
  ASSUME Calls, WireInv, NEW t \in Tasks, NEW label,
         OnTheWire(label, call[t]), Goto(t, label), UNCHANGED call
  PROVE  WireInv'
<1> SUFFICES ASSUME NEW u \in Tasks PROVE OnTheWire(at'[u], call'[u])
  BY DEF WireInv
<1>1. call'[u] = call[u] /\ (u = t => at'[u] = label) /\ (u # t => at'[u] = at[u])
  BY DEF Calls, Goto
<1> QED
  BY <1>1 DEF WireInv

\* Nothing is under way: all that matters is whether there is an exchange.
LEMMA NothingSent ==
  ASSUME NEW label \in WireLabels \ {"sign", "sent"}, NEW c,
         c.attempt = NoAttempt,
         label \notin {"idle", "swap", "clear", "done"} => c.stage # "none"
  PROVE  OnTheWire(label, c)
BY DEF OnTheWire

LEMMA WireEnds ==
  ASSUME Calls, WireInv, NEW t \in Tasks
  PROVE  /\ \A e : Fails(t, e) => WireInv'
         /\ \A result, a : Returns(t, result, a) => WireInv'
         /\ Goto(t, "idle") /\ Become(t, NoCall) => WireInv'
<1>1. ASSUME NEW c, c.attempt = NoAttempt, NEW label \in {"idle", "done"},
             Goto(t, label), Become(t, c)
      PROVE  WireInv'
  BY <1>1, NothingSent, WireMoved DEF WireLabels
<1>2. /\ NoCall.attempt = NoAttempt
      /\ \A e : [NoCall EXCEPT !.result = "error", !.error = e].attempt = NoAttempt
      /\ \A result, a :
           [NoCall EXCEPT !.answer = a, !.result = result].attempt = NoAttempt
  BY DEF NoCall
<1> QED
  BY <1>1, <1>2 DEF Fails, Returns

\* A label is left for another, between attempts.
LEMMA WireGoesOn ==
  ASSUME Calls, WireInv, NEW t \in Tasks,
         at[t] \notin {"idle", "swap", "clear", "sign", "sent", "done"},
         NEW label \in WireLabels \ {"sign", "sent"},
         Goto(t, label), UNCHANGED call
  PROVE  WireInv'
<1>1. call[t].attempt = NoAttempt /\ call[t].stage # "none"
  BY DEF WireInv, OnTheWire
<1> QED
  BY <1>1, NothingSent, WireRelabelled

LEMMA DeviceOf ==
  Rest => \E d \in Devices : fingerprint = build_fingerprint(d)
BY DEF Rest, Fingerprints

LEMMA ApplicationWire ==
  ASSUME Calls, Rest, WireInv, NEW t \in Tasks, Application(t)
  PROVE  WireInv'
<1>1. ASSUME NEW request \in Requests, NEW wellFormed \in BOOLEAN,
             send(t, request, wellFormed)
      PROVE  WireInv'
  <2> DEFINE begun == [NoCall EXCEPT !.request = request, !.stage = "own"]
             refused == [NoCall EXCEPT !.result = "error",
                                       !.error = Error("invalid_request")]
  <2>1. /\ begun.attempt = NoAttempt /\ begun.stage = "own"
        /\ refused.attempt = NoAttempt
    BY DEF NoCall
  <2>2. OnTheWire("done", refused)
    BY <2>1, NothingSent DEF WireLabels
  <2>3. \A label \in {"ensure", "authorize", "build"} : OnTheWire(label, begun)
    BY <2>1, NothingSent DEF WireLabels
  <2> HIDE DEF begun, refused
  <2>4. CASE Goto(t, "done") /\ Become(t, refused)
    BY <2>2, <2>4, WireMoved
  <2>5. CASE \E label \in {"ensure", "authorize", "build"} :
               Goto(t, label) /\ Become(t, begun)
    BY <2>3, <2>5, WireMoved
  <2> QED
    BY <1>1, <2>4, <2>5 DEF send, begun, refused
<1>2. ASSUME NEW d \in Devices, rotate_device(t, d) PROVE WireInv'
  <2>1. call[t].attempt = NoAttempt
    BY <1>2 DEF rotate_device, WireInv, OnTheWire
  <2>2. OnTheWire("clear", call[t])
    BY <2>1, NothingSent DEF WireLabels
  <2> QED
    BY <1>2, <2>2, WireRelabelled DEF rotate_device
<1>3. ASSUME StartReset(t) PROVE WireInv'
  <2> DEFINE c == [NoCall EXCEPT !.device = fingerprint.device]
  <2>1. c.attempt = NoAttempt
    BY DEF NoCall
  <2>2. OnTheWire("swap", c)
    BY <2>1, NothingSent DEF WireLabels
  <2> QED
    BY <1>3, <2>2, WireMoved DEF StartReset
<1>4. ASSUME NEW client, NEW headers, NEW d \in Devices, Sends(t, client, headers),
             LET sent == [client |-> client, headers |-> headers,
                          device |-> fingerprint.device,
                          signature |-> NoSignature, left |-> now]
             IN  Handshaken(sent, d) \/ Fetched(sent, d)
      PROVE  WireInv'
  <2> DEFINE sent == [client |-> client, headers |-> headers,
                      device |-> fingerprint.device,
                      signature |-> NoSignature, left |-> now]
             c == [NoCall EXCEPT !.attempt = sent]
  <2>1. c.attempt = sent /\ c.stage = "none" /\ c.request = NoRequest
    BY DEF NoCall
  <2> HIDE DEF c
  <2>2. OnTheWire("done", c)
    <3> HIDE DEF sent
    <3>1. Handshaken(c.attempt, d) \/ Fetched(c.attempt, d)
      BY <1>4, <2>1 DEF sent
    <3> QED
      BY <2>1, <3>1 DEF OnTheWire
  <2> QED
    BY <1>4, <2>2, WireMoved DEF Sends, c
<1>5. PICK d \in Devices : fingerprint = build_fingerprint(d)
  BY DeviceOf
<1>6. fingerprint.device = d /\ fingerprint.user_agent = build_user_agent(d)
  BY <1>5 DEF build_fingerprint
<1>7. ASSUME Connect(t) PROVE WireInv'
  <2>1. PICK offer_deflate \in BOOLEAN :
          Sends(t, fingerprint.ws_http,
                ws_headers(d, build_user_agent(d), offer_deflate))
    BY <1>6, <1>7 DEF Connect
  <2> QED
    BY <1>4, <1>5, <1>6, <2>1 DEF Handshaken
<1>8. ASSUME Fetch(t) PROVE WireInv'
  <2>1. PICK ranged \in BOOLEAN :
          \/ Sends(t, fingerprint.media_http,
                   build_media(build_user_agent(d), ranged))
          \/ Sends(t, fingerprint.media_http, build_platform_media(d, ranged))
          \/ Sends(t, fingerprint.media_http, build_plain(ranged))
    BY <1>6, <1>8 DEF Fetch
  <2> QED
    BY <1>4, <1>5, <1>6, <2>1 DEF Fetched
<1>9. ASSUME Collect(t) PROVE WireInv'
  BY <1>9, WireEnds DEF Collect
<1> QED
  BY <1>1, <1>2, <1>3, <1>7, <1>8, <1>9 DEF Application

LEMMA EnsuredWire ==
  ASSUME Calls, WireInv, NEW t \in Tasks, Ensured(t)
  PROVE  WireInv'
<1> DEFINE c == [NoCall EXCEPT !.request = call[t].request, !.stage = "own"]
<1>1. c.attempt = NoAttempt /\ c.stage = "own"
  BY DEF NoCall
<1>2. OnTheWire("authorize", c)
  BY <1>1, NothingSent DEF WireLabels
<1> QED
  BY <1>2, WireEnds, WireMoved DEF Ensured

\* signed_bytes: what was composed is signed for the device it was made for.
LEMMA SignedWire ==
  ASSUME Calls, WireInv, NEW t \in Tasks, NEW stamp, at[t] = "sign",
         LET signature == Signature(call[t].attempt.device, stamp) IN
         Become(t, [call[t] EXCEPT
           !.attempt.signature = signature, !.attempt.left = now,
           !.attempt.headers = @ \o SignatureHeaders(signature)]),
         Goto(t, "sent")
  PROVE  WireInv'
<1> DEFINE signature == Signature(call[t].attempt.device, stamp)
           sent == call[t].attempt
           c == [call[t] EXCEPT
                   !.attempt.signature = signature, !.attempt.left = now,
                   !.attempt.headers = @ \o SignatureHeaders(signature)]
<1>1. CallOK("sign", call[t]) /\ OnTheWire("sign", call[t])
  BY DEF Calls, WireInv
<1>2. PICK d \in Devices : Made(call[t], d)
  BY <1>1 DEF OnTheWire
<1>3. ~sent.signature.signed /\ call[t].stage # "none" /\ Body(call[t]) = "signed"
  BY <1>1 DEF OnTheWire, CallOK
<1>4. /\ sent.client = build_fingerprint(d).http /\ sent.device = d
      /\ sent.headers = Composed(call[t], build_fingerprint(d))
  BY <1>2, <1>3 DEF Made
<1>5. /\ c.request = call[t].request /\ c.stage = call[t].stage
      /\ c.token = call[t].token
      /\ c.attempt.client = sent.client /\ c.attempt.device = sent.device
      /\ c.attempt.signature = signature
      /\ c.attempt.headers = sent.headers \o SignatureHeaders(signature)
  BY <1>1 DEF CallOK, NoCall, NoAttempt
<1>6. /\ signature.signed = TRUE /\ signature.stamp = stamp
      /\ signature = Signature(d, stamp)
  BY <1>4 DEF Signature
<1> HIDE DEF c, signature, sent
<1>7. Body(c) = Body(call[t])
  BY <1>5 DEF Body
<1>8. \A fp : Composed(c, fp) = Composed(call[t], fp)
  BY <1>5, <1>7 DEF Composed
<1>9. Made(c, d)
  BY <1>3, <1>4, <1>5, <1>6, <1>7, <1>8 DEF Made
<1>10. OnTheWire("sent", c)
  BY <1>3, <1>5, <1>9 DEF OnTheWire
<1> QED
  BY <1>10, WireMoved DEF c, signature

LEMMA WaitingWire ==
  ASSUME Calls, WireInv, NEW t \in Tasks, Waiting(t)
  PROVE  WireInv'
<1>1. CASE LockSlot(t)
  <2>1. ASSUME Goto(t, "authorize"), Become(t, [call[t] EXCEPT !.stage = "challenge"])
        PROVE  WireInv'
    <3> DEFINE c == [call[t] EXCEPT !.stage = "challenge"]
    <3>1. CallOK("locking", call[t]) /\ OnTheWire("locking", call[t])
      BY <1>1 DEF Calls, WireInv, LockSlot
    <3>2. c.attempt = NoAttempt /\ c.stage = "challenge"
      BY <3>1 DEF CallOK, OnTheWire, NoCall
    <3>3. OnTheWire("authorize", c)
      BY <3>2, NothingSent DEF WireLabels
    <3> QED
      BY <2>1, <3>3, WireMoved
  <2> QED
    BY <1>1, <2>1, EnsuredWire DEF LockSlot
<1>2. CASE signed_bytes(t)
  BY <1>2, WireEnds, SignedWire DEF signed_bytes
<1>3. CASE Clear(t)
  <2>1. ASSUME at[t] = "drop", Goto(t, "verdict"), UNCHANGED call PROVE WireInv'
    BY <2>1, WireGoesOn DEF WireLabels
  <2> QED
    BY <1>3, <2>1, WireEnds DEF Clear
<1> QED
  BY <1>1, <1>2, <1>3 DEF Waiting

\* attempt: everything is of the fingerprint that is there.
LEMMA AttemptWire ==
  ASSUME Calls, Rest, WireInv, NEW t \in Tasks, attempt(t)
  PROVE  WireInv'
<1> DEFINE fresh == [client |-> fingerprint.http,
                     headers |-> Composed(call[t], fingerprint),
                     device |-> fingerprint.device,
                     signature |-> NoSignature, left |-> now]
           c == [call[t] EXCEPT !.attempt = fresh]
<1>1. CallOK("build", call[t]) /\ OnTheWire("build", call[t])
  BY DEF Calls, WireInv, attempt
<1>2. PICK d \in Devices : fingerprint = build_fingerprint(d)
  BY DeviceOf
<1>3. /\ c.request = call[t].request /\ c.stage = call[t].stage
      /\ c.token = call[t].token /\ c.attempt = fresh
  BY <1>1 DEF CallOK, NoCall
<1>4. /\ fresh.client = build_fingerprint(d).http /\ fresh.device = d
      /\ fresh.headers = Composed(call[t], build_fingerprint(d))
      /\ ~fresh.signature.signed
  BY <1>2 DEF build_fingerprint, NoSignature
<1> HIDE DEF c, fresh
<1>5. Body(c) = Body(call[t])
  BY <1>3 DEF Body
<1>6. \A fp : Composed(c, fp) = Composed(call[t], fp)
  BY <1>3, <1>5 DEF Composed
<1>7. Made(c, d)
  BY <1>3, <1>4, <1>6 DEF Made
<1>8. call[t].stage # "none"
  BY <1>1 DEF OnTheWire
<1>9. OnTheWire("sign", c) /\ OnTheWire("sent", c)
  BY <1>3, <1>4, <1>7, <1>8 DEF OnTheWire
<1> QED
  BY <1>9, WireMoved DEF attempt, c, fresh

LEMMA GoingWire ==
  ASSUME Calls, Rest, WireInv, NEW t \in Tasks, Going(t)
  PROVE  WireInv'
<1>0. CallOK(at[t], call[t]) /\ OnTheWire(at[t], call[t])
  BY DEF Calls, WireInv
<1>1. CASE signing_user_id(t)
  <2>1. ASSUME Goto(t, "locking"), UNCHANGED call PROVE WireInv'
    BY <1>1, <2>1, WireGoesOn DEF signing_user_id, WireLabels
  <2> QED
    BY <1>1, <2>1, WireEnds DEF signing_user_id
<1>2. CASE AskProvider(t)
  <2>1. ASSUME NEW token, Goto(t, "authorize"),
               Become(t, [call[t] EXCEPT !.stage = "register", !.token = token,
                                         !.retries = {}, !.answer = NoAnswerYet])
        PROVE  WireInv'
    <3> DEFINE c == [call[t] EXCEPT !.stage = "register", !.token = token,
                                    !.retries = {}, !.answer = NoAnswerYet]
    <3>1. c.attempt = call[t].attempt /\ c.stage = "register"
      BY <1>0 DEF CallOK, NoCall
    <3>2. at[t] = "captcha" /\ call[t].attempt = NoAttempt
      BY <1>0, <1>2 DEF OnTheWire, AskProvider
    <3> HIDE DEF c
    <3>3. c.attempt = NoAttempt /\ c.stage # "none"
      BY <3>1, <3>2
    <3>4. OnTheWire("authorize", c)
      BY <3>3, NothingSent DEF WireLabels
    <3> QED
      BY <2>1, <3>4, WireMoved DEF c
  <2> QED
    BY <1>2, <2>1, WireEnds DEF AskProvider
<1>3. CASE Authorize(t)
  <2>1. ASSUME Goto(t, "build"), UNCHANGED call PROVE WireInv'
    BY <1>3, <2>1, WireGoesOn DEF Authorize, WireLabels
  <2> QED
    BY <1>3, <2>1, WireEnds DEF Authorize
<1>4. CASE attempt(t)
  BY <1>4, AttemptWire
<1>5. ASSUME NEW a \in Replies, Arrive(t, a) PROVE WireInv'
  <2> DEFINE c == [call[t] EXCEPT !.answer = a, !.attempt = NoAttempt]
  <2>1. c.attempt = NoAttempt /\ c.stage = call[t].stage
    BY <1>0 DEF CallOK, NoCall
  <2>2. call[t].stage # "none" /\ at[t] = "sent"
    BY <1>0, <1>5 DEF OnTheWire, Arrive
  <2> HIDE DEF c
  <2>3. OnTheWire("judge", c)
    BY <2>1, <2>2, NothingSent DEF WireLabels
  <2> QED
    BY <1>5, <2>3, WireMoved DEF Arrive, c
<1>6. CASE NoAnswer(t)
  BY <1>6, WireEnds DEF NoAnswer
<1>7. ASSUME NEW retry, at[t] = "judge", NEW label \in {"refresh", "authorize"},
             Become(t, [call[t] EXCEPT !.retries = @ \union {retry}]),
             Goto(t, label)
      PROVE  WireInv'
  <2> DEFINE c == [call[t] EXCEPT !.retries = @ \union {retry}]
  <2>1. c.attempt = call[t].attempt /\ c.stage = call[t].stage
    BY <1>0 DEF CallOK, NoCall
  <2>2. call[t].stage # "none" /\ call[t].attempt = NoAttempt
    BY <1>0, <1>7 DEF OnTheWire
  <2> HIDE DEF c
  <2>3. c.attempt = NoAttempt /\ c.stage # "none"
    BY <2>1, <2>2
  <2>4. OnTheWire(label, c)
    BY <2>3, NothingSent DEF WireLabels
  <2> QED
    BY <1>7, <2>4, WireMoved DEF c
<1>8. CASE StartRefresh(t) \/ SignAgain(t)
  BY <1>7, <1>8 DEF StartRefresh, SignAgain
<1>9. CASE EndRefresh(t)
  BY <1>9, WireGoesOn DEF EndRefresh, WireLabels
<1>10. CASE DropKey(t)
  BY <1>10, WireGoesOn DEF DropKey, WireLabels
<1>11. CASE raw_or_blocked(t)
  BY <1>11, WireEnds DEF raw_or_blocked
<1>12. CASE Challenged(t)
  <2>1. ASSUME Goto(t, "captcha"), UNCHANGED call PROVE WireInv'
    BY <1>12, <2>1, WireGoesOn DEF Challenged, Stands, WireLabels
  <2> QED
    BY <1>12, <2>1, WireEnds DEF Challenged
<1>13. CASE Registered(t)
  BY <1>13, WireEnds, EnsuredWire DEF Registered
<1>14. CASE Swap(t)
  BY <1>14, WireEnds DEF Swap
<1> QED
  BY <1>1, <1>2, <1>3, <1>4, <1>5, <1>6, <1>8, <1>9, <1>10, <1>11, <1>12,
     <1>13, <1>14
  DEF Going

LEMMA WireStep == Calls /\ Rest /\ WireInv /\ [Next]_exchangeVars => WireInv'
<1> SUFFICES ASSUME Calls, Rest, WireInv, [Next]_exchangeVars PROVE WireInv'
  OBVIOUS
<1>1. ASSUME UNCHANGED <<at, call>> PROVE WireInv'
  BY <1>1 DEF WireInv
<1>2. CASE Tick \/ SetClock \/ Settings \/ UNCHANGED exchangeVars
  BY <1>1, <1>2 DEF Tick, SetClock, Settings, set_captcha_provider,
      restore_signing_key, sign_out, exchangeVars
<1>3. CASE \E t \in Tasks : Application(t) \/ Waiting(t) \/ Going(t)
  BY <1>3, ApplicationWire, WaitingWire, GoingWire
<1> QED
  BY <1>2, <1>3 DEF Next

LEMMA WireInit == Init => WireInv
<1> SUFFICES ASSUME Init, NEW t \in Tasks PROVE OnTheWire(at[t], call[t])
  BY DEF WireInv
<1>1. at[t] = "idle" /\ call[t] = NoCall /\ NoCall.attempt = NoAttempt
  BY DEF Init, NoCall
<1> QED
  BY <1>1, NothingSent DEF WireLabels

\* The inductive invariant of what goes over the wire: every attempt is made
\* from one fingerprint, signed for the device it was made for, and nothing is
\* left of it when it was answered (attempt, signed_bytes).
THEOREM WireInductive == Spec => []WireInv
<1>1. EInv => Calls /\ Rest
  BY InParts
<1>2. EInv /\ WireInv /\ [Next]_exchangeVars => WireInv'
  BY <1>1, WireStep
<1> QED
  BY <1>2, WireInit, ExchangeInductive, PTL DEF Spec

-----------------------------------------------------------------------------
(***************************************************************************)
(* What follows of it.                                                     *)
(***************************************************************************)

LEMMA ValuesOf ==
  ASSUME NEW d, NEW signature, NEW headers \in Seq(HeadersOf(d, signature))
  PROVE  /\ Values(headers, "l-device-info") \subseteq {build_device_info_header(d)}
         /\ Values(headers, "l-time-zone") \subseteq {[timezone |-> d.timezone]}
         /\ Values(headers, "user-agent")
              \subseteq {build_user_agent(d), build_platform_user_agent(d), Fixed}
<1>1. \A h \in HeadersOf(d, signature) :
        /\ h.name = "l-device-info" => h.value = build_device_info_header(d)
        /\ h.name = "l-time-zone" => h.value = [timezone |-> d.timezone]
        /\ h.name = "user-agent"
             => h.value \in {build_user_agent(d), build_platform_user_agent(d), Fixed}
  BY DEF HeadersOf, OfAnyDevice, Plain, Header
<1>2. \A i \in 1 .. Len(headers) : headers[i] \in HeadersOf(d, signature)
  OBVIOUS
<1> QED
  BY <1>1, <1>2 DEF Values

\* A call with what it sent is one of four.
LEMMA FourKinds ==
  ASSUME Calls, WireInv, NEW t \in Tasks
  PROVE  \/ call[t].attempt = NoAttempt
         \/ \E d \in Devices : Made(call[t], d) /\ call[t].stage # "none"
         \/ /\ call[t].stage = "none" /\ call[t].request = NoRequest
            /\ \E d \in Devices :
                 \/ Handshaken(call[t].attempt, d)
                 \/ Fetched(call[t].attempt, d)
BY DEF WireInv, OnTheWire

LEMMA NothingOfNoAttempt ==
  /\ NoAttempt.headers = <<>> /\ ~NoAttempt.signature.signed
  /\ \A name : Values(<<>>, name) = {}
BY DEF NoAttempt, NoSignature, Values

LEMMA MadeOf ==
  ASSUME Calls, NEW t \in Tasks, NEW d, Made(call[t], d)
  PROVE  LET c == call[t]
             sent == c.attempt IN
         /\ sent.client.device = d
         /\ sent.headers \in Seq(HeadersOf(d, sent.signature))
         /\ Ordered(sent.headers)
         /\ Body(c) = "signed" \/ IsEncoding(sent.headers[Len(sent.headers)])
         /\ sent.signature.signed => sent.signature.id = d.id
<1> DEFINE c == call[t]
           sent == c.attempt
<1>1. c.request.session \in BOOLEAN
  <2>1. c.request \in Requests \union {NoRequest}
    BY DEF Calls, CallOK
  <2>2. \A request \in Request : request.session \in BOOLEAN
    BY DEF Request
  <2>3. NoRequest.session \in BOOLEAN
    BY DEF NoRequest
  <2> HIDE DEF c
  <2> QED
    BY <2>1, <2>2, <2>3, RequestsAssumption
<1>2. sent.client.device = d
  BY DEF Made, build_fingerprint, Client
<1> HIDE DEF c
<1>3. CASE sent.signature.signed
  <2>1. /\ Body(c) = "signed"
        /\ sent.signature = Signature(d, sent.signature.stamp)
        /\ sent.headers = Composed(c, build_fingerprint(d))
                            \o SignatureHeaders(sent.signature)
    BY <1>3 DEF Made, c
  <2>2. sent.signature.id = d.id
    BY <2>1 DEF Signature
  <2>3. /\ sent.headers \in Seq(HeadersOf(d, sent.signature))
        /\ Ordered(sent.headers)
    BY <1>1, <2>1, SignedOf
  <2> QED
    BY <1>2, <2>1, <2>2, <2>3 DEF c
<1>4. CASE ~sent.signature.signed
  <2>1. sent.headers = Composed(c, build_fingerprint(d))
    BY <1>4 DEF Made, c
  <2>2. /\ sent.headers \in Seq(HeadersOf(d, sent.signature))
        /\ Ordered(sent.headers)
        /\ Body(c) # "signed" => IsEncoding(sent.headers[Len(sent.headers)])
    BY <1>1, <2>1, ComposedOf
  <2> QED
    BY <1>2, <1>4, <2>2 DEF c
<1> QED
  BY <1>3, <1>4

LEMMA HandshakenOf ==
  ASSUME NEW sent, NEW d, Handshaken(sent, d)
  PROVE  /\ sent.client.device = d /\ ~sent.signature.signed
         /\ sent.headers \in Seq(HeadersOf(d, sent.signature))
         /\ Ordered(sent.headers) /\ IsEncoding(sent.headers[Len(sent.headers)])
<1>1. sent.client.device = d /\ ~sent.signature.signed
  BY DEF Handshaken, build_fingerprint, Client, NoSignature
<1>2. PICK offer_deflate \in BOOLEAN :
        sent.headers = ws_headers(d, build_user_agent(d), offer_deflate)
  BY DEF Handshaken, build_fingerprint
<1> QED
  BY <1>1, <1>2, HandshakeOf

LEMMA FetchedOf ==
  ASSUME NEW sent, NEW d, Fetched(sent, d)
  PROVE  /\ sent.client.device = d /\ sent.client.speaks = {"h2", "http/1.1"}
         /\ ~sent.signature.signed
         /\ sent.headers \in Seq(HeadersOf(d, sent.signature))
         /\ NoneTwice(sent.headers)
<1>1. /\ sent.client.device = d /\ sent.client.speaks = {"h2", "http/1.1"}
      /\ ~sent.signature.signed
  BY DEF Fetched, build_fingerprint, Client, NoSignature
<1>2. PICK ranged \in BOOLEAN :
        sent.headers \in {build_media(build_user_agent(d), ranged),
                          build_platform_media(d, ranged), build_plain(ranged)}
  BY DEF Fetched, build_fingerprint
<1> QED
  BY <1>1, <1>2, FetchOf

\* Whatever a server sees of an attempt is of the device the connection was
\* made for, for any devices, however often the device is changed while a call
\* waits for the mutex or is sent again (attempt, signed_bytes).
THEOREM OneDevice == Spec => []AttemptOfOneDevice
<1>1. Calls /\ WireInv => AttemptOfOneDevice
  <2> SUFFICES ASSUME Calls, WireInv, NEW t \in Tasks
               PROVE  LET sent == call[t].attempt
                          d == sent.client.device IN
                      /\ Values(sent.headers, "l-device-info")
                           \subseteq {build_device_info_header(d)}
                      /\ Values(sent.headers, "l-time-zone")
                           \subseteq {[timezone |-> d.timezone]}
                      /\ Values(sent.headers, "user-agent")
                           \subseteq {build_user_agent(d),
                                      build_platform_user_agent(d), Fixed}
                      /\ sent.signature.signed => sent.signature.id = d.id
    BY DEF AttemptOfOneDevice
  <2>1. CASE call[t].attempt = NoAttempt
    BY <2>1, NothingOfNoAttempt
  <2>2. ASSUME NEW d, call[t].attempt.client.device = d,
               call[t].attempt.headers
                 \in Seq(HeadersOf(d, call[t].attempt.signature)),
               call[t].attempt.signature.signed
                 => call[t].attempt.signature.id = d.id
        PROVE  LET sent == call[t].attempt IN
               /\ Values(sent.headers, "l-device-info")
                    \subseteq {build_device_info_header(d)}
               /\ Values(sent.headers, "l-time-zone")
                    \subseteq {[timezone |-> d.timezone]}
               /\ Values(sent.headers, "user-agent")
                    \subseteq {build_user_agent(d),
                               build_platform_user_agent(d), Fixed}
               /\ sent.signature.signed => sent.signature.id = d.id
    BY <2>2, ValuesOf
  <2>3. CASE \E d \in Devices : Made(call[t], d)
    BY <2>2, <2>3, MadeOf
  <2>4. CASE \E d \in Devices : Handshaken(call[t].attempt, d)
    BY <2>2, <2>4, HandshakenOf
  <2>5. CASE \E d \in Devices : Fetched(call[t].attempt, d)
    BY <2>2, <2>5, FetchedOf
  <2> QED
    BY <2>1, <2>3, <2>4, <2>5, FourKinds
<1>2. EInv => Calls
  BY InParts
<1> QED
  BY <1>1, <1>2, ExchangeInductive, WireInductive, PTL

\* The headers of any request, of a handshake and of a fetch leave each once,
\* those of the API and of a handshake in the order documented for the app's,
\* and but for a signed body the content coding is last (GrindrHeaders,
\* apply_headers_then_body, OKHTTP_WS_HEADER_ORDER).
THEOREM InOrder == Spec => []HeadersInOrder
<1>1. Calls /\ WireInv => HeadersInOrder
  <2> SUFFICES ASSUME Calls, WireInv, NEW t \in Tasks
               PROVE  LET headers == call[t].attempt.headers IN
                      /\ NoneTwice(headers)
                      /\ ~FromMedia(t) =>
                           /\ InCorrectOrder(headers)
                           /\ Body(call[t]) = "signed" \/ headers = <<>>
                                \/ IsEncoding(headers[Len(headers)])
    BY DEF HeadersInOrder
  <2>1. CASE call[t].attempt = NoAttempt
    <3>1. NoneTwice(<<>>) /\ InCorrectOrder(<<>>)
      BY DEF NoneTwice, InCorrectOrder
    <3> QED
      BY <2>1, <3>1, NothingOfNoAttempt
  <2>2. ASSUME NEW d, Made(call[t], d)
        PROVE  LET headers == call[t].attempt.headers IN
               /\ NoneTwice(headers) /\ InCorrectOrder(headers)
               /\ Body(call[t]) = "signed" \/ IsEncoding(headers[Len(headers)])
    BY <2>2, MadeOf DEF Ordered
  <2>3. ASSUME NEW d, Handshaken(call[t].attempt, d)
        PROVE  LET headers == call[t].attempt.headers IN
               /\ NoneTwice(headers) /\ InCorrectOrder(headers)
               /\ IsEncoding(headers[Len(headers)])
    BY <2>3, HandshakenOf DEF Ordered
  <2>4. ASSUME NEW d, Fetched(call[t].attempt, d), call[t].stage = "none"
        PROVE  NoneTwice(call[t].attempt.headers) /\ FromMedia(t)
    BY <2>4, FetchedOf DEF FromMedia
  <2> QED
    BY <2>1, <2>2, <2>3, <2>4, FourKinds
<1>2. EInv => Calls
  BY InParts
<1> QED
  BY <1>1, <1>2, ExchangeInductive, WireInductive, PTL
=============================================================================
