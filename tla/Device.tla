------------------------------- MODULE Device -------------------------------
(***************************************************************************)
(* The device a client passes itself off as: the hardware profiles it is   *)
(* drawn from and the identity that is generated (src/src/device.rs), and  *)
(* what of it a server gets to see (the user agents and L-Device-Info of   *)
(* src/src/headers.rs).                                                    *)
(*                                                                         *)
(* A profile is its maker, model and the Android releases it lists a build *)
(* for; a build is named by the model and the release it is listed under.  *)
(* Screen and memory are functions of the model and need no field.         *)
(***************************************************************************)
EXTENDS Naturals

Profile(maker, models, first, last) ==
  [maker: {maker}, model: models, releases: {first .. last}]

GoogleProfiles ==
  Profile("Google", {"Pixel 6", "Pixel 6 Pro", "Pixel 6a"}, 12, 16)
    \union Profile("Google", {"Pixel 7", "Pixel 7 Pro", "Pixel 7a"}, 13, 16)
    \union Profile("Google", {"Pixel 8", "Pixel 8 Pro", "Pixel 8a", "Pixel 9",
                              "Pixel 9 Pro", "Pixel 9 Pro XL"}, 14, 16)

SamsungProfiles ==
  Profile("samsung", {"SM-S901B", "SM-S906B", "SM-S908B"}, 12, 16)
    \union Profile("samsung", {"SM-S911B", "SM-S916B", "SM-S918B", "SM-A546B",
                               "SM-A346B", "SM-F731B", "SM-F946B"}, 13, 16)
    \union Profile("samsung", {"SM-S921B", "SM-S926B", "SM-S928B"}, 14, 16)
    \union Profile("samsung", {"SM-A145F"}, 13, 15)

XiaomiProfiles ==
  Profile("Xiaomi", {"2201123G"}, 12, 15)
    \union Profile("Xiaomi", {"2211133G"}, 13, 16)
    \union Profile("Xiaomi", {"23078PND5G", "23049PCD8G"}, 13, 14)
    \union Profile("Xiaomi", {"23127PN0CG"}, 14, 16)
    \union Profile("Xiaomi", {"23021RAA2Y", "23117RA68G"}, 13, 15)

MotorolaProfiles ==
  Profile("motorola", {"motorola edge 40"}, 13, 13)
    \union Profile("motorola", {"moto g84 5G"}, 13, 15)

NothingProfiles ==
  Profile("Nothing", {"A065"}, 13, 15) \union Profile("Nothing", {"A142"}, 14, 15)

DEVICE_PROFILES ==
  GoogleProfiles \union SamsungProfiles \union XiaomiProfiles
    \union MotorolaProfiles \union NothingProfiles

SAFE_TIMEZONES ==
  {"Europe/Dublin", "Europe/Zurich", "Europe/Prague", "Europe/Bratislava",
   "Europe/Budapest", "Europe/Bucharest", "Europe/Sofia", "Europe/Zagreb",
   "Europe/Vilnius", "Europe/Riga", "Europe/Tallinn", "Europe/Luxembourg",
   "Europe/Malta", "America/Mexico_City", "America/Argentina/Buenos_Aires",
   "America/Santiago", "America/Bogota", "America/Lima", "America/Montevideo",
   "Asia/Tokyo", "Asia/Taipei", "Asia/Seoul", "Asia/Bangkok", "Asia/Manila",
   "Asia/Singapore"}

\* A build id; NoBuild is the empty string.
Build(model, release) == <<model, release>>
NoBuild == <<>>

(***************************************************************************)
(* A device: who it is, what it runs on and where it says it is.           *)
(***************************************************************************)
Generate(id, profile, release, timezone) ==
  [id |-> id, maker |-> profile.maker, model |-> profile.model,
   os |-> release, build |-> Build(profile.model, release),
   timezone |-> timezone]

\* DeviceInfo::generate draws any profile, any of its releases with the build
\* that is listed for it, any safe time zone.
Generated(d) ==
  \E profile \in DEVICE_PROFILES, timezone \in SAFE_TIMEZONES :
    /\ d.os \in profile.releases
    /\ d = Generate(d.id, profile, d.os, timezone)

\* A device that an earlier version of the library saved has no build id.
SavedEarlier(d) == [d EXCEPT !.build = NoBuild]

(***************************************************************************)
(* What a server sees of it.                                               *)
(***************************************************************************)
build_user_agent(d) ==
  [agent |-> "grindr3", os |-> d.os, model |-> d.model, maker |-> d.maker]

build_platform_user_agent(d) ==
  [agent |-> "Dalvik", os |-> d.os, model |-> d.model, build |-> d.build]

build_device_info_header(d) == [id |-> d.id, model |-> d.model]
=============================================================================
